----------------------------- MODULE LayerStack -----------------------------
(***************************************************************************)
(* CLayerManager and CBaseLayer: layers are registered by name, and a text *)
(* such as "N ( *E ( *C *F ) )" is turned into the pointers by which each  *)
(* layer finds the layers above and below it.  Written in the text: a      *)
(* layer's upper layers stand in parentheses after it.                     *)
(***************************************************************************)
EXTENDS Integers, FiniteSets, Sequences, SequencesExt, Places

CONSTANTS
    Names,         \* the names a text may use
    NoLayer,       \* the null pointer
    StackSize,     \* MAX_LAYER_NUMBER, the size of mp_Stack
    MaxTokens      \* bound: tokens of a text

ASSUME LayerStackAssumption ==
    /\ NoLayer \notin Names \cup {"(", ")"} /\ Names \cap {"(", ")"} = {}
    /\ StackSize \in Nat \ {0} /\ MaxTokens \in Nat

VARIABLES
    mp_aLayers,    \* the names registered
    phase,         \* "adding" layers or "linking" them
    list,          \* the tokens of the text so far
    pLayer,        \* LinkLayer's current layer
    mp_Stack,      \* the layers whose parentheses are open
    upper,         \* mp_aUpperLayer of each layer
    under,         \* mp_UnderLayer of each layer
    down           \* the program called through a null pointer

vars == <<mp_aLayers, phase, list, pLayer, mp_Stack, upper, under, down>>

Init ==
    /\ mp_aLayers = {} /\ phase = "adding" /\ list = <<>>
    /\ pLayer = NoLayer /\ mp_Stack = <<>>
    /\ upper = [n \in Names |-> <<>>] /\ under = [n \in Names |-> NoLayer]
    /\ down = FALSE

-----------------------------------------------------------------------------
AddLayer(n) ==
    /\ phase = "adding" /\ n \notin mp_aLayers
    /\ mp_aLayers' = mp_aLayers \cup {n}
    /\ UNCHANGED <<phase, list, pLayer, mp_Stack, upper, under, down>>

ConnectLayers ==
    /\ phase = "adding"
    /\ phase' = "linking"
    /\ UNCHANGED <<mp_aLayers, list, pLayer, mp_Stack, upper, under, down>>

GetLayer(n) == IF n \in mp_aLayers THEN n ELSE NoLayer

Top == IF mp_Stack = <<>> THEN NoLayer ELSE Last(mp_Stack)

(* m_nTop is Len(mp_Stack) - 1. *)
Push(layer) ==
    mp_Stack' = IF Len(mp_Stack) - 1 >= StackSize THEN mp_Stack ELSE Append(mp_Stack, layer)

(* Slip: the stack is emptied. *)
PopAll == mp_Stack' = <<>>

Pop == mp_Stack' = IF mp_Stack = <<>> THEN mp_Stack ELSE Front(mp_Stack)

SetUpperUnderLayer(low, up) ==
    IF up = NoLayer THEN UNCHANGED <<upper, under, down>>
    ELSE IF low = NoLayer THEN down' = TRUE /\ UNCHANGED <<upper, under>>
    ELSE /\ upper' = [upper EXCEPT ![low] = Append(@, up)]
         /\ under' = [under EXCEPT ![up] = low]
         /\ UNCHANGED down

-----------------------------------------------------------------------------
(* The texts: a name; then names in parentheses after a name.               *)
Items == {"(", ")"}
At(s, token) == {i \in DOMAIN s : s[i] = token}
Depth(s) == Cardinality(At(s, "(")) - Cardinality(At(s, ")"))

MayFollow(token) ==
    /\ Len(list) < MaxTokens
    /\ CASE token = "(" -> list # <<>> /\ Last(list) \in Names
         [] token = ")" -> Depth(list) > 0 /\ Last(list) # "("
         [] OTHER       -> list = <<>> \/ Depth(list) > 0

(* Slip: an unknown name is skipped and the layer before it is kept. *)
LinkNameSkips(token) ==
    /\ token \in Names
    /\ IF list = <<>>
       THEN pLayer' = GetLayer(token) /\ UNCHANGED <<upper, under, down>>
       ELSE IF pLayer = NoLayer THEN UNCHANGED <<pLayer, upper, under, down>>
       ELSE /\ pLayer' = IF GetLayer(token) = NoLayer THEN pLayer ELSE token
            /\ SetUpperUnderLayer(Top, GetLayer(token))
    /\ UNCHANGED mp_Stack

(* LinkLayer at a token that is a name.  The first one stands alone; the    *)
(* others have a mode, '*', in front, which makes them no name when         *)
(* LinkLayer, having lost its layer, looks the token itself up.             *)
LinkName(token) ==
    /\ token \in Names
    /\ IF list = <<>>
       THEN pLayer' = GetLayer(token) /\ UNCHANGED <<upper, under, down>>
       ELSE IF pLayer = NoLayer THEN UNCHANGED <<pLayer, upper, under, down>>
       ELSE /\ pLayer' = GetLayer(token)
            /\ SetUpperUnderLayer(Top, GetLayer(token))
    /\ UNCHANGED mp_Stack

LinkOpen(token) ==
    /\ token = "("
    /\ IF pLayer = NoLayer THEN UNCHANGED mp_Stack ELSE Push(pLayer)
    /\ UNCHANGED <<pLayer, upper, under, down>>

LinkClose(token) ==
    /\ token = ")"
    /\ IF pLayer = NoLayer THEN UNCHANGED mp_Stack ELSE Pop
    /\ UNCHANGED <<pLayer, upper, under, down>>

LinkLayer(token) ==
    /\ phase = "linking" /\ ~down /\ MayFollow(token)
    /\ list' = Append(list, token)
    /\ LinkName(token) \/ LinkOpen(token) \/ LinkClose(token)
    /\ UNCHANGED <<mp_aLayers, phase>>

Next ==
    \/ \E n \in Names : AddLayer(n)
    \/ ConnectLayers
    \/ \E token \in Names \cup Items : LinkLayer(token)

Spec == Init /\ [][Next]_vars

-----------------------------------------------------------------------------
(* Properties. *)

(* What the text says.  The name at place i stands in the parentheses of    *)
(* the last name before it that is one level further out.                   *)
Named(s) == {i \in DOMAIN s : s[i] \in Names}
DepthAt(s, i) == Depth(SubSeq(s, 1, i))
OuterOf(s, i) == {j \in Named(s) : j < i /\ DepthAt(s, j) = DepthAt(s, i) - 1}
Outer(s, i) == CHOOSE j \in OuterOf(s, i) : \A k \in OuterOf(s, i) : k <= j

(* The text up to its first name that is not registered. *)
Known(s) ==
    LET bad == {i \in Named(s) : s[i] \notin mp_aLayers}
    IN  IF bad = {} THEN s
        ELSE SubSeq(s, 1, (CHOOSE i \in bad : \A j \in bad : i <= j) - 1)

UpperInText(s, n) ==
    LET inside == {i \in Named(s) : DepthAt(s, i) > 0 /\ s[Outer(s, i)] = n}
    IN  [k \in 1..Cardinality(inside) |-> s[Nth(inside, k)]]

UnderInText(s, n) ==
    LET at == {i \in Named(s) : DepthAt(s, i) > 0 /\ s[i] = n}
    IN  IF at = {} THEN NoLayer ELSE s[Outer(s, CHOOSE i \in at : \A j \in at : j <= i)]

(* The pointers are what the text says: each layer's upper layers are those *)
(* in its parentheses, in order, and its under layer is the one it was last *)
(* put above.  A name that is not registered ends the linking for good,     *)
(* whatever follows it.                                                     *)
LinkedAsWritten ==
    \A n \in Names :
        /\ upper[n] = UpperInText(Known(list), n)
        /\ under[n] = UnderInText(Known(list), n)

(* No text of this form makes LinkLayer call through a null pointer.        *)
NeverDown == ~down

=============================================================================
