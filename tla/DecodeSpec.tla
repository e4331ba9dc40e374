----------------------------- MODULE DecodeSpec -----------------------------
(***************************************************************************)
(* What the target expects of a generated decode function, whatever tree   *)
(* it was compiled to: an instruction word is offered to the trans_*       *)
(* function of every pattern it matches, and of no other, one after the    *)
(* other, until one accepts it; in a braced group the patterns come in     *)
(* file order; the word is illegal only when all of them refused.          *)
(***************************************************************************)
EXTENDS Naturals, Sequences

CONSTANTS Bit, Pattern, Item, Members, None, Illegal

VARIABLES
  enc,      \* the fixed bits of the patterns
  word,     \* the instruction word, None before there is one
  refused,  \* the patterns whose trans_* returned false
  outcome   \* the pattern that took the word, Illegal, or None as yet

specVars == <<enc, word, refused, outcome>>

Fits(p) == word \cap enc[p].mask = enc[p].bits

(* The patterns listed before member k of item i have all had their turn. *)
Turn(i, k) == \A j \in 1 .. (k - 1) : Fits(Members[i][j]) => Members[i][j] \in refused

SpecInit ==
  /\ word = None
  /\ refused = {}
  /\ outcome = None

Fetch ==
  /\ word = None
  /\ word' # None
  /\ word' \in SUBSET Bit
  /\ UNCHANGED <<enc, refused, outcome>>

Offer ==
  /\ word # None
  /\ outcome = None
  /\ \E i \in Item : \E k \in DOMAIN Members[i] :
       /\ Fits(Members[i][k])
       /\ Members[i][k] \notin refused
       /\ Turn(i, k)
       /\ \/ outcome' = Members[i][k] /\ UNCHANGED refused
          \/ refused' = refused \cup {Members[i][k]} /\ UNCHANGED outcome
  /\ UNCHANGED <<enc, word>>

GiveUp ==
  /\ word # None
  /\ outcome = None
  /\ \A p \in Pattern : Fits(p) => p \in refused
  /\ outcome' = Illegal
  /\ UNCHANGED <<enc, word, refused>>

Decide == Offer \/ GiveUp

(* The fixed bits are given; only the decoding of one word moves. *)
decided == <<word, refused, outcome>>
Safety == SpecInit /\ [][Fetch \/ Decide]_decided
Spec == Safety /\ WF_decided(Decide)
=============================================================================
