------------------------------ MODULE Wishes ------------------------------
(***************************************************************************)
(* The bytes of a wish (protocol/src/wish.rs): to_bytes, check and         *)
(* from_bytes.  A proposal's id is the hash of these bytes, so two wishes  *)
(* must never have the same bytes, nor one wish two.                       *)
(*                                                                         *)
(* A number of fixed width is one number here, whatever its width, and so  *)
(* are a world's id, a ruleset's and an author's key.  An option is a set  *)
(* of at most one member.                                                  *)
(***************************************************************************)
EXTENDS Integers, Sequences

CONSTANTS
    MAX_LIFETIME,  \* epochs a wish lives at most (288)
    MAX_PARAMS,    \* bytes of a hypothesis' parameters at most (32)
    GIFT_KINDS,    \* gifts there are (6)
    Tried,         \* bound: wishes looked at
    Values         \* bound: bytes tried in place of another

VERSION == 0

\* Codes by name: weather 0, migrate 1, revive 2, gift 6, hybrid 7; the others,
\* up to 10, are relief and harm for a clade.
Codes == 0..10
REVIVE == 2
GIFT == 6
HYBRID == 7

\* An action is its code and its numbers in the order of its bytes; the steps of a
\* revival, with their count, are between its second number and its third.
Arity(code) ==
    CASE code = 1 -> 5
      [] code \in {REVIVE, GIFT, HYBRID} -> 4
      [] OTHER -> 3

step_bytes(steps) == [i \in 1..(2 * Len(steps)) |-> steps[(i + 1) \div 2][2 - (i % 2)]]

action_bytes(a) ==
    IF a.code = REVIVE
    THEN <<a.args[1], a.args[2], Len(a.steps)>> \o step_bytes(a.steps) \o <<a.args[3], a.args[4]>>
    ELSE a.args

\* What the types of Action can hold: a weather's kind is rain or drought, a
\* source the museum or the spore bank.
InRange(a) == /\ a.code = 0 => a.args[3] \in 0..1
              /\ a.code = REVIVE => a.args[1] \in 0..1

\* What the type Wish holds.
IsOption(S) == \A x, y \in S : x = y
IsWish(w) ==
    /\ w \in [world : Nat, ruleset : Nat, author : Nat, created : Nat, expires : Nat,
              action : [code : Codes, args : Seq(Nat), steps : Seq(Nat \X Nat)],
              hypothesis : SUBSET [template : Nat, params : Seq(Nat)],
              name : SUBSET (Nat \X Nat)]
    /\ IsOption(w.hypothesis) /\ IsOption(w.name)
    /\ Len(w.action.args) = Arity(w.action.code)
    /\ w.action.code # REVIVE => w.action.steps = <<>>
    /\ InRange(w.action)

ASSUME WishesAssumption ==
    /\ {MAX_LIFETIME, MAX_PARAMS, GIFT_KINDS} \subseteq Nat
    /\ Values \subseteq Nat
    /\ \A w \in Tried : IsWish(w)

check(w) ==
    /\ w.created < w.expires /\ w.expires - w.created <= MAX_LIFETIME
    /\ IF w.action.code = REVIVE THEN Len(w.action.steps) <= 2 ELSE w.name = {}
    /\ w.action.code = GIFT => w.action.args[1] < GIFT_KINDS
    /\ w.action.code = HYBRID => w.action.args[1] # w.action.args[2]
    /\ \A h \in w.hypothesis : Len(h.params) <= MAX_PARAMS

hypothesis_bytes(h) ==
    IF h = {} THEN <<0>>
    ELSE LET x == CHOOSE x \in h : TRUE IN <<1, x.template, Len(x.params)>> \o x.params

name_bytes(name) ==
    IF name = {} THEN <<0>> ELSE LET x == CHOOSE x \in name : TRUE IN <<1, x[1], x[2]>>

to_bytes(w) ==
    <<VERSION, w.world, w.ruleset, w.action.code>> \o action_bytes(w.action)
    \o <<w.author, w.created, w.expires>> \o hypothesis_bytes(w.hypothesis) \o name_bytes(w.name)

\* Reader: reading past the end is an error, and so are bytes left over.  An action
\* ends at ActionEnd; author, created and expires, three bytes, come before the
\* hypothesis, whose presence is the byte after them, and the name comes last.
Byte(b, i) == IF i \in DOMAIN b THEN b[i] ELSE 0
CodeIn(b) == Byte(b, 4)
StepCount(b) == IF CodeIn(b) = REVIVE THEN Byte(b, 7) ELSE 0
ActionEnd(b) == 4 + Arity(CodeIn(b)) + IF CodeIn(b) = REVIVE THEN 1 + 2 * StepCount(b) ELSE 0
HasHypothesis(b) == Byte(b, ActionEnd(b) + 4)
ParamCount(b) == IF HasHypothesis(b) = 1 THEN Byte(b, ActionEnd(b) + 6) ELSE 0
HypothesisEnd(b) == ActionEnd(b) + 4 + IF HasHypothesis(b) = 1 THEN 2 + ParamCount(b) ELSE 0
HasName(b) == Byte(b, HypothesisEnd(b) + 1)
WishEnd(b) == HypothesisEnd(b) + 1 + IF HasName(b) = 1 THEN 2 ELSE 0

action_in(b) ==
    [code |-> CodeIn(b),
     args |-> IF CodeIn(b) = REVIVE
              THEN <<Byte(b, 5), Byte(b, 6), Byte(b, ActionEnd(b) - 1), Byte(b, ActionEnd(b))>>
              ELSE [i \in 1..Arity(CodeIn(b)) |-> Byte(b, 4 + i)],
     steps |-> [i \in 1..StepCount(b) |-> <<Byte(b, 6 + 2 * i), Byte(b, 7 + 2 * i)>>]]

hypothesis_in(b) ==
    IF HasHypothesis(b) = 0 THEN {}
    ELSE {[template |-> Byte(b, ActionEnd(b) + 5),
           params |-> [i \in 1..ParamCount(b) |-> Byte(b, ActionEnd(b) + 6 + i)]]}

name_in(b) ==
    IF HasName(b) = 0 THEN {}
    ELSE {<<Byte(b, HypothesisEnd(b) + 2), Byte(b, HypothesisEnd(b) + 3)>>}

wish_in(b) ==
    [world |-> Byte(b, 2), ruleset |-> Byte(b, 3), action |-> action_in(b),
     author |-> Byte(b, ActionEnd(b) + 1), created |-> Byte(b, ActionEnd(b) + 2),
     expires |-> Byte(b, ActionEnd(b) + 3),
     hypothesis |-> hypothesis_in(b), name |-> name_in(b)]

NothingMissing(bytes, end) == Len(bytes) >= end
Whole(bytes, end) == Len(bytes) = end

Readable(bytes) ==
    /\ Byte(bytes, 1) = VERSION /\ CodeIn(bytes) \in Codes
    /\ StepCount(bytes) <= 2 /\ ParamCount(bytes) <= MAX_PARAMS
    /\ HasHypothesis(bytes) \in 0..1 /\ HasName(bytes) \in 0..1
    /\ Whole(bytes, WishEnd(bytes))
    /\ InRange(action_in(bytes)) /\ check(wish_in(bytes))

from_bytes(bytes) == IF Readable(bytes) THEN {wish_in(bytes)} ELSE {}

-----------------------------------------------------------------------------
(* Property. *)

\* Bytes near b: one changed, some cut off, one more.
Near(b) == {[b EXCEPT ![i] = v] : i \in DOMAIN b, v \in Values}
           \cup {SubSeq(b, 1, i) : i \in 0..Len(b)}
           \cup {Append(b, v) : v \in Values}

\* A valid wish is read back as it was written, so no two have the same bytes; and
\* whatever bytes are read as a wish are the bytes of this wish, so that nobody can
\* have two ids for one wish (from_bytes, with the rules of check).
WishesHaveOneForm ==
    \A w \in {x \in Tried : check(x)} :
        /\ from_bytes(to_bytes(w)) = {w}
        /\ \A bytes \in Near(to_bytes(w)) : \A x \in from_bytes(bytes) : to_bytes(x) = bytes
=============================================================================
