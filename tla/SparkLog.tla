------------------------------ MODULE SparkLog ------------------------------
(***************************************************************************)
(* The Merkle tree of a spark log (protocol/src/log.rs, after RFC 9162):   *)
(* its root, the audit path of a leaf, the proof that a later tree extends *)
(* an earlier one, and the loops that verify the two; and the tree of the  *)
(* state (core/src/merkle.rs), which has the same shape.                   *)
(*                                                                         *)
(* A hash is symbolic: it is what was hashed, so two hashes are equal      *)
(* exactly if they cover the same.  A tree is over a sequence d of leaves, *)
(* and sub is the root over d[lo + 1] .. d[hi].                            *)
(***************************************************************************)
EXTENDS Integers, Sequences, SequencesExt

leaf_hash(leaf) == [leaf |-> leaf]
node(left, right) == [left |-> left, right |-> right]
EmptyRoot == [empty |-> TRUE]

\* The highest bit that is set in a number.
HighBit(n) == LET high[i \in 1..n] == IF i = 1 THEN 1 ELSE 2 * high[i \div 2] IN high[n]
IsPowerOfTwo(n) == HighBit(n) = n

\* The largest power of two smaller than n.
split(n) == HighBit(n - 1)

\* The same as core/src/merkle.rs finds it, by doubling while twice is smaller.
StateSplit(n) ==
    LET k[i \in 1..n] == IF i * 2 < n THEN k[i * 2] ELSE i IN k[1]

Spans(d) == (0..Len(d)) \X (0..Len(d))

Subtree(d) ==
    LET sub[s \in Spans(d)] ==
            LET lo == s[1]
                hi == s[2]
            IN IF hi <= lo + 1 THEN d[hi]
               ELSE LET mid == lo + split(hi - lo)
                    IN node(sub[<<lo, mid>>], sub[<<mid, hi>>])
    IN sub

root(d) == IF d = <<>> THEN EmptyRoot ELSE Subtree(d)[<<0, Len(d)>>]

\* The audit path of leaf m, counted from 0: the siblings from the leaf up.
inclusion_proof(d, m) ==
    LET sub == Subtree(d)
        path[s \in Spans(d)] ==
            LET lo == s[1]
                hi == s[2]
                mid == lo + split(hi - lo)
            IN IF hi <= lo + 1 THEN <<>>
               ELSE IF m < mid THEN Append(path[<<lo, mid>>], sub[<<mid, hi>>])
               ELSE Append(path[<<mid, hi>>], sub[<<lo, mid>>])
    IN path[<<0, Len(d)>>]

\* Both positions lose their lowest bit; before, in a right-hand node, all the
\* levels at which the first one is a left child without a sibling.
Halve(f, s) == [f |-> f \div 2, s |-> s \div 2]
SkipLevels(f, s) ==
    LET skip[p \in (0..f) \X (0..s)] ==
            IF p[1] % 2 = 0 /\ p[1] # 0 THEN skip[<<p[1] \div 2, p[2] \div 2>>] ELSE p
        last == skip[<<f, s>>]
    IN Halve(last[1], last[2])

IsRightmost(f, s) == f % 2 = 1 \/ f = s

\* One element of an audit path.
Climb(st, p) ==
    IF st.s = 0 THEN [st EXCEPT !.ok = FALSE]
    ELSE LET right == IsRightmost(st.f, st.s)
             up == IF right THEN SkipLevels(st.f, st.s) ELSE Halve(st.f, st.s)
         IN [f |-> up.f, s |-> up.s, ok |-> st.ok,
             r |-> IF right THEN node(p, st.r) ELSE node(st.r, p)]

\* All of them, from the leaf up.
ClimbAll(start, path) ==
    LET st[i \in 0..Len(path)] == IF i = 0 THEN start ELSE Climb(st[i - 1], path[i])
    IN st[Len(path)]

ReachesTheTop(st) == st.s = 0

verify_inclusion(leaf, index, size, path, r) ==
    /\ index < size
    /\ LET end == ClimbAll([f |-> index, s |-> size - 1, r |-> leaf, ok |-> TRUE], path)
       IN end.ok /\ ReachesTheTop(end) /\ end.r = r

\* The proof that the tree over the first m leaves is a prefix of the tree of d;
\* a complete subtree from the first leaf on is known to the verifier.
consistency_proof(d, m) ==
    LET sub == Subtree(d)
        proof[s \in (0..(m - 1)) \X (0..Len(d))] ==
            LET lo == s[1]
                hi == s[2]
                mid == lo + split(hi - lo)
            IN IF hi <= m THEN IF lo = 0 THEN <<>> ELSE <<sub[s]>>
               ELSE IF m <= mid THEN Append(proof[<<lo, mid>>], sub[<<mid, hi>>])
               ELSE Append(proof[<<mid, hi>>], sub[<<lo, mid>>])
    IN proof[<<0, Len(d)>>]

\* One element of a consistency proof, for the old root fr and the new one sr.
ClimbBoth(st, c) ==
    IF st.s = 0 THEN [st EXCEPT !.ok = FALSE]
    ELSE LET right == IsRightmost(st.f, st.s)
             up == IF right THEN SkipLevels(st.f, st.s) ELSE Halve(st.f, st.s)
         IN [f |-> up.f, s |-> up.s, ok |-> st.ok,
             fr |-> IF right THEN node(c, st.fr) ELSE st.fr,
             sr |-> IF right THEN node(c, st.sr) ELSE node(st.sr, c)]

ClimbBothAll(start, path) ==
    LET st[i \in 0..Len(path)] == IF i = 0 THEN start ELSE ClimbBoth(st[i - 1], path[i])
    IN st[Len(path)]

\* The level of the old tree's last complete subtree.
FirstLevel(f, s) ==
    LET up[p \in (0..f) \X (0..s)] ==
            IF p[1] % 2 = 1 THEN up[<<p[1] \div 2, p[2] \div 2>>] ELSE p
    IN up[<<f, s>>]

TrustsTheOldRoot(end, first_root) == TRUE
GivesTheOldRoot(end, first_root) == end.fr = first_root

verify_consistency(first, second, first_root, second_root, proof) ==
    /\ 0 < first /\ first <= second
    /\ IF first = second THEN proof = <<>> /\ first_root = second_root
       ELSE LET path == IF IsPowerOfTwo(first) THEN <<first_root>> \o proof ELSE proof
                at == FirstLevel(first - 1, second - 1)
            IN /\ path # <<>>
               /\ LET end == ClimbBothAll([f |-> at[1], s |-> at[2], ok |-> TRUE,
                                            fr |-> Head(path), sr |-> Head(path)], Tail(path))
                  IN /\ end.ok
                     /\ GivesTheOldRoot(end, first_root)
                     /\ end.sr = second_root
                     /\ end.s = 0

-----------------------------------------------------------------------------
(* What the proofs promise, for all trees up to a size. *)

\* Trees of n leaves: the leaves 1..n, or one of them replaced.
Genuine(n) == [i \in 1..n |-> leaf_hash(i)]
Tampered(n) == {[Genuine(n) EXCEPT ![i] = leaf_hash(0)] : i \in 1..n}
Trees(n) == {Genuine(n)} \cup Tampered(n)

\* An audit path verifies for the leaf, the place, the size and the root it was
\* made for, and for no other leaf, place or tree.
AuditPathsAreExact(bound) ==
    \A n \in 1..bound : \A m \in 0..(n - 1) :
        LET d == Genuine(n)
            path == inclusion_proof(d, m)
        IN \A size \in 1..bound : \A place \in 0..(size - 1), leaf \in 0..n : \A t \in Trees(size) :
              verify_inclusion(leaf_hash(leaf), place, size, path, root(t)) =>
                 place = m /\ t[place + 1] = leaf_hash(leaf) /\ path = inclusion_proof(t, place)

GenuinePathsVerify(bound) ==
    \A n \in 1..bound : \A m \in 0..(n - 1) :
        LET d == Genuine(n)
        IN verify_inclusion(d[m + 1], m, n, inclusion_proof(d, m), root(d))

\* A consistency proof of a tree verifies against the root of an earlier tree
\* exactly if that is a prefix of it.
ConsistencyIsPrefix(bound) ==
    \A n \in 1..bound : \A m \in 1..n : \A old \in Trees(m) : \A new \in Trees(n) :
        verify_consistency(m, n, root(old), root(new), consistency_proof(new, m))
            <=> IsPrefix(old, new)

\* The two crates split a tree at the same leaf.
OneShape(bound) == \A n \in 2..bound : split(n) = StateSplit(n)
=============================================================================
