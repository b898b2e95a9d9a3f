------------------------------ MODULE AddrHash ------------------------------
(***************************************************************************)
(* The choice of the node that owns a cluster actor, addr_hash.go. A node  *)
(* is [addr, score, hosts]: its address, its score for the actor's name and*)
(* whether it hosts the actor's kind. Scores are given (the hash is not    *)
(* modelled), and may be zero or equal.                                    *)
(***************************************************************************)
EXTENDS Naturals, Sequences, SequencesExt

CONSTANT NoAddr  \* "", less than every address

\* Mutant: of two equal scores the later one wins.
BetterByOrder(n, best) == n.score >= best.score

Better(n, best) ==
  \/ n.score > best.score
  \/ n.score = best.score /\ (best.addr = NoAddr \/ n.addr < best.addr)

\* CalcAddrByKind8Name: maxScore and maxAddr after each node of one pass over the list.
Scan(list) ==
  LET best[i \in 0 .. Len(list)] ==
        IF i = 0 THEN [score |-> 0, addr |-> NoAddr]
        ELSE LET n == list[i] IN
             IF n.hosts /\ n.addr # NoAddr /\ Better(n, best[i - 1]) THEN n ELSE best[i - 1]
  IN best

\* Mutant: scores are taken modulo the number of nodes.
CalcAddrModulo(list) ==
  Scan([i \in DOMAIN list |-> [list[i] EXCEPT !.score = @ % Len(list)]])[Len(list)].addr

CalcAddr(list) == Scan(list)[Len(list)].addr

\* A snapshot lists the nodes in the random order of a map.
Owners(S) == {CalcAddr(list) : list \in SetToSeqs(S)}
=============================================================================
