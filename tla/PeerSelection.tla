--------------------------- MODULE PeerSelection ---------------------------
(***************************************************************************)
(* select_mesh_peers (mesh.rs): which connected peers receive an           *)
(* inventory.  Peers are ranked by one quality score, unknown peers keep a *)
(* reserve of the fanout, and the identity breaks ties.                    *)
(*                                                                         *)
(* A peer is a record [id, known, score]: `known` is quality_score         *)
(* being Some, and an unknown peer carries score 0 (effective_score), so   *)
(* ids are ordered naturals and the code's Option never mixes types.       *)
(***************************************************************************)
EXTENDS Integers, Sequences, FiniteSets, SequencesExt

\* The id that stands for `excluded_peer = None`; no peer has it.
NoPeer == 0

MeshPeer(id, known, score) ==
    [id |-> id, known |-> known, score |-> IF known THEN score ELSE 0]

\* The entry that survives deduplication: the first scored occurrence of the
\* id, and an unknown entry only when no occurrence is scored.
Deduplicated(peers, excluded) ==
    LET Entries(id) == SelectSeq(peers, LAMBDA p : p.id = id)
        Scored(id)  == SelectSeq(Entries(id), LAMBDA p : p.known)
        ids         == {p.id : p \in ToSet(peers)} \ {excluded}
    IN  {IF Scored(id) # <<>> THEN Head(Scored(id)) ELSE Head(Entries(id)) : id \in ids}

\* The comparator of candidates.sort_by: higher score, then known before
\* unknown, then the smaller id.
RanksBefore(left, right) ==
    \/ left.score > right.score
    \/ /\ left.score = right.score
       /\ \/ left.known /\ ~right.known
          \/ left.known = right.known /\ left.id < right.id

Unknowns(seq) == SelectSeq(seq, LAMBDA p : ~p.known)

\* Mutant: the best known peer makes room for the reserve.
ReplaceFirstKnown(selected, replacement) ==
    LET known == {i \in DOMAIN selected : selected[i].known}
    IN  [selected EXCEPT ![CHOOSE i \in known : \A j \in known : i <= j] = replacement]

\* selected.iter().rposition(|peer| !peer.is_unknown()), then the assignment.
ReplaceLastKnown(selected, replacement) ==
    LET known == {i \in DOMAIN selected : selected[i].known}
    IN  [selected EXCEPT ![CHOOSE i \in known : \A j \in known : j <= i] = replacement]

Smaller(a, b) == IF a < b THEN a ELSE b

SelectMeshPeers(peers, excluded, fanout, reserve) ==
    LET candidates == SetToSortSeq(Deduplicated(peers, excluded), RanksBefore)
        top        == SubSeq(candidates, 1, fanout)
        rest       == SubSeq(candidates, fanout + 1, Len(candidates))
        required   == Smaller(Smaller(reserve, fanout), Len(Unknowns(candidates)))
        missing    == required - Len(Unknowns(top))
    IN  IF fanout >= Len(candidates)
        THEN candidates
        ELSE FoldLeft(ReplaceLastKnown, top, SubSeq(Unknowns(rest), 1, missing))
=============================================================================
