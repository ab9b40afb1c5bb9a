---------------------------- MODULE MCReadViews -----------------------------
(* The goods registry in two parts, calls of any kind one after the other and *)
(* calls on one batch that overlap; in the latter one view of a batch is read *)
(* while they commit.                                                         *)
EXTENDS MCGoodsRegistry, ReadViews

VARIABLE part   \* "serial" or "overlap"

MCViewed == {p, k1}

MCAllRequests == MCSerialRequests \cup MCOverlapping

\* What the calls of a part ask for, how many of them may be open, and how many
\* begin.
Asks     == [serial |-> MCSerialRequests, overlap |-> MCOverlapping]
AtOnce   == [serial |-> 1, overlap |-> 2]
MaxBegun == [serial |-> 4, overlap |-> 3]

InPart ==
  LET open == {c \in Calls : calls'[c].status = "open"}
  IN  /\ Cardinality(open) <= AtOnce[part] /\ begun' <= MaxBegun[part]
      /\ \A c \in open : calls'[c].req \in Asks[part]

MCSpec ==
  /\ Init /\ view = Closed /\ part \in {"serial", "overlap"}
  /\ [][/\ (Next /\ InPart /\ UNCHANGED view) \/ (part = "overlap" /\ View)
        /\ UNCHANGED part]_<<viewVars, part>>
-----------------------------------------------------------------------------
(* What holds however calls overlap, and what more of calls that do not.    *)

\* Splits and merges lose nothing: whatever overlaps, is listed again, or is
\* named twice, the leaves of the lineage hold what the roots were created
\* with; and exactly that, if calls do not overlap and do nothing of the kind.
QuantityIsKept == NothingIsLost /\ (part = "serial" => QuantityConserved)

\* Every transfer starts from the first owner or from the receiver of an
\* earlier one, whatever overlaps; and from the last one, if nothing does.
HistoryIsKept == HistoryIsGrounded /\ (part = "serial" => HistoryIsContinuous)

\* The state of a goods row is one that the log led to, whichever of two calls
\* saves it last; and the last of them, if no two overlap.
StateIsKept == StatesAreOnRecord /\ (part = "serial" => StateMatchesLog)
=============================================================================
