---------------------------- MODULE MCForestTask ----------------------------
(* Small instances of ForestTask.  Outputs fall at times 2 and 4. *)
EXTENDS ForestTask

MCOutputTime == <<2, 4>>
MCCreators == {"igm", "radiation"}
NoEvents == [c \in MCCreators |-> <<>>]
NoTransfers == {}
OneThread == {1}
TwoThreads == {1, 2}

\* Two creators attach events before, at and between the outputs.
ThreeEvents == [c \in MCCreators |-> IF c = "igm" THEN <<1, 3>> ELSE <<2>>]
OneEvent == [c \in MCCreators |-> IF c = "igm" THEN <<1>> ELSE <<>>]
\* Both creators on the same grid of times.
SameEvents == [c \in MCCreators |-> <<1, 3>>]
\* An event later than the arrival of a node in another forest.
LateEvent == [c \in MCCreators |-> IF c = "igm" THEN <<3>> ELSE <<>>]

\* Forest 2 ends before the last output, and forest 3 begins late.
StaggeredStart == <<0, 1, 3>>
StaggeredEnd == <<5, 3, 4>>
PairStart == <<0, 0>>
PairEnd == <<5, 5>>
\* Forest 2 ends before the first output.
EarlyEnd == <<5, 1>>
TrioStart == <<0, 0, 1>>
TrioEnd == <<4, 5, 4>>
\* A node leaves forest 1 for forest 2 and one comes back, later one goes on to
\* forest 3: no cycle at one time.
Chain == {[from |-> 1, to |-> 2, time |-> 1],
          [from |-> 2, to |-> 1, time |-> 3],
          [from |-> 2, to |-> 3, time |-> 3]}
\* Forest 1 waits for a node of forest 2, and forest 3 for one of forest 1; then
\* forest 2 waits for a node of a forest that is not in the run.
LostStart == <<0, 0, 3>>
LostEnd == <<5, 5, 5>>
LostPartner == {[from |-> 2, to |-> 1, time |-> 1],
                [from |-> 1, to |-> 3, time |-> 3],
                [from |-> 9, to |-> 2, time |-> 3]}
\* Forest 1 has ended, and forest 2 not begun, when the second event falls.
LateStart == <<0, 4>>
LateEnd == <<1, 5>>
EventsBetween == [c \in MCCreators |-> IF c = "igm" THEN <<1, 2, 3>> ELSE <<>>]
\* The forest taken first waits for a node of the second.
BackTransfer == {[from |-> 2, to |-> 1, time |-> 1]}
==============================================================================
