---------------------------- MODULE InOrderQueue ----------------------------
(***************************************************************************)
(* What a consumer group promises of one partition: records are appended   *)
(* with consecutive offsets, and they are finished (handled, skipped or    *)
(* dead-lettered) one at a time in offset order, none passed over.  A      *)
(* second delivery of a finished record changes nothing here.              *)
(***************************************************************************)
EXTENDS Integers

VARIABLES appended,   \* number of records in the partition
          finished    \* offsets that have been finished at least once

Init == appended = 0 /\ finished = {}

Append == appended' = appended + 1 /\ UNCHANGED finished

Finish == \E o \in 0..(appended - 1) :
            /\ o \notin finished
            /\ 0..(o - 1) \subseteq finished
            /\ finished' = finished \union {o}
            /\ UNCHANGED appended

Next == Append \/ Finish

Spec == Init /\ [][Next]_<<appended, finished>>
=============================================================================
