------------------------------- MODULE RecentInts -------------------------------
(***************************************************************************)
(* What a bounded set of ints promises (the comments of                    *)
(* ListBoundedIntSet.java): the last Capacity values used, in the order of *)
(* their use.                                                              *)
(***************************************************************************)
EXTENDS Integers, Sequences

CONSTANTS Values, Capacity

VARIABLES
  recent,   \* the values of the set, the one used last first
  answer    \* of the last operation: [op, value, got]

AllDistinct(s) == \A j, k \in DOMAIN s : s[j] = s[k] => j = k

RecentInit ==
  /\ recent \in UNION {[1 .. n -> Values] : n \in 0 .. Capacity}
  /\ AllDistinct(recent)
  /\ answer = [op |-> "new", value |-> 0, got |-> 0]

Has(v)     == \E k \in DOMAIN recent : recent[k] = v
PlaceOf(v) == CHOOSE k \in DOMAIN recent : recent[k] = v

\* The others, in their order.
Without(v) ==
  IF Has(v)
  THEN [k \in 1 .. Len(recent) - 1 |->
          IF k < PlaceOf(v) THEN recent[k] ELSE recent[k + 1]]
  ELSE recent

Tell(op, v, got) == answer' = [op |-> op, value |-> v, got |-> got]

Contains(v) ==
  /\ recent' = IF Has(v) THEN <<v>> \o Without(v) ELSE recent
  /\ Tell("contains", v, Has(v))

Remove(v) ==
  /\ recent' = Without(v)
  /\ Tell("remove", v, Has(v))

Add(v) ==
  \/ /\ Has(v)
     /\ recent' = <<v>> \o Without(v)
     /\ Tell("add", v, 0)
  \/ /\ ~ Has(v) /\ Len(recent) < Capacity
     /\ recent' = <<v>> \o recent
     /\ Tell("add", v, 1)
  \/ /\ ~ Has(v) /\ Len(recent) = Capacity
     /\ recent' = <<v>> \o SubSeq(recent, 1, Capacity - 1)
     /\ Tell("add", v, 2)

Look ==
  /\ UNCHANGED recent
  /\ Tell("size", 0, Len(recent)) \/ Tell("capacity", 0, Capacity)

RecentNext == Look \/ \E v \in Values : Contains(v) \/ Remove(v) \/ Add(v)

RecentSpec == RecentInit /\ [][RecentNext]_<<recent, answer>>
================================================================================
