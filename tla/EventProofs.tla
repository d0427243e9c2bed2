---------------------------- MODULE EventProofs ----------------------------
(***************************************************************************)
(* Theorems about module Event, for every INFRA_EVT_MAX and every set of   *)
(* priorities.  How the interface is used decides what holds, so each      *)
(* theorem names the kinds of use it excludes.                             *)
(***************************************************************************)
EXTENDS Event, TLAPS, WellFoundedInduction, SequenceTheorems

\* No client touches an event that is not created, and one slot stays free.
InBounds ==
  Usage \cap {"delete_uncreated", "raise_uncreated", "create_all"} = {}

\* The strengthening that makes TypeOK inductive.
StructInv ==
  /\ TypeOK
  /\ ~overrun
  /\ created_cnt < INFRA_EVT_MAX
  /\ Posted \subseteq Created
  /\ pc = "callback" => pending_cnt > 0 /\ executing /\ running \in Created
  /\ pc # "callback" => running = NoEvt
  /\ clr.at # "none" => pc \in {"stopped", "idle", "callback"} /\ "clear_isr" \in Usage
  /\ clr.at \in {"test", "shift"} => clr.h >= 1
  /\ clr.at = "shift" => clr.h <= Len(raised_ISR)
  /\ clr.at = "decrement" => Len(raised_ISR) > 0

\* No processing function raises an event more urgent than its own.
PolitelyRaised == InBounds /\ "raise_above" \notin Usage

\* Events in the slots that will run after the processing function on the stack.
NextUp == Runnable \ {running}

\* What makes LostOnlyAtRisk inductive.  infra_evt_clear_ISR_pendingevent takes
\* away the entry it was asked for, or one that an interrupt made meanwhile;
\* at its end it drops a copy of the last entry but one, or such a late entry.
OwedInv ==
  /\ owed \subseteq Waiting \cup risked
  /\ clr.at \in {"test", "shift"} =>
       /\ clr.h <= Len(raised_ISR) + 1
       /\ clr.h <= Len(raised_ISR)
            => raised_ISR[clr.h] \in {clr.evt} \cup risked \cup NextUp
  /\ clr.at = "decrement" /\ Last(raised_ISR) \in owed
       => Last(raised_ISR) \in risked \cup NextUp
                               \cup {raised_ISR[i] : i \in 1 .. (Len(raised_ISR) - 1)}

-----------------------------------------------------------------------------
(* Lemmas about the operators on slots.                                    *)

\* A non-empty set of naturals has a least element, which LeastOf returns.
LEMMA LeastOfIsLeast ==
  ASSUME NEW S \in SUBSET Nat, S # {}
  PROVE  LeastOf(S) \in S /\ \A y \in S : LeastOf(S) <= y
<1>1. PICK x \in S : \A y \in S : ~(<<y, x>> \in OpToRel(<, Nat))
  BY NatLessThanWellFounded, WFMin
<1>2. \A y \in S : ~(y < x)
  <2>. SUFFICES ASSUME NEW y \in S, y < x
                PROVE  <<y, x>> \in OpToRel(<, Nat)
    BY <1>1
  <2>. QED
    BY Zenon DEF OpToRel
<1>3. \A y \in S : x <= y
  BY <1>2
<1>. QED
  BY <1>3 DEF LeastOf

\* infra_evt_raise inserts behind the last slot that is not less urgent.
LEMMA InsertSlotIs ==
  ASSUME TypeOK, NEW e \in Evt
  PROVE  LET k == InsertSlot(e)
         IN  /\ k \in 0 .. pending_cnt
             /\ \A j \in k .. (pending_cnt - 1) : prio[subs_events[j]] > prio[e]
             /\ k # 0 => ~(prio[subs_events[k - 1]] > prio[e])
<1>. DEFINE S == {k \in 0 .. pending_cnt :
                    \A j \in k .. (pending_cnt - 1) : prio[subs_events[j]] > prio[e]}
            k == LeastOf(S)
<1>1. pending_cnt \in S
  BY DEF TypeOK
<1>2. S \in SUBSET Nat /\ S # {}
  <2>1. S \subseteq 0 .. pending_cnt
    OBVIOUS
  <2>. HIDE DEF S
  <2>. QED
    BY <1>1, <2>1 DEF TypeOK
<1>3. k \in S /\ \A y \in S : k <= y
  BY <1>2, LeastOfIsLeast
<1>4. k # 0 => ~(prio[subs_events[k - 1]] > prio[e])
  <2>. SUFFICES ASSUME k # 0, prio[subs_events[k - 1]] > prio[e]
                PROVE  FALSE
    OBVIOUS
  <2>1. k - 1 \in 0 .. pending_cnt
    BY <1>3 DEF TypeOK
  <2>2. \A j \in (k - 1) .. (pending_cnt - 1) : j = k - 1 \/ j \in k .. (pending_cnt - 1)
    BY <1>3 DEF TypeOK
  <2>3. \A j \in (k - 1) .. (pending_cnt - 1) : prio[subs_events[j]] > prio[e]
    BY <2>2, <1>3
  <2>4. k - 1 \in S
    BY <2>1, <2>3
  <2>. QED
    BY <2>4, <1>3, <2>1
<1>. QED
  BY <1>3, <1>4 DEF InsertSlot

\* subs_proc_rtn_none moves the running event behind its priority group.
LEMMA GroupEndIs ==
  ASSUME TypeOK, pending_cnt > 0
  PROVE  /\ GroupEnd \in 1 .. pending_cnt
         /\ \A h \in 1 .. (GroupEnd - 1) :
              prio[subs_events[h]] = prio[subs_events[0]]
<1>. DEFINE S == {h \in 1 .. pending_cnt :
                    h = pending_cnt \/ prio[subs_events[h]] # prio[subs_events[0]]}
<1>1. S \in SUBSET Nat /\ S # {}
  <2>1. pending_cnt \in S
    BY DEF TypeOK
  <2>. QED
    BY <2>1
<1>2. LeastOf(S) \in S /\ \A y \in S : LeastOf(S) <= y
  BY <1>1, LeastOfIsLeast
<1>3. \A h \in 1 .. (LeastOf(S) - 1) : h \notin S /\ h \in 1 .. pending_cnt /\ h # pending_cnt
  BY <1>2 DEF TypeOK
<1>. QED
  BY <1>2, <1>3 DEF GroupEnd

\* A permutation of the events over the slots.
Perm(a) ==
  /\ a \in [Idx -> Evt]
  /\ \A i, j \in Idx : a[i] = a[j] => i = j

\* MoveUp permutes, and keeps the set of the first n events if j < n.
LEMMA MoveUpPermutes ==
  ASSUME NEW a, Perm(a), NEW i \in Idx, NEW j \in Idx, i <= j
  PROVE  /\ Perm(MoveUp(a, i, j))
         /\ MoveUp(a, i, j)[j] = a[i]
         /\ \A k \in Idx : (k < i \/ k > j) => MoveUp(a, i, j)[k] = a[k]
         /\ \A k \in Idx : i <= k /\ k < j => MoveUp(a, i, j)[k] = a[k + 1]
<1>. DEFINE b == MoveUp(a, i, j)
<1>1. MaxAssumption /\ DOMAIN a = Idx
  BY MaxAssumption DEF Perm, MaxAssumption
<1>2. \A k \in Idx : b[k] = IF k < i \/ k > j THEN a[k]
                            ELSE IF k = j THEN a[i] ELSE a[k + 1]
  BY <1>1 DEF MoveUp
<1>3. \A k \in Idx : i <= k /\ k < j => k + 1 \in Idx
  BY MaxAssumption DEF Idx, MaxAssumption
<1>4. b \in [Idx -> Evt]
  BY <1>1, <1>3 DEF MoveUp, Perm, Idx
<1>5. \A k, l \in Idx : b[k] = b[l] => k = l
  <2>. SUFFICES ASSUME NEW k \in Idx, NEW l \in Idx, b[k] = b[l]
                PROVE  k = l
    OBVIOUS
  <2>. DEFINE from(x) == IF x < i \/ x > j THEN x
                         ELSE IF x = j THEN i ELSE x + 1
  <2>1. \A x \in Idx : from(x) \in Idx /\ b[x] = a[from(x)]
    BY <1>2, <1>3 DEF Idx
  <2>2. from(k) = from(l)
    BY <2>1 DEF Perm
  <2>. QED
    BY <2>2 DEF Idx
<1>. QED
  BY <1>2, <1>4, <1>5 DEF Perm, Idx

\* MoveDown permutes.
LEMMA MoveDownPermutes ==
  ASSUME NEW a, Perm(a), NEW i \in Idx, NEW j \in Idx, j <= i
  PROVE  /\ Perm(MoveDown(a, i, j))
         /\ MoveDown(a, i, j)[j] = a[i]
         /\ \A k \in Idx : (k < j \/ k > i) => MoveDown(a, i, j)[k] = a[k]
         /\ \A k \in Idx : j < k /\ k <= i => MoveDown(a, i, j)[k] = a[k - 1]
<1>. DEFINE b == MoveDown(a, i, j)
<1>1. DOMAIN a = Idx
  BY DEF Perm
<1>2. \A k \in Idx : b[k] = IF k < j \/ k > i THEN a[k]
                            ELSE IF k = j THEN a[i] ELSE a[k - 1]
  BY <1>1 DEF MoveDown
<1>3. \A k \in Idx : j < k /\ k <= i => k - 1 \in Idx
  BY MaxAssumption DEF Idx, MaxAssumption
<1>4. b \in [Idx -> Evt]
  BY <1>1, <1>3 DEF MoveDown, Perm, Idx
<1>5. \A k, l \in Idx : b[k] = b[l] => k = l
  <2>. SUFFICES ASSUME NEW k \in Idx, NEW l \in Idx, b[k] = b[l]
                PROVE  k = l
    OBVIOUS
  <2>. DEFINE from(x) == IF x < j \/ x > i THEN x
                         ELSE IF x = j THEN i ELSE x - 1
  <2>1. \A x \in Idx : from(x) \in Idx /\ b[x] = a[from(x)]
    BY <1>2, <1>3 DEF Idx
  <2>2. from(k) = from(l)
    BY <2>1 DEF Perm
  <2>. QED
    BY <2>2 DEF Idx
<1>. QED
  BY <1>2, <1>4, <1>5 DEF Perm, Idx

LEMMA SwapPermutes ==
  ASSUME NEW a, Perm(a), NEW i \in Idx, NEW j \in Idx
  PROVE  /\ Perm(Swap(a, i, j))
         /\ \A k \in Idx : Swap(a, i, j)[k] = IF k = j THEN a[i]
                                              ELSE IF k = i THEN a[j] ELSE a[k]
BY DEF Swap, Perm

-----------------------------------------------------------------------------
(* Lemmas about the operations on slots.                                   *)

\* The events in the first n slots.
Firsts(a, n) == {a[i] : i \in {j \in Idx : j < n}}

LEMMA FirstsIs ==
  ASSUME NEW a, NEW n, NEW e
  PROVE  e \in Firsts(a, n) <=> \E i \in Idx : i < n /\ a[i] = e
BY DEF Firsts

\* Two fillings of the slots with the same events among the first n.
LEMMA SameFirsts ==
  ASSUME NEW a, NEW b, NEW n,
         \A k \in Idx : k < n => \E i \in Idx : i < n /\ a[i] = b[k],
         \A i \in Idx : i < n => \E k \in Idx : k < n /\ b[k] = a[i]
  PROVE  Firsts(b, n) = Firsts(a, n)
<1>1. ASSUME NEW x \in Firsts(b, n)  PROVE x \in Firsts(a, n)
  <2>1. PICK k \in Idx : k < n /\ b[k] = x
    BY FirstsIs
  <2>2. PICK i \in Idx : i < n /\ a[i] = x
    BY <2>1
  <2>. QED
    BY <2>2, FirstsIs
<1>2. ASSUME NEW x \in Firsts(a, n)  PROVE x \in Firsts(b, n)
  <2>1. PICK i \in Idx : i < n /\ a[i] = x
    BY FirstsIs
  <2>2. PICK k \in Idx : k < n /\ b[k] = x
    BY <2>1
  <2>. QED
    BY <2>2, FirstsIs
<1>. QED
  BY <1>1, <1>2

LEMMA SlotSets == Runnable = Firsts(subs_events, pending_cnt)
               /\ Created = Firsts(subs_events, created_cnt)
BY DEF Runnable, Created, Firsts

\* subs_clear_pending takes exactly the event in slot idx from the runnable ones.
LEMMA ClearSlots ==
  ASSUME TypeOK, NEW idx \in Idx, idx < pending_cnt, subs_clear_pending(idx)
  PROVE  /\ Perm(subs_events')
         /\ pending_cnt' \in 0 .. created_cnt' /\ created_cnt' = created_cnt
         /\ pending_cnt' = pending_cnt - 1
         /\ Runnable' = Runnable \ {subs_events[idx]}
         /\ Created' = Created
         /\ \A k \in Idx : k < idx => subs_events'[k] = subs_events[k]
         /\ \A k \in Idx : idx <= k /\ k < pending_cnt'
                             => k + 1 \in Idx /\ subs_events'[k] = subs_events[k + 1]
<1>. DEFINE a == subs_events
            j == pending_cnt - 1
            b == MoveUp(a, idx, j)
<1>1. /\ Perm(a) /\ pending_cnt \in Int /\ created_cnt \in Int
      /\ pending_cnt <= created_cnt /\ created_cnt <= INFRA_EVT_MAX
      /\ INFRA_EVT_MAX \in Int
  BY MaxAssumption DEF TypeOK, Perm, MaxAssumption
<1>2. j \in Idx /\ idx <= j
  BY <1>1 DEF Idx
<1>3. /\ Perm(b)
      /\ b[j] = a[idx]
      /\ \A k \in Idx : (k < idx \/ k > j) => b[k] = a[k]
      /\ \A k \in Idx : idx <= k /\ k < j => b[k] = a[k + 1]
  BY <1>1, <1>2, MoveUpPermutes
<1>4. b = subs_events' /\ pending_cnt' = j /\ created_cnt' = created_cnt
  BY DEF subs_clear_pending
<1>. HIDE DEF b
<1>5. \A k \in Idx : idx <= k /\ k < j => k + 1 \in Idx
  BY <1>1, <1>2 DEF Idx
<1>6. \A k \in Idx : k > idx => k - 1 \in Idx
  BY <1>1 DEF Idx
<1>7. Firsts(b, j) = Firsts(a, pending_cnt) \ {a[idx]}
  <2>1. ASSUME NEW k \in Idx, k < j
        PROVE  \E i \in Idx : i < pending_cnt /\ i # idx /\ a[i] = b[k]
    <3>1. CASE k < idx
      BY <3>1, <2>1, <1>1, <1>3 DEF Idx
    <3>2. CASE k >= idx
      BY <3>2, <2>1, <1>1, <1>3, <1>5 DEF Idx
    <3>. QED
      BY <3>1, <3>2 DEF Idx
  <2>2. ASSUME NEW i \in Idx, i < pending_cnt, i # idx
        PROVE  \E k \in Idx : k < j /\ b[k] = a[i]
    <3>1. CASE i < idx
      BY <3>1, <2>2, <1>2, <1>1, <1>3 DEF Idx
    <3>2. CASE i > idx
      <4>1. i - 1 \in Idx /\ i - 1 < j /\ idx <= i - 1 /\ (i - 1) + 1 = i
        BY <3>2, <2>2, <1>1, <1>6 DEF Idx
      <4>. QED
        BY <4>1, <1>3
    <3>. QED
      BY <3>1, <3>2, <2>2 DEF Idx
  <2>3. \A i \in Idx : a[i] = a[idx] => i = idx
    BY <1>1 DEF Perm
  <2>4. ASSUME NEW x
        PROVE  x \in Firsts(b, j) <=> x \in Firsts(a, pending_cnt) /\ x # a[idx]
    <3>1. x \in Firsts(b, j) => \E k \in Idx : k < j /\ b[k] = x
      BY FirstsIs
    <3>2. (\E k \in Idx : k < j /\ b[k] = x) => x \in Firsts(b, j)
      BY FirstsIs
    <3>3. x \in Firsts(a, pending_cnt) <=> \E i \in Idx : i < pending_cnt /\ a[i] = x
      BY FirstsIs
    <3>. QED
      BY <3>1, <3>2, <3>3, <2>1, <2>2, <2>3
  <2>. QED
    BY <2>4
<1>8. Firsts(b, created_cnt) = Firsts(a, created_cnt)
  <2>1. ASSUME NEW k \in Idx, k < created_cnt
        PROVE  \E i \in Idx : i < created_cnt /\ a[i] = b[k]
    <3>1. CASE k < idx \/ k > j
      BY <3>1, <2>1, <1>3
    <3>2. CASE idx <= k /\ k < j
      BY <3>2, <2>1, <1>1, <1>3, <1>5 DEF Idx
    <3>3. CASE k = j
      BY <3>3, <2>1, <1>1, <1>3 DEF Idx
    <3>. QED
      BY <3>1, <3>2, <3>3, <1>2 DEF Idx
  <2>2. ASSUME NEW i \in Idx, i < created_cnt
        PROVE  \E k \in Idx : k < created_cnt /\ b[k] = a[i]
    <3>1. CASE i < idx \/ i > j
      BY <3>1, <2>2, <1>3
    <3>2. CASE i = idx
      BY <3>2, <1>1, <1>2, <1>3 DEF Idx
    <3>3. CASE idx < i /\ i <= j
      <4>1. i - 1 \in Idx /\ i - 1 < created_cnt /\ i - 1 < j /\ idx <= i - 1 /\ (i - 1) + 1 = i
        BY <3>3, <2>2, <1>1, <1>6 DEF Idx
      <4>. QED
        BY <4>1, <1>3
    <3>. QED
      BY <3>1, <3>2, <3>3, <1>2 DEF Idx
  <2>. QED
    BY <2>1, <2>2, SameFirsts
<1>9. Runnable' = Firsts(b, j) /\ Created' = Firsts(b, created_cnt)
  BY <1>4 DEF Runnable, Created, Firsts
<1>. QED
  BY <1>1, <1>2, <1>3, <1>4, <1>5, <1>7, <1>8, <1>9, SlotSets DEF Idx

\* MoveUp within the first n slots keeps the set of their events.
LEMMA MoveUpKeepsFirsts ==
  ASSUME NEW a, Perm(a), NEW i \in Idx, NEW j \in Idx, i <= j, NEW n \in Int, j < n
  PROVE  Firsts(MoveUp(a, i, j), n) = Firsts(a, n)
<1>. DEFINE b == MoveUp(a, i, j)
<1>1. /\ b[j] = a[i]
      /\ \A k \in Idx : (k < i \/ k > j) => b[k] = a[k]
      /\ \A k \in Idx : i <= k /\ k < j => b[k] = a[k + 1]
  BY MoveUpPermutes
<1>. HIDE DEF b
<1>2. ASSUME NEW k \in Idx, k < n
      PROVE  \E x \in Idx : x < n /\ a[x] = b[k]
  <2>1. CASE k < i \/ k > j
    BY <2>1, <1>1, <1>2
  <2>2. CASE i <= k /\ k < j
    <3>1. k + 1 \in Idx /\ k + 1 < n
      BY <2>2, MaxAssumption DEF Idx, MaxAssumption
    <3>. QED
      BY <3>1, <2>2, <1>1
  <2>3. CASE k = j
    <3>1. i < n
      BY DEF Idx
    <3>. QED
      BY <3>1, <2>3, <1>1
  <2>. QED
    BY <2>1, <2>2, <2>3 DEF Idx
<1>3. ASSUME NEW x \in Idx, x < n
      PROVE  \E k \in Idx : k < n /\ b[k] = a[x]
  <2>1. CASE x < i \/ x > j
    BY <2>1, <1>1, <1>3
  <2>2. CASE x = i
    BY <2>2, <1>1
  <2>3. CASE i < x /\ x <= j
    <3>1. x - 1 \in Idx /\ x - 1 < n /\ i <= x - 1 /\ x - 1 < j /\ (x - 1) + 1 = x
      BY <2>3, <1>3, MaxAssumption DEF Idx, MaxAssumption
    <3>. QED
      BY <3>1, <1>1
  <2>. QED
    BY <2>1, <2>2, <2>3 DEF Idx
<1>. QED
  BY <1>2, <1>3, SameFirsts DEF b

\* infra_evt_raise of a created event adds exactly that event to the runnable
\* ones; the ones that are not less urgent keep their slots before it.
LEMMA RaiseSlotsAdds ==
  ASSUME TypeOK, created_cnt < INFRA_EVT_MAX, NEW e \in Created, RaiseSlots(e)
  PROVE  /\ Perm(subs_events')
         /\ pending_cnt' \in 0 .. created_cnt' /\ created_cnt' = created_cnt
         /\ pending_cnt' >= pending_cnt
         /\ overrun' = overrun
         /\ Runnable' = Runnable \cup {e}
         /\ Created' = Created
         /\ \/ UNCHANGED slots
            \/ LET k == InsertSlot(e)
               IN  /\ pending_cnt' = pending_cnt + 1
                   /\ subs_events'[k] = e
                   /\ \A x \in Idx : x < k => subs_events'[x] = subs_events[x]
                   /\ \A x \in Idx : k < x /\ x <= pending_cnt
                        => x - 1 \in Idx /\ subs_events'[x] = subs_events[x - 1]
<1>. DEFINE a == subs_events
            p == pending_cnt
            k == InsertSlot(e)
<1>1. /\ Perm(a) /\ p \in Int /\ created_cnt \in Int /\ p >= 0
      /\ p <= created_cnt /\ INFRA_EVT_MAX \in Int
  BY MaxAssumption DEF TypeOK, Perm, MaxAssumption
<1>2. e \in Evt
  BY <1>1, SlotSets, FirstsIs DEF Perm
<1>3. RaiseScan = p .. created_cnt /\ INFRA_EVT_MAX \notin RaiseScan
  BY <1>1 DEF RaiseScan
<1>4. PICK q \in Idx : q < created_cnt /\ a[q] = e
  BY SlotSets, FirstsIs
<1>5. CASE \A h \in RaiseScan \cap Idx : a[h] # e
  <2>1. UNCHANGED slots /\ overrun' = overrun
    BY <1>5, <1>3 DEF RaiseSlots, TypeOK
  <2>2. q < p
    BY <1>5, <1>4, <1>3, <1>1 DEF Idx
  <2>3. e \in Runnable
    BY <2>2, <1>4, SlotSets, FirstsIs
  <2>4. Runnable' = Runnable /\ Created' = Created
    BY <2>1 DEF slots, Runnable, Created
  <2>. QED
    BY <2>1, <2>3, <2>4, <1>1 DEF slots
<1>6. ASSUME NEW h \in RaiseScan \cap Idx, a[h] = e,
             subs_events' = MoveDown(Swap(a, h, p), p, k),
             p' = p + 1, created_cnt' = created_cnt, overrun' = overrun
      PROVE  /\ Perm(subs_events')
             /\ pending_cnt' \in 0 .. created_cnt'
             /\ Runnable' = Runnable \cup {e}
             /\ Created' = Created
             /\ subs_events'[k] = e
             /\ \A x \in Idx : x < k => subs_events'[x] = subs_events[x]
             /\ \A x \in Idx : k < x /\ x <= p
                  => x - 1 \in Idx /\ subs_events'[x] = subs_events[x - 1]
  <2>. DEFINE b == Swap(a, h, p)
              c == MoveDown(b, p, k)
  <2>1. h = q /\ p <= h /\ h < created_cnt
    BY <1>6, <1>4, <1>3, <1>1 DEF Perm
  <2>2. p \in Idx
    BY <2>1, <1>1, MaxAssumption DEF Idx, MaxAssumption
  <2>3. k \in 0 .. p /\ k \in Idx
    BY InsertSlotIs, <1>2, <2>2, <1>1 DEF Idx
  <2>4. /\ Perm(b)
        /\ \A x \in Idx : b[x] = IF x = p THEN e ELSE IF x = h THEN a[p] ELSE a[x]
    <3>1. h \in Idx /\ a[h] = e
      BY <1>6
    <3>2. Perm(a) /\ p \in Idx
      BY <1>1, <2>2
    <3>3. Perm(b) /\ DOMAIN a = Idx
      BY SwapPermutes, <3>1, <3>2 DEF Perm
    <3>4. \A x \in Idx : b[x] = IF x = p THEN a[h] ELSE IF x = h THEN a[p] ELSE a[x]
      BY <3>1, <3>2, <3>3 DEF Swap
    <3>. QED
      BY <3>1, <3>3, <3>4
  <2>. HIDE DEF b
  <2>5. /\ Perm(c) /\ c[k] = b[p]
        /\ \A x \in Idx : (x < k \/ x > p) => c[x] = b[x]
        /\ \A x \in Idx : k < x /\ x <= p => c[x] = b[x - 1]
    BY MoveDownPermutes, <2>2, <2>3, <2>4
  <2>. HIDE DEF c, k
  <2>6. \A x \in Idx : k < x => x - 1 \in Idx
    BY <2>3, <1>1 DEF Idx
  <2>7. /\ c[k] = e
        /\ \A x \in Idx : x < k => c[x] = a[x]
        /\ \A x \in Idx : k < x /\ x <= p => c[x] = a[x - 1]
        /\ \A x \in Idx : x > p => c[x] = IF x = h THEN a[p] ELSE a[x]
    <3>1. c[k] = e
      BY <2>2, <2>4, <2>5
    <3>2. ASSUME NEW x \in Idx, x < k PROVE c[x] = a[x]
      <4>1. x # p /\ x # h
        BY <3>2, <2>1, <2>3, <1>1 DEF Idx
      <4>. QED
        BY <4>1, <3>2, <2>4, <2>5
    <3>3. ASSUME NEW x \in Idx, k < x, x <= p PROVE c[x] = a[x - 1]
      <4>1. x - 1 \in Idx /\ x - 1 # p /\ x - 1 # h
        BY <3>3, <2>6, <2>1, <1>1 DEF Idx
      <4>. QED
        BY <4>1, <3>3, <2>4, <2>5
    <3>4. ASSUME NEW x \in Idx, x > p PROVE c[x] = IF x = h THEN a[p] ELSE a[x]
      BY <3>4, <2>4, <2>5, <1>1 DEF Idx
    <3>. QED
      BY <3>1, <3>2, <3>3, <3>4
  <2>8. Firsts(c, p + 1) = Firsts(a, p) \cup {e}
    <3>1. ASSUME NEW x \in Idx, x < p + 1
          PROVE  c[x] = e \/ \E i \in Idx : i < p /\ a[i] = c[x]
      <4>1. CASE x < k
        <5>1. x < p /\ c[x] = a[x]
          BY <4>1, <2>7, <2>3, <1>1 DEF Idx
        <5>. QED
          BY <5>1
      <4>2. CASE x > k
        <5>1. x - 1 \in Idx /\ x - 1 < p /\ x <= p
          BY <4>2, <3>1, <2>6, <1>1 DEF Idx
        <5>. QED
          BY <5>1, <4>2, <2>7
      <4>. QED
        BY <4>1, <4>2, <2>7, <2>3 DEF Idx
    <3>2. ASSUME NEW i \in Idx, i < p
          PROVE  \E x \in Idx : x < p + 1 /\ c[x] = a[i]
      <4>1. CASE i < k
        BY <4>1, <3>2, <2>7, <1>1 DEF Idx
      <4>2. CASE i >= k
        <5>1. i + 1 \in Idx /\ i + 1 < p + 1 /\ k < i + 1 /\ i + 1 <= p /\ (i + 1) - 1 = i
          BY <4>2, <3>2, <2>2, <2>3, <1>1 DEF Idx
        <5>. QED
          BY <5>1, <2>7
      <4>. QED
        BY <4>1, <4>2, <2>3 DEF Idx
    <3>3. k < p + 1
      BY <2>3, <1>1
    <3>4. ASSUME NEW x
          PROVE  x \in Firsts(c, p + 1) <=> x \in Firsts(a, p) \/ x = e
      <4>1. x \in Firsts(c, p + 1) <=> \E i \in Idx : i < p + 1 /\ c[i] = x
        BY FirstsIs
      <4>2. x \in Firsts(a, p) <=> \E i \in Idx : i < p /\ a[i] = x
        BY FirstsIs
      <4>. QED
        BY <4>1, <4>2, <3>1, <3>2, <3>3, <2>3, <2>7
    <3>. QED
      BY <3>4
  <2>9. Firsts(c, created_cnt) = Firsts(a, created_cnt)
    <3>1. ASSUME NEW x \in Idx, x < created_cnt
          PROVE  \E i \in Idx : i < created_cnt /\ a[i] = c[x]
      <4>1. CASE x < k
        BY <4>1, <3>1, <2>7
      <4>2. CASE x = k
        BY <4>2, <2>7, <1>4
      <4>3. CASE k < x /\ x <= p
        <5>1. x - 1 \in Idx /\ x - 1 < created_cnt
          BY <4>3, <3>1, <2>6, <1>1 DEF Idx
        <5>. QED
          BY <5>1, <4>3, <2>7
      <4>4. CASE x > p
        BY <4>4, <3>1, <2>1, <2>2, <2>7, <1>1 DEF Idx
      <4>. QED
        BY <4>1, <4>2, <4>3, <4>4, <2>3, <1>1 DEF Idx
    <3>2. ASSUME NEW i \in Idx, i < created_cnt
          PROVE  \E x \in Idx : x < created_cnt /\ c[x] = a[i]
      <4>1. CASE i < k
        BY <4>1, <3>2, <2>7
      <4>2. CASE i = h
        BY <4>2, <2>7, <2>1, <2>3, <1>1, <1>6 DEF Idx
      <4>3. CASE k <= i /\ i < p
        <5>1. i + 1 \in Idx /\ i + 1 < created_cnt /\ k < i + 1 /\ i + 1 <= p /\ (i + 1) - 1 = i
          BY <4>3, <3>2, <2>1, <2>2, <2>3, <1>1 DEF Idx
        <5>. QED
          BY <5>1, <2>7
      <4>4. CASE i = p /\ i # h
        <5>1. h \in Idx /\ h > p
          BY <4>4, <2>1, <1>1 DEF Idx
        <5>. QED
          BY <5>1, <4>4, <2>1, <2>7
      <4>5. CASE i > p /\ i # h
        BY <4>5, <3>2, <2>7
      <4>. QED
        BY <4>1, <4>2, <4>3, <4>4, <4>5, <2>3, <1>1 DEF Idx
    <3>. QED
      BY <3>1, <3>2, SameFirsts
  <2>10. subs_events' = c
    BY <1>6 DEF b, c, k
  <2>11. Runnable' = Firsts(c, p + 1) /\ Created' = Firsts(c, created_cnt)
    BY <2>10, <1>6 DEF Runnable, Created, Firsts
  <2>12. p + 1 \in 0 .. created_cnt
    BY <2>1, <1>1 DEF Idx
  <2>. QED
    BY <2>5, <2>6, <2>7, <2>8, <2>9, <2>10, <2>11, <2>12, <1>6, SlotSets DEF k
<1>. QED
  BY <1>1, <1>5, <1>6 DEF RaiseSlots

\* Taking the newest entry of the interrupt buffer.
LEMMA FrontAndLast ==
  ASSUME NEW S, NEW s \in Seq(S), s # <<>>
  PROVE  /\ Len(s) >= 1 /\ Last(s) \in S
         /\ Front(s) \in Seq(S) /\ Len(Front(s)) = Len(s) - 1
         /\ \A i \in 1 .. (Len(s) - 1) : Front(s)[i] = s[i]
<1>1. Len(s) \in Nat /\ Len(s) # 0
  BY EmptySeq, LenProperties
<1>2. \A i \in 1 .. Len(s) : s[i] \in S
  BY ElementOfSeq
<1>3. \A i \in 1 .. (Len(s) - 1) : s[i] \in S
  BY <1>1, <1>2
<1>4. /\ SubSeq(s, 1, Len(s) - 1) \in Seq(S)
      /\ Len(SubSeq(s, 1, Len(s) - 1)) = Len(s) - 1
      /\ \A i \in 1 .. (Len(s) - 1) : SubSeq(s, 1, Len(s) - 1)[i] = s[i]
  <2>1. Len(s) - 1 \in Int /\ (Len(s) - 1) - 1 + 1 = Len(s) - 1
    BY <1>1
  <2>. DEFINE n == Len(s) - 1
  <2>2. /\ SubSeq(s, 1, n) \in Seq(S)
        /\ Len(SubSeq(s, 1, n)) = IF 1 <= n THEN n - 1 + 1 ELSE 0
        /\ \A i \in 1 .. (n - 1 + 1) : SubSeq(s, 1, n)[i] = s[1 + i - 1]
    <3>. HIDE DEF n
    <3>1. n \in Int /\ \A i \in 1 .. n : s[i] \in S
      BY <1>3, <2>1 DEF n
    <3>. QED
      BY <3>1, SubSeqProperties
  <2>. QED
    BY <2>1, <2>2, <1>1
<1>. QED
  BY <1>1, <1>2, <1>4 DEF Front, Last

\* The steps that leave the slots and the interrupt buffer alone.
LEMMA SetsUnchanged ==
  /\ UNCHANGED slots => Runnable' = Runnable /\ Created' = Created
  /\ UNCHANGED raised_ISR => Posted' = Posted
BY DEF slots, Runnable, Created, Posted

\* What the interrupt buffer holds after its newest entry was taken.
LEMMA PostedWithoutLast ==
  ASSUME raised_ISR \in Seq(Evt), raised_ISR # <<>>, raised_ISR' = Front(raised_ISR)
  PROVE  /\ raised_ISR' \in Seq(Evt) /\ Len(raised_ISR') = Len(raised_ISR) - 1
         /\ Posted' \subseteq Posted
         /\ Posted \subseteq Posted' \cup {Last(raised_ISR)}
         /\ Last(raised_ISR) \in Posted
         /\ Len(raised_ISR) \in Nat
<1>1. /\ Len(raised_ISR) >= 1 /\ Len(raised_ISR) \in Nat
      /\ raised_ISR' \in Seq(Evt) /\ Len(raised_ISR') = Len(raised_ISR) - 1
      /\ \A i \in 1 .. (Len(raised_ISR) - 1) : raised_ISR'[i] = raised_ISR[i]
      /\ DOMAIN raised_ISR = 1 .. Len(raised_ISR)
      /\ DOMAIN raised_ISR' = 1 .. (Len(raised_ISR) - 1)
  BY FrontAndLast, LenProperties
<1>. QED
  BY <1>1 DEF Posted, Last

\* What it holds after an interrupt handler appended an entry.
LEMMA PostedWithNew ==
  ASSUME raised_ISR \in Seq(Evt), NEW e \in Evt, raised_ISR' = Append(raised_ISR, e)
  PROVE  Posted' = Posted \cup {e}
<1>. DEFINE n == Len(raised_ISR)
<1>1. /\ n \in Nat /\ DOMAIN raised_ISR = 1 .. n /\ DOMAIN raised_ISR' = 1 .. (n + 1)
      /\ \A i \in 1 .. n : raised_ISR'[i] = raised_ISR[i]
      /\ raised_ISR'[n + 1] = e
  BY AppendProperties, LenProperties
<1>. HIDE DEF n
<1>2. ASSUME NEW x  PROVE x \in Posted' <=> x \in Posted \cup {e}
  BY <1>1 DEF Posted
<1>. QED
  BY <1>2

\* Return with INFRA_EVT_RTN_NONE keeps the set of runnable events.
LEMMA ReturnNoneKeeps ==
  ASSUME TypeOK, ReturnNone, pc = "callback" => pending_cnt > 0
  PROVE  Runnable' = Runnable /\ Created' = Created
<1>1. pending_cnt > 0 /\ pending_cnt \in Nat /\ pending_cnt <= INFRA_EVT_MAX
  BY MaxAssumption DEF ReturnNone, TypeOK, MaxAssumption
<1>2. GroupEnd \in 1 .. pending_cnt
  BY <1>1, GroupEndIs
<1>3. 0 \in Idx /\ GroupEnd - 1 \in Idx /\ 0 <= GroupEnd - 1 /\ GroupEnd - 1 < pending_cnt
  BY <1>1, <1>2, MaxAssumption DEF Idx, MaxAssumption
<1>4. Perm(subs_events)
  BY DEF TypeOK, Perm
<1>5. Firsts(MoveUp(subs_events, 0, GroupEnd - 1), pending_cnt) = Firsts(subs_events, pending_cnt)
  BY <1>1, <1>3, <1>4, MoveUpKeepsFirsts
<1>6. created_cnt \in Nat /\ GroupEnd - 1 < created_cnt
  BY <1>1, <1>2, MaxAssumption DEF TypeOK, MaxAssumption
<1>7. Firsts(MoveUp(subs_events, 0, GroupEnd - 1), created_cnt) = Firsts(subs_events, created_cnt)
  BY <1>3, <1>4, <1>6, MoveUpKeepsFirsts
<1>. QED
  BY <1>5, <1>7 DEF ReturnNone, Runnable, Created, Firsts

\* The locals of the buffer clear outside of it.
LEMMA NoClearIs ==
  /\ NoClear \in [at : {"none", "test", "shift", "decrement"}, evt : Evt, h : Nat]
  /\ NoClear.at = "none"
  /\ [NoClear EXCEPT !.at = "decrement"]
       \in [at : {"none", "test", "shift", "decrement"}, evt : Evt, h : Nat]
  /\ [NoClear EXCEPT !.at = "decrement"].at = "decrement"
<1>1. 0 \in Evt
  BY MaxAssumption DEF MaxAssumption, Evt, Idx
<1>. QED
  BY <1>1 DEF NoClear

LEMMA InitStruct == InBounds /\ Init => StructInv
<1>. SUFFICES ASSUME Init PROVE StructInv
  OBVIOUS
<1>1. Posted = {}
  BY DEF Init, Posted
<1>2. TypeOK
  <2>1. raised_ISR \in Seq(Evt) /\ Len(raised_ISR) = 0
    BY EmptySeq DEF Init
  <2>2. INFRA_EVT_MAX \in Nat /\ INFRA_EVT_MAX > 0 /\ 0 \in Evt
    BY MaxAssumption DEF MaxAssumption, Evt, Idx
  <2>3. /\ subs_events \in [Idx -> Evt]
        /\ \A i, j \in Idx : subs_events[i] = subs_events[j] => i = j
    BY DEF Init, Evt
  <2>4. prio \in [Evt -> Prios] /\ func \in [Evt -> {"default_processing", "client"}]
    BY PrioAssumption DEF Init, PrioAssumption
  <2>5. clr \in [at : {"none", "test", "shift", "decrement"}, evt : Evt, h : Nat]
    BY <2>2 DEF Init, NoClear
  <2>. QED
    BY <2>1, <2>2, <2>3, <2>4, <2>5 DEF Init, TypeOK
<1>. QED
  BY <1>1, <1>2, MaxAssumption DEF Init, NoClear, StructInv, MaxAssumption

\* Steps of the main context and of interrupts that leave the slots alone.
LEMMA StructQuiet ==
  ASSUME InBounds, StructInv, UNCHANGED slots,
         \/ \E e \in Evt : infra_evt_delete(e)
         \/ \E e \in Evt, p \in Prios : infra_evt_set_priority(e, p)
         \/ \E e \in Evt : infra_evt_set_callback(e)
         \/ \E e \in Evt : ClearISRScan(e)
         \/ ClearISRTest
         \/ infra_evts_abort
         \/ Execute \/ LoopTest \/ DrainDone \/ PickEvent \/ PickIdle \/ IdleReturn
         \/ UNCHANGED vars
  PROVE  StructInv'
<1>. USE DEF StructInv, TypeOK
<1>1. Runnable' = Runnable /\ Created' = Created
  BY SetsUnchanged
<1>. USE DEF slots
<1>2. ASSUME NEW e \in Evt, infra_evt_delete(e) PROVE StructInv'
  <2>1. e \in Created
    BY <1>2 DEF infra_evt_delete, InBounds, Known
  <2>2. PICK q \in Idx : q < created_cnt /\ subs_events[q] = e
    BY <2>1, SlotSets, FirstsIs
  <2>3. \A h \in Idx : subs_events[h] = e => ~(h >= created_cnt)
    BY <2>2 DEF Idx
  <2>4. overrun' = overrun
    BY <1>2, <2>3 DEF infra_evt_delete
  <2>5. deleted' \subseteq Evt
    BY <1>2 DEF infra_evt_delete
  <2>. QED
    BY <1>1, <1>2, <2>4, <2>5, SetsUnchanged DEF infra_evt_delete
<1>3. ASSUME NEW e \in Evt, NEW p \in Prios, infra_evt_set_priority(e, p) PROVE StructInv'
  BY <1>1, <1>3, SetsUnchanged DEF infra_evt_set_priority
<1>4. ASSUME NEW e \in Evt, infra_evt_set_callback(e) PROVE StructInv'
  BY <1>1, <1>4, SetsUnchanged DEF infra_evt_set_callback
<1>5. ASSUME NEW e \in Evt, ClearISRScan(e) PROVE StructInv'
  <2>. DEFINE S == {i \in 1 .. (Len(raised_ISR) + 1) :
                      i = Len(raised_ISR) + 1 \/ raised_ISR[i] = e}
  <2>1. Len(raised_ISR) \in Nat
    BY LenProperties
  <2>2. S \in SUBSET Nat /\ Len(raised_ISR) + 1 \in S
    BY <2>1
  <2>3. LeastOf(S) \in Nat /\ LeastOf(S) >= 1
    <3>1. S \subseteq 1 .. (Len(raised_ISR) + 1)
      OBVIOUS
    <3>. HIDE DEF S
    <3>2. LeastOf(S) \in S
      BY <2>2, LeastOfIsLeast
    <3>3. LeastOf(S) \in 1 .. (Len(raised_ISR) + 1)
      BY <3>1, <3>2
    <3>. DEFINE m == LeastOf(S)
    <3>. HIDE DEF m
    <3>4. m \in Nat /\ m >= 1
      BY <3>3, <2>1 DEF m
    <3>. QED
      BY <3>4 DEF m
  <2>. QED
    BY <1>1, <1>5, <2>3, SetsUnchanged DEF ClearISRScan, InClient
<1>6. ASSUME ClearISRTest PROVE StructInv'
  BY <1>1, <1>6, NoClearIs, SetsUnchanged DEF ClearISRTest
<1>7. ASSUME infra_evts_abort PROVE StructInv'
  BY <1>1, <1>7, SetsUnchanged DEF infra_evts_abort
<1>8. ASSUME Execute \/ LoopTest \/ DrainDone \/ PickIdle \/ IdleReturn PROVE StructInv'
  <2>1. CASE Execute
    BY <1>1, <2>1, SetsUnchanged DEF Execute
  <2>2. CASE LoopTest
    BY <1>1, <2>2, SetsUnchanged DEF LoopTest
  <2>3. CASE DrainDone
    BY <1>1, <2>3, SetsUnchanged DEF DrainDone
  <2>4. CASE PickIdle
    BY <1>1, <2>4, SetsUnchanged DEF PickIdle
  <2>5. CASE IdleReturn
    BY <1>1, <2>5, SetsUnchanged DEF IdleReturn
  <2>. QED
    BY <1>8, <2>1, <2>2, <2>3, <2>4, <2>5
<1>9. ASSUME PickEvent PROVE StructInv'
  <2>1. 0 \in Idx /\ subs_events[0] \in Evt /\ subs_events[0] \in Created
    <3>1. 0 \in Idx /\ 0 < created_cnt
      BY <1>9, MaxAssumption DEF PickEvent, Idx, MaxAssumption
    <3>. QED
      BY <3>1, SlotSets, FirstsIs
  <2>. QED
    BY <1>1, <1>9, <2>1, SetsUnchanged DEF PickEvent
<1>10. ASSUME UNCHANGED vars PROVE StructInv'
  BY <1>1, <1>10, SetsUnchanged DEF vars
<1>. QED
  BY <1>2, <1>3, <1>4, <1>5, <1>6, <1>7, <1>8, <1>9, <1>10

\* Steps that change the slots.
LEMMA StructSlots ==
  ASSUME InBounds, StructInv,
         \/ infra_evt_create
         \/ \E e \in Evt : infra_evt_raise(e) \/ infra_evt_clear(e)
         \/ DrainOne \/ ReturnNone \/ ReturnClear
  PROVE  StructInv'
<1>. USE DEF StructInv, TypeOK
<1>0. /\ INFRA_EVT_MAX \in Nat /\ pending_cnt \in Nat /\ created_cnt \in Nat
      /\ Perm(subs_events) /\ Created \subseteq Evt
  BY MaxAssumption, SlotSets, FirstsIs DEF MaxAssumption, Perm
<1>1. ASSUME infra_evt_create PROVE StructInv'
  <2>1. created_cnt + 1 < INFRA_EVT_MAX
    BY <1>1 DEF infra_evt_create, InBounds
  <2>2. created_cnt' = created_cnt + 1 /\ subs_events' = subs_events
    BY <1>1 DEF infra_evt_create
  <2>3. Created \subseteq Created'
    <3>1. \A i \in Idx : i < created_cnt => i < created_cnt'
      BY <2>2, <1>0 DEF Idx
    <3>. QED
      BY <2>2, <3>1 DEF Created
  <2>4. created_cnt \in Idx /\ subs_events[created_cnt] \in Evt
    BY <2>1, <1>0 DEF Idx
  <2>5. prio' \in [Evt -> Prios]
    BY <1>1, <2>4, PrioAssumption DEF infra_evt_create, PrioAssumption
  <2>6. func' \in [Evt -> {"default_processing", "client"}]
    BY <1>1, <2>4 DEF infra_evt_create
  <2>. QED
    BY <1>0, <1>1, <2>1, <2>2, <2>3, <2>5, <2>6, SetsUnchanged DEF infra_evt_create
<1>2. ASSUME NEW e \in Evt, infra_evt_raise(e) PROVE StructInv'
  <2>1. e \in Created /\ RaiseSlots(e)
    BY <1>2 DEF infra_evt_raise, InBounds, Known
  <2>2. /\ Perm(subs_events') /\ pending_cnt' \in 0 .. created_cnt'
        /\ created_cnt' = created_cnt /\ pending_cnt' >= pending_cnt
        /\ overrun' = overrun /\ Created' = Created
    BY <2>1, RaiseSlotsAdds
  <2>. QED
    BY <1>0, <1>2, <2>1, <2>2, SetsUnchanged DEF infra_evt_raise, Perm
<1>3. ASSUME NEW e \in Evt, infra_evt_clear(e) PROVE StructInv'
  <2>1. PICK h \in Idx : h < pending_cnt /\ (h # 0 \/ ~executing) /\ subs_clear_pending(h)
    BY <1>3 DEF infra_evt_clear
  <2>2. /\ Perm(subs_events') /\ pending_cnt' \in 0 .. created_cnt'
        /\ created_cnt' = created_cnt /\ pending_cnt' = pending_cnt - 1
        /\ Created' = Created
    BY <2>1, ClearSlots
  <2>3. pc = "callback" => pending_cnt' > 0
    BY <2>1, <2>2, <1>0 DEF Idx
  <2>. QED
    BY <1>0, <1>3, <2>2, <2>3, SetsUnchanged DEF infra_evt_clear, Perm
<1>4. ASSUME DrainOne PROVE StructInv'
  <2>1. /\ raised_ISR' \in Seq(Evt) /\ Len(raised_ISR') = Len(raised_ISR) - 1
        /\ Posted' \subseteq Posted /\ Last(raised_ISR) \in Posted /\ Len(raised_ISR) \in Nat
    BY <1>4, PostedWithoutLast DEF DrainOne
  <2>2. Last(raised_ISR) \in Created /\ RaiseSlots(Last(raised_ISR))
    BY <1>4, <2>1 DEF DrainOne
  <2>3. /\ Perm(subs_events') /\ pending_cnt' \in 0 .. created_cnt'
        /\ created_cnt' = created_cnt /\ pending_cnt' >= pending_cnt
        /\ overrun' = overrun /\ Created' = Created
    BY <2>2, RaiseSlotsAdds
  <2>. QED
    BY <1>0, <1>4, <2>1, <2>3 DEF DrainOne, Perm
<1>5. ASSUME ReturnNone PROVE StructInv'
  <2>1. pending_cnt > 0
    BY <1>5 DEF ReturnNone
  <2>2. GroupEnd \in 1 .. pending_cnt
    BY <2>1, GroupEndIs
  <2>. DEFINE j == GroupEnd - 1
  <2>3. 0 \in Idx /\ j \in Idx /\ 0 <= j /\ j < created_cnt
    BY <2>1, <2>2, <1>0 DEF Idx
  <2>. HIDE DEF j
  <2>4. /\ Perm(MoveUp(subs_events, 0, j))
        /\ MoveUp(subs_events, 0, j)[j] = subs_events[0]
        /\ \A k \in Idx : (k < 0 \/ k > j) => MoveUp(subs_events, 0, j)[k] = subs_events[k]
        /\ \A k \in Idx : 0 <= k /\ k < j => MoveUp(subs_events, 0, j)[k] = subs_events[k + 1]
    BY <1>0, <2>3, MoveUpPermutes
  <2>5. subs_events' = MoveUp(subs_events, 0, j) /\ UNCHANGED <<pending_cnt, created_cnt>>
    BY <1>5 DEF ReturnNone, j
  <2>6. Created' = Created
    <3>1. Firsts(MoveUp(subs_events, 0, j), created_cnt) = Firsts(subs_events, created_cnt)
      BY <1>0, <2>3, MoveUpKeepsFirsts
    <3>. QED
      BY <3>1, <2>5 DEF Created, Firsts
  <2>. QED
    BY <1>0, <1>5, <2>4, <2>5, <2>6, SetsUnchanged DEF ReturnNone, Perm
<1>6. ASSUME ReturnClear PROVE StructInv'
  <2>1. pending_cnt > 0 /\ subs_clear_pending(0) /\ 0 \in Idx
    BY <1>0, <1>6, MaxAssumption DEF ReturnClear, Idx, MaxAssumption
  <2>2. /\ Perm(subs_events') /\ pending_cnt' \in 0 .. created_cnt'
        /\ created_cnt' = created_cnt /\ Created' = Created
    BY <2>1, ClearSlots
  <2>. QED
    BY <1>0, <1>6, <2>2, SetsUnchanged DEF ReturnClear, Perm
<1>. QED
  BY <1>1, <1>2, <1>3, <1>4, <1>5, <1>6

\* Steps that change the interrupt buffer only.
LEMMA StructBuffer ==
  ASSUME InBounds, StructInv,
         \/ \E e \in Evt : infra_evt_raise_ISR(e)
         \/ ClearISRShift \/ ClearISRDecrement
  PROVE  StructInv'
<1>. USE DEF StructInv, TypeOK
<1>0. Len(raised_ISR) \in Nat /\ DOMAIN raised_ISR = 1 .. Len(raised_ISR) /\ INFRA_EVT_MAX \in Nat
  BY LenProperties, MaxAssumption DEF MaxAssumption
<1>1. ASSUME NEW e \in Evt, infra_evt_raise_ISR(e) PROVE StructInv'
  <2>1. e \in Created
    BY <1>1 DEF infra_evt_raise_ISR, InBounds, Known
  <2>2. /\ raised_ISR' \in Seq(Evt) /\ Posted' \subseteq Posted \cup {e}
        /\ Len(raised_ISR') >= Len(raised_ISR) /\ Len(raised_ISR') <= INFRA_EVT_MAX
    <3>1. CASE Len(raised_ISR) < INFRA_EVT_MAX
      <4>1. raised_ISR' = Append(raised_ISR, e)
        BY <1>1, <3>1 DEF infra_evt_raise_ISR
      <4>2. raised_ISR' \in Seq(Evt) /\ Len(raised_ISR') = Len(raised_ISR) + 1
        BY <4>1, AppendProperties
      <4>. QED
        BY <1>0, <3>1, <4>1, <4>2, PostedWithNew
    <3>2. CASE ~(Len(raised_ISR) < INFRA_EVT_MAX)
      <4>1. raised_ISR' = raised_ISR
        BY <1>1, <3>2 DEF infra_evt_raise_ISR
      <4>2. Posted' = Posted
        BY <4>1, SetsUnchanged
      <4>. QED
        BY <1>0, <4>1, <4>2
    <3>. QED
      BY <3>1, <3>2
  <2>3. /\ UNCHANGED <<slots, prio, func, executing, aborted, pc, running, clr, deleted, overrun>>
        /\ owed' \subseteq Evt /\ risked' \subseteq Evt
    BY <1>1 DEF infra_evt_raise_ISR
  <2>4. /\ clr'.at = "shift" => clr'.h <= Len(raised_ISR')
        /\ clr'.at = "decrement" => Len(raised_ISR') > 0
    <3>1. Len(raised_ISR') \in Nat
      BY <2>2, LenProperties
    <3>. QED
      BY <1>0, <2>2, <2>3, <3>1
  <2>5. Created' = Created
    BY <2>3, SetsUnchanged
  <2>. QED
    BY <2>1, <2>2, <2>3, <2>4, <2>5 DEF slots
<1>2. ASSUME ClearISRShift PROVE StructInv'
  <2>1. /\ raised_ISR' \in [1 .. Len(raised_ISR) -> Evt]
        /\ \A i \in DOMAIN raised_ISR : raised_ISR'[i] \in Posted
    BY <1>0, <1>2, ElementOfSeq DEF ClearISRShift, Posted
  <2>2. raised_ISR' \in Seq(Evt) /\ Len(raised_ISR') = Len(raised_ISR) /\ Posted' \subseteq Posted
    <3>1. raised_ISR' \in Seq(Evt)
      BY <2>1, <1>0, SeqDef
    <3>2. DOMAIN raised_ISR' = 1 .. Len(raised_ISR') /\ Len(raised_ISR') \in Nat
      BY <3>1, LenProperties
    <3>3. Len(raised_ISR') = Len(raised_ISR)
      BY <2>1, <3>1, <3>2, <1>0
    <3>. QED
      BY <2>1, <3>1, <3>3, <1>0 DEF Posted
  <2>3. /\ UNCHANGED <<slots, prio, func, executing, aborted, pc, running, deleted,
                       risked, overrun>>
        /\ clr.at = "shift" /\ clr' = [NoClear EXCEPT !.at = "decrement"]
        /\ owed' \subseteq Evt
    BY <1>2 DEF ClearISRShift
  <2>4. /\ clr' \in [at : {"none", "test", "shift", "decrement"}, evt : Evt, h : Nat]
        /\ clr'.at = "decrement" /\ Len(raised_ISR') > 0
    BY <1>0, <2>2, <2>3, NoClearIs
  <2>5. Created' = Created
    BY <2>3, SetsUnchanged
  <2>. QED
    BY <2>2, <2>3, <2>4, <2>5 DEF slots
<1>3. ASSUME ClearISRDecrement PROVE StructInv'
  <2>1. raised_ISR # <<>>
    BY <1>3, EmptySeq DEF ClearISRDecrement
  <2>2. /\ raised_ISR' \in Seq(Evt) /\ Len(raised_ISR') = Len(raised_ISR) - 1
        /\ Posted' \subseteq Posted
    BY <1>3, <2>1, PostedWithoutLast DEF ClearISRDecrement
  <2>3. /\ UNCHANGED <<slots, prio, func, executing, aborted, pc, running, deleted, overrun>>
        /\ clr' = NoClear /\ owed' \subseteq Evt /\ risked' \subseteq Evt
        /\ Len(raised_ISR') <= INFRA_EVT_MAX
    BY <1>0, <1>3, <2>2 DEF ClearISRDecrement
  <2>4. /\ clr' \in [at : {"none", "test", "shift", "decrement"}, evt : Evt, h : Nat]
        /\ clr'.at = "none"
    BY <2>3, NoClearIs
  <2>5. Created' = Created
    BY <2>3, SetsUnchanged
  <2>. QED
    BY <2>2, <2>3, <2>4, <2>5 DEF slots
<1>. QED
  BY <1>1, <1>2, <1>3

LEMMA StructStep == InBounds /\ StructInv /\ [Next]_vars => StructInv'
<1>. SUFFICES ASSUME InBounds, StructInv, [Next]_vars PROVE StructInv'
  OBVIOUS
<1>1. ASSUME Client PROVE StructInv'
  BY <1>1, StructQuiet, StructSlots DEF Client, infra_evt_delete,
     infra_evt_set_priority, infra_evt_set_callback, ClearISRScan
<1>2. ASSUME ClearISR PROVE StructInv'
  BY <1>2, StructQuiet, StructBuffer DEF ClearISR, ClearISRTest
<1>3. ASSUME Interrupt PROVE StructInv'
  BY <1>3, StructQuiet, StructBuffer DEF Interrupt, infra_evts_abort
<1>4. ASSUME Execute PROVE StructInv'
  BY <1>4, StructQuiet DEF Execute
<1>5. ASSUME Scheduler PROVE StructInv'
  BY <1>5, StructQuiet, StructSlots DEF Scheduler, LoopTest, DrainDone, PickEvent,
     PickIdle, IdleReturn
<1>6. ASSUME UNCHANGED vars PROVE StructInv'
  BY <1>6, StructQuiet DEF vars, slots
<1>. QED
  BY <1>1, <1>2, <1>3, <1>4, <1>5, <1>6 DEF Next

THEOREM Structure == InBounds => (Spec => []StructInv)
<1>. SUFFICES ASSUME InBounds PROVE Spec => []StructInv
  OBVIOUS
<1>1. Init => StructInv
  BY InitStruct
<1>2. StructInv /\ [Next]_vars => StructInv'
  BY StructStep
<1>. QED
  BY <1>1, <1>2, PTL DEF Spec

\* The slots stay a permutation with ordered marks, whatever the clients do
\* within bounds: urgent raises, new priorities, deletes and the unlocked
\* clear of the interrupt buffer included (event.c:52-57).
THEOREM TypeCorrect == InBounds => (Spec => []TypeOK)
<1>1. StructInv => TypeOK
  BY DEF StructInv
<1>. QED
  BY <1>1, Structure, PTL

\* No search or shift leaves subs_events.
THEOREM StaysInArray == InBounds => (Spec => []NoOverrun)
<1>1. StructInv => NoOverrun
  BY DEF StructInv, NoOverrun
<1>. QED
  BY <1>1, Structure, PTL

\* Only created events are executed, if no client raises or deletes one that is
\* not created.  That a raise of such an event "simply returns" (event.h:57) is not
\* what the code does, and this theorem leaves the case out.
THEOREM RunsOnlyCreated == InBounds => (Spec => []OnlyCreatedRuns)
<1>1. StructInv => OnlyCreatedRuns
  BY DEF StructInv, OnlyCreatedRuns
<1>. QED
  BY <1>1, Structure, PTL

-----------------------------------------------------------------------------
(* The running event keeps slot 0.                                         *)

LEMMA FirstStep ==
  PolitelyRaised /\ StructInv /\ RunningIsFirst /\ [Next]_vars => RunningIsFirst'
<1>. SUFFICES ASSUME PolitelyRaised, StructInv, RunningIsFirst, [Next]_vars,
                     pc' = "callback"
              PROVE  pending_cnt' > 0 /\ subs_events'[0] = running'
  BY DEF RunningIsFirst
<1>. USE DEF StructInv, TypeOK
<1>0. /\ pending_cnt \in Nat /\ created_cnt \in Nat /\ 0 \in Idx
      /\ \A x \in Evt : prio[x] \in Nat
  <2>1. /\ pending_cnt \in Nat /\ created_cnt \in Nat /\ 0 \in Idx
    BY MaxAssumption DEF MaxAssumption, Idx
  <2>2. \A x \in Evt : prio[x] \in Nat
    BY PrioAssumption DEF PrioAssumption
  <2>. QED
    BY <2>1, <2>2
<1>1. ASSUME NEW e \in Evt, infra_evt_raise(e)
      PROVE  pending_cnt' > 0 /\ subs_events'[0] = running'
  <2>1. /\ e \in Created /\ RaiseSlots(e) /\ pc = "callback" /\ running' = running
        /\ prio[running] <= prio[e]
    BY <1>1 DEF infra_evt_raise, PolitelyRaised, InBounds, Known
  <2>2. pending_cnt > 0 /\ subs_events[0] = running
    BY <2>1 DEF RunningIsFirst
  <2>3. \A j \in InsertSlot(e) .. (pending_cnt - 1) : prio[subs_events[j]] > prio[e]
    BY InsertSlotIs
  <2>4. InsertSlot(e) # 0
    <3>. SUFFICES ASSUME InsertSlot(e) = 0 PROVE FALSE
      OBVIOUS
    <3>1. 0 \in InsertSlot(e) .. (pending_cnt - 1)
      BY <2>2, <1>0
    <3>2. prio[running] > prio[e]
      BY <3>1, <2>3, <2>2
    <3>. QED
      BY <3>2, <2>1, <2>2, <1>0
  <2>5. InsertSlot(e) \in 0 .. pending_cnt
    BY InsertSlotIs
  <2>6. \/ UNCHANGED slots
        \/ /\ pending_cnt' = pending_cnt + 1
           /\ \A x \in Idx : x < InsertSlot(e) => subs_events'[x] = subs_events[x]
    BY <2>1, RaiseSlotsAdds
  <2>. QED
    BY <2>1, <2>2, <2>4, <2>5, <2>6, <1>0 DEF slots
<1>2. ASSUME NEW e \in Evt, infra_evt_clear(e)
      PROVE  pending_cnt' > 0 /\ subs_events'[0] = running'
  <2>1. pc = "callback" /\ running' = running
    BY <1>2 DEF infra_evt_clear
  <2>2. PICK h \in Idx : h < pending_cnt /\ h # 0 /\ subs_clear_pending(h)
    BY <1>2, <2>1 DEF infra_evt_clear
  <2>3. /\ pending_cnt' = pending_cnt - 1
        /\ \A k \in Idx : k < h => subs_events'[k] = subs_events[k]
    BY <2>2, ClearSlots
  <2>. QED
    BY <2>1, <2>2, <2>3, <1>0 DEF RunningIsFirst, Idx
<1>3. ASSUME PickEvent PROVE pending_cnt' > 0 /\ subs_events'[0] = running'
  BY <1>3 DEF PickEvent, slots
<1>4. ASSUME UNCHANGED <<pending_cnt, running, pc>>, UNCHANGED subs_events
      PROVE  pending_cnt' > 0 /\ subs_events'[0] = running'
  BY <1>4 DEF RunningIsFirst
<1>5. CASE Client
  BY <1>1, <1>2, <1>4, <1>5 DEF Client, infra_evt_create, infra_evt_delete,
     infra_evt_set_priority, infra_evt_set_callback, ClearISRScan, slots
<1>6. CASE ClearISR \/ Interrupt \/ UNCHANGED vars
  BY <1>4, <1>6 DEF ClearISR, ClearISRTest, ClearISRShift, ClearISRDecrement,
     Interrupt, infra_evts_abort, infra_evt_raise_ISR, slots, vars
<1>7. CASE Execute \/ Scheduler
  BY <1>3, <1>7 DEF Execute, Scheduler, LoopTest, DrainOne, DrainDone, PickIdle,
     ReturnNone, ReturnClear, IdleReturn
<1>. QED
  BY <1>5, <1>6, <1>7 DEF Next

\* While a processing function runs, its event stays in slot 0, where the
\* scheduler and infra_evt_clear look for it.
THEOREM RunningStaysFirst == PolitelyRaised => (Spec => []RunningIsFirst)
<1>. SUFFICES ASSUME PolitelyRaised PROVE Spec => []RunningIsFirst
  OBVIOUS
<1>1. Init => RunningIsFirst
  BY DEF Init, RunningIsFirst
<1>2. StructInv /\ RunningIsFirst /\ [Next]_vars => RunningIsFirst'
  BY FirstStep
<1>3. Spec => []StructInv
  BY Structure DEF PolitelyRaised
<1>. QED
  BY <1>1, <1>2, <1>3, PTL DEF Spec

LEMMA ClearTakesRunning ==
  ASSUME StructInv, RunningIsFirst, ReturnClear
  PROVE  Runnable' = Runnable \ {running}
<1>1. 0 \in Idx /\ 0 < pending_cnt /\ subs_events[0] = running /\ subs_clear_pending(0)
  BY MaxAssumption DEF MaxAssumption, Idx, ReturnClear, RunningIsFirst
<1>. QED
  BY <1>1, ClearSlots DEF StructInv

\* Return with INFRA_EVT_RTN_CLEAR takes the running event, and no other, from
\* the runnable ones (event.h:81).
THEOREM ReturnClearsItself == PolitelyRaised => (Spec => ClearsItself)
<1>. SUFFICES ASSUME PolitelyRaised PROVE Spec => ClearsItself
  OBVIOUS
<1>1. StructInv /\ RunningIsFirst /\ [Next]_vars
        => [ReturnClear => Runnable' = Runnable \ {running}]_vars
  <2>. SUFFICES ASSUME StructInv, RunningIsFirst, ReturnClear
                PROVE  Runnable' = Runnable \ {running}
    OBVIOUS
  <2>. QED
    BY ClearTakesRunning
<1>2. Spec => []StructInv /\ []RunningIsFirst
  BY Structure, RunningStaysFirst DEF PolitelyRaised
<1>. QED
  BY <1>1, <1>2, PTL DEF Spec, ClearsItself

-----------------------------------------------------------------------------
(* The runnable slots stay sorted.                                         *)

\* No priority of a runnable event is changed.
KeepsPriorities == InBounds /\ "reprioritise" \notin Usage

LEMMA RaiseSorts ==
  ASSUME StructInv, RunnableSorted, NEW e \in Created, RaiseSlots(e), prio' = prio
  PROVE  RunnableSorted'
<1>. USE DEF StructInv, TypeOK
<1>. DEFINE k == InsertSlot(e)
            p == pending_cnt
<1>a. e \in Evt
  BY DEF Created
<1>b. p \in Nat /\ subs_events \in [Idx -> Evt]
  OBVIOUS
<1>c. \A x \in Evt : prio[x] \in Nat
  BY PrioAssumption DEF PrioAssumption
<1>1. e \in Evt /\ p \in Nat /\ (\A x \in Evt : prio[x] \in Nat) /\ subs_events \in [Idx -> Evt]
  BY <1>a, <1>b, <1>c
<1>2. CASE UNCHANGED slots
  BY <1>2 DEF RunnableSorted, slots
<1>3. CASE /\ pending_cnt' = p + 1
           /\ subs_events'[k] = e
           /\ \A x \in Idx : x < k => subs_events'[x] = subs_events[x]
           /\ \A x \in Idx : k < x /\ x <= p
                => x - 1 \in Idx /\ subs_events'[x] = subs_events[x - 1]
  <2>1. /\ k \in 0 .. p
        /\ \A j \in k .. (p - 1) : prio[subs_events[j]] > prio[e]
        /\ k # 0 => ~(prio[subs_events[k - 1]] > prio[e])
    BY <1>1, InsertSlotIs
  <2>. HIDE DEF k
  <2>2. ASSUME NEW x \in Idx, x < k  PROVE prio[subs_events[x]] <= prio[e]
    <3>1. k # 0 /\ x <= k - 1 /\ k - 1 < p /\ k - 1 >= 0
      BY <2>1, <2>2, <1>1 DEF Idx
    <3>2. p <= INFRA_EVT_MAX /\ INFRA_EVT_MAX \in Nat
      BY MaxAssumption DEF MaxAssumption
    <3>3. k - 1 \in Idx
      BY <3>1, <3>2, <2>1, <1>1 DEF Idx
    <3>4. prio[subs_events[x]] <= prio[subs_events[k - 1]]
      BY <3>1, <3>3 DEF RunnableSorted
    <3>. QED
      BY <3>1, <3>3, <3>4, <2>1, <1>1
  <2>. SUFFICES ASSUME NEW i \in Idx, NEW j \in Idx, i <= j, j < p + 1
                PROVE  prio[subs_events'[i]] <= prio[subs_events'[j]]
    BY <1>3 DEF RunnableSorted
  <2>3. CASE j < k
    BY <2>3, <2>1, <1>1, <1>3 DEF RunnableSorted, Idx
  <2>4. CASE j = k
    <3>1. CASE i = k
      BY <3>1, <2>4, <1>1, <1>3
    <3>2. CASE i < k
      BY <3>2, <2>2, <2>4, <1>3
    <3>. QED
      BY <3>1, <3>2, <2>4, <2>1 DEF Idx
  <2>5. CASE j > k
    <3>1. j - 1 \in Idx /\ subs_events'[j] = subs_events[j - 1] /\ j - 1 < p /\ j - 1 \in k .. (p - 1)
      BY <2>5, <1>3, <1>1, <2>1 DEF Idx
    <3>2. CASE i < k
      <4>1. i <= j - 1 /\ subs_events'[i] = subs_events[i]
        BY <3>2, <2>5, <1>3, <2>1 DEF Idx
      <4>. QED
        BY <4>1, <3>1 DEF RunnableSorted
    <3>3. CASE i = k
      BY <3>1, <3>3, <1>1, <1>3, <2>1
    <3>4. CASE i > k
      <4>1. i - 1 \in Idx /\ subs_events'[i] = subs_events[i - 1] /\ i - 1 <= j - 1
        BY <3>4, <1>3, <1>1, <2>1 DEF Idx
      <4>. QED
        BY <4>1, <3>1 DEF RunnableSorted
    <3>. QED
      BY <3>2, <3>3, <3>4, <2>1 DEF Idx
  <2>. QED
    BY <2>3, <2>4, <2>5, <2>1 DEF Idx
<1>. QED
  BY <1>2, <1>3, RaiseSlotsAdds

LEMMA ClearSorts ==
  ASSUME StructInv, RunnableSorted, NEW idx \in Idx, idx < pending_cnt,
         subs_clear_pending(idx), prio' = prio
  PROVE  RunnableSorted'
<1>. USE DEF StructInv, TypeOK
<1>1. /\ pending_cnt' = pending_cnt - 1
      /\ \A k \in Idx : k < idx => subs_events'[k] = subs_events[k]
      /\ \A k \in Idx : idx <= k /\ k < pending_cnt'
                          => k + 1 \in Idx /\ subs_events'[k] = subs_events[k + 1]
      /\ pending_cnt \in Nat
  BY ClearSlots
<1>. SUFFICES ASSUME NEW i \in Idx, NEW j \in Idx, i <= j, j < pending_cnt - 1
              PROVE  prio[subs_events'[i]] <= prio[subs_events'[j]]
  BY <1>1 DEF RunnableSorted
<1>. DEFINE up(x) == IF x < idx THEN x ELSE x + 1
<1>2. /\ up(i) \in Idx /\ up(j) \in Idx /\ up(i) <= up(j) /\ up(j) < pending_cnt
      /\ subs_events'[i] = subs_events[up(i)] /\ subs_events'[j] = subs_events[up(j)]
  BY <1>1 DEF Idx
<1>. QED
  BY <1>2 DEF RunnableSorted

LEMMA SortedStep ==
  KeepsPriorities /\ StructInv /\ RunnableSorted /\ [Next]_vars => RunnableSorted'
<1>. SUFFICES ASSUME KeepsPriorities, StructInv, RunnableSorted, [Next]_vars
              PROVE  RunnableSorted'
  OBVIOUS
<1>. USE DEF StructInv, TypeOK
<1>0. /\ pending_cnt \in Nat /\ created_cnt \in Nat /\ 0 \in Idx
      /\ INFRA_EVT_MAX \in Nat /\ subs_events \in [Idx -> Evt]
  BY MaxAssumption DEF MaxAssumption, Idx
<1>1. ASSUME infra_evt_create PROVE RunnableSorted'
  <2>1. \A i \in Idx : i < pending_cnt => prio'[subs_events[i]] = prio[subs_events[i]]
    <3>. SUFFICES ASSUME NEW i \in Idx, i < pending_cnt
                  PROVE  prio'[subs_events[i]] = prio[subs_events[i]]
      OBVIOUS
    <3>1. created_cnt \in Idx /\ i # created_cnt
      BY <1>0 DEF Idx
    <3>2. subs_events[i] # subs_events[created_cnt]
      BY <3>1
    <3>. QED
      BY <3>2, <1>1, <1>0 DEF infra_evt_create
  <2>2. UNCHANGED <<subs_events, pending_cnt>>
    BY <1>1 DEF infra_evt_create
  <2>3. \A i, j \in Idx : i <= j /\ j < pending_cnt => i < pending_cnt
    BY <1>0 DEF Idx
  <2>. QED
    BY <2>1, <2>2, <2>3 DEF RunnableSorted
<1>2. ASSUME NEW e \in Evt, infra_evt_raise(e) PROVE RunnableSorted'
  BY <1>2, RaiseSorts DEF infra_evt_raise, KeepsPriorities, InBounds, Known
<1>3. ASSUME NEW e \in Evt, infra_evt_clear(e) PROVE RunnableSorted'
  BY <1>3, ClearSorts DEF infra_evt_clear
<1>4. ASSUME NEW e \in Evt, NEW q \in Prios, infra_evt_set_priority(e, q)
      PROVE  RunnableSorted'
  <2>1. e \notin Runnable /\ UNCHANGED <<subs_events, pending_cnt>> /\ prio' = [prio EXCEPT ![e] = q]
    BY <1>4 DEF infra_evt_set_priority, KeepsPriorities, slots
  <2>2. \A i \in Idx : i < pending_cnt => subs_events[i] # e
    BY <2>1, SlotSets, FirstsIs
  <2>3. \A i \in Idx : i < pending_cnt => prio'[subs_events[i]] = prio[subs_events[i]]
    BY <2>1, <2>2, <1>0
  <2>4. \A i, j \in Idx : i <= j /\ j < pending_cnt => i < pending_cnt
    BY <1>0 DEF Idx
  <2>. QED
    BY <2>1, <2>3, <2>4 DEF RunnableSorted
<1>5. ASSUME DrainOne PROVE RunnableSorted'
  <2>1. Last(raised_ISR) \in Created
    BY <1>5, PostedWithoutLast DEF DrainOne
  <2>. QED
    BY <1>5, <2>1, RaiseSorts DEF DrainOne
<1>6. ASSUME ReturnClear PROVE RunnableSorted'
  BY <1>0, <1>6, ClearSorts DEF ReturnClear
<1>7. ASSUME ReturnNone PROVE RunnableSorted'
  <2>1. /\ pending_cnt > 0 /\ prio' = prio /\ pending_cnt' = pending_cnt
        /\ subs_events' = MoveUp(subs_events, 0, GroupEnd - 1)
    BY <1>7 DEF ReturnNone
  <2>. DEFINE g == GroupEnd - 1
  <2>2. /\ g \in 0 .. (pending_cnt - 1)
        /\ \A h \in 1 .. g : prio[subs_events[h]] = prio[subs_events[0]]
    BY <2>1, <1>0, GroupEndIs
  <2>. HIDE DEF g
  <2>3. g \in Idx /\ g < pending_cnt
    BY <2>2, <1>0 DEF Idx
  <2>4. /\ subs_events'[g] = subs_events[0]
        /\ \A k \in Idx : k > g => subs_events'[k] = subs_events[k]
        /\ \A k \in Idx : k < g => subs_events'[k] = subs_events[k + 1]
    <3>1. Perm(subs_events) /\ 0 <= g
      BY <2>2 DEF Perm
    <3>2. /\ MoveUp(subs_events, 0, g)[g] = subs_events[0]
          /\ \A k \in Idx : (k < 0 \/ k > g) => MoveUp(subs_events, 0, g)[k] = subs_events[k]
          /\ \A k \in Idx : 0 <= k /\ k < g => MoveUp(subs_events, 0, g)[k] = subs_events[k + 1]
      BY <3>1, <2>3, <1>0, MoveUpPermutes
    <3>. QED
      BY <3>2, <2>1 DEF g, Idx
  <2>5. \A k \in Idx : k <= g => prio[subs_events'[k]] = prio[subs_events[0]]
    <3>. SUFFICES ASSUME NEW k \in Idx, k <= g
                  PROVE  prio[subs_events'[k]] = prio[subs_events[0]]
      OBVIOUS
    <3>1. CASE k = g
      BY <3>1, <2>4
    <3>2. CASE k < g
      <4>1. k + 1 \in 1 .. g
        BY <3>2, <2>2 DEF Idx
      <4>. QED
        BY <4>1, <3>2, <2>4, <2>2
    <3>. QED
      BY <3>1, <3>2, <2>2 DEF Idx
  <2>6. \A k \in Idx : k <= g => prio[subs_events[k]] = prio[subs_events[0]]
    BY <2>2 DEF Idx
  <2>. SUFFICES ASSUME NEW i \in Idx, NEW j \in Idx, i <= j, j < pending_cnt
                PROVE  prio[subs_events'[i]] <= prio[subs_events'[j]]
    BY <2>1 DEF RunnableSorted
  <2>7. prio[subs_events'[i]] = prio[subs_events[i]] /\ prio[subs_events'[j]] = prio[subs_events[j]]
    BY <2>2, <2>4, <2>5, <2>6 DEF Idx
  <2>. QED
    BY <2>7 DEF RunnableSorted
<1>8. ASSUME UNCHANGED <<subs_events, pending_cnt, prio>> PROVE RunnableSorted'
  BY <1>8 DEF RunnableSorted
<1>9. CASE Client
  BY <1>1, <1>2, <1>3, <1>4, <1>8, <1>9 DEF Client, infra_evt_delete,
     infra_evt_set_callback, ClearISRScan, slots
<1>10. CASE ClearISR \/ Interrupt \/ UNCHANGED vars
  BY <1>8, <1>10 DEF ClearISR, ClearISRTest, ClearISRShift, ClearISRDecrement,
     Interrupt, infra_evts_abort, infra_evt_raise_ISR, slots, vars
<1>11. CASE Execute \/ Scheduler
  BY <1>5, <1>6, <1>7, <1>8, <1>11 DEF Execute, Scheduler, LoopTest, DrainDone,
     PickEvent, PickIdle, IdleReturn, slots
<1>. QED
  BY <1>9, <1>10, <1>11 DEF Next

\* The runnable slots are sorted by priority as long as nobody changes the
\* priority of a runnable event (event.c:53).
THEOREM StaysSorted == KeepsPriorities => (Spec => []RunnableSorted)
<1>. SUFFICES ASSUME KeepsPriorities PROVE Spec => []RunnableSorted
  OBVIOUS
<1>1. Init => RunnableSorted
  BY DEF Init, RunnableSorted, Idx
<1>2. StructInv /\ RunnableSorted /\ [Next]_vars => RunnableSorted'
  BY SortedStep
<1>3. Spec => []StructInv
  BY Structure DEF KeepsPriorities
<1>. QED
  BY <1>1, <1>2, <1>3, PTL DEF Spec

\* The scheduler then always selects a runnable event of the lowest priority
\* number (event.h:94).
THEOREM SelectsMostUrgent == KeepsPriorities => (Spec => SelectsLowest)
<1>. SUFFICES ASSUME KeepsPriorities PROVE Spec => SelectsLowest
  OBVIOUS
<1>1. StructInv /\ RunnableSorted /\ [Next]_vars
        => [PickEvent => \A f \in Runnable : prio[running'] <= prio[f]]_vars
  <2>. SUFFICES ASSUME RunnableSorted, PickEvent, NEW f \in Runnable
                PROVE  prio[running'] <= prio[f]
    OBVIOUS
  <2>1. PICK i \in Idx : i < pending_cnt /\ subs_events[i] = f
    BY SlotSets, FirstsIs
  <2>2. 0 \in Idx /\ 0 <= i /\ running' = subs_events[0]
    BY <2>1, MaxAssumption DEF MaxAssumption, Idx, PickEvent
  <2>. QED
    BY <2>1, <2>2 DEF RunnableSorted
<1>2. Spec => []StructInv /\ []RunnableSorted
  BY Structure, StaysSorted DEF KeepsPriorities
<1>. QED
  BY <1>1, <1>2, PTL DEF Spec, SelectsLowest

-----------------------------------------------------------------------------
(* How a raised event can be lost.                                         *)

\* A step that touches neither the buffer nor the clear of it.
LEMMA OwedElsewhere ==
  ASSUME OwedInv, UNCHANGED <<raised_ISR, clr>>,
         owed' \subseteq Waiting' \cup risked',
         clr.at # "none" => UNCHANGED <<owed, risked, running>> /\ Runnable' = Runnable
  PROVE  OwedInv'
BY DEF OwedInv, NextUp

LEMMA OwedOfRaiseISR ==
  ASSUME StructInv, OwedInv, NEW e \in Evt, infra_evt_raise_ISR(e)
  PROVE  OwedInv'
<1>. DEFINE n == Len(raised_ISR)
<1>0. /\ raised_ISR \in Seq(Evt) /\ n \in Nat /\ DOMAIN raised_ISR = 1 .. n
      /\ n <= INFRA_EVT_MAX /\ INFRA_EVT_MAX \in Nat /\ clr.h \in Nat
  BY LenProperties, MaxAssumption DEF StructInv, TypeOK, MaxAssumption
<1>1. /\ clr' = clr /\ running' = running /\ Runnable' = Runnable /\ NextUp' = NextUp
      /\ owed' \subseteq owed \cup {e} /\ risked \subseteq risked'
      /\ clr.at # "none" => e \in risked' \cup NextUp
      /\ n = INFRA_EVT_MAX => e \in Posted \cup risked' \cup NextUp
  BY SetsUnchanged DEF infra_evt_raise_ISR, NextUp
<1>2. CASE n < INFRA_EVT_MAX
  <2>1. raised_ISR' = Append(raised_ISR, e)
    BY <1>2 DEF infra_evt_raise_ISR
  <2>2. /\ Len(raised_ISR') = n + 1 /\ raised_ISR'[n + 1] = e
        /\ \A i \in 1 .. n : raised_ISR'[i] = raised_ISR[i]
    BY <1>0, <2>1, AppendProperties
  <2>3. Posted' = Posted \cup {e}
    BY <1>0, <2>1, PostedWithNew
  <2>4. owed' \subseteq Waiting' \cup risked'
    BY <1>1, <2>3 DEF OwedInv, Waiting, NextUp
  <2>. HIDE DEF n
  <2>5. ASSUME clr.at \in {"test", "shift"}
        PROVE  /\ clr.h <= n + 1
               /\ raised_ISR'[clr.h] \in {clr.evt} \cup risked' \cup NextUp
    <3>1. clr.h <= n + 1 /\ clr.h >= 1
      BY <2>5 DEF OwedInv, StructInv, n
    <3>2. CASE clr.h = n + 1
      BY <1>1, <2>2, <2>5, <3>1, <3>2
    <3>3. CASE clr.h <= n
      <4>1. raised_ISR[clr.h] \in {clr.evt} \cup risked \cup NextUp
        BY <2>5, <3>3 DEF OwedInv, n
      <4>2. raised_ISR'[clr.h] = raised_ISR[clr.h]
        BY <1>0, <2>2, <3>1, <3>3
      <4>. QED
        BY <1>1, <3>1, <4>1, <4>2
    <3>. QED
      BY <1>0, <3>1, <3>2, <3>3
  <2>6. ASSUME clr.at = "decrement"  PROVE Last(raised_ISR') \in risked' \cup NextUp'
    BY <1>1, <2>2, <2>6 DEF Last
  <2>7. clr'.at \in {"test", "shift"} =>
          /\ clr'.h <= Len(raised_ISR') + 1
          /\ clr'.h <= Len(raised_ISR')
               => raised_ISR'[clr'.h] \in {clr'.evt} \cup risked' \cup NextUp'
    BY <1>0, <1>1, <2>2, <2>5
  <2>. QED
    BY <1>1, <2>4, <2>6, <2>7 DEF OwedInv
<1>3. CASE ~(n < INFRA_EVT_MAX)
  <2>0. raised_ISR' = raised_ISR
    BY <1>3 DEF infra_evt_raise_ISR
  <2>a. n = INFRA_EVT_MAX
    <3>. HIDE DEF n
    <3>. QED
      BY <1>0, <1>3
  <2>1. raised_ISR' = raised_ISR /\ Posted' = Posted /\ n = INFRA_EVT_MAX
    BY <2>0, <2>a, SetsUnchanged
  <2>2. owed' \subseteq Waiting' \cup risked'
    BY <1>1, <2>1 DEF OwedInv, Waiting, NextUp
  <2>3. ASSUME clr.at = "decrement", Last(raised_ISR) \in owed'
        PROVE  Last(raised_ISR) \in risked' \cup NextUp
                  \cup {raised_ISR[i] : i \in 1 .. (n - 1)}
    BY <1>1, <2>3 DEF OwedInv
  <2>4. ASSUME clr.at \in {"test", "shift"}
        PROVE  /\ clr.h <= n + 1
               /\ clr.h <= n => raised_ISR[clr.h] \in {clr.evt} \cup risked' \cup NextUp
    BY <1>1, <2>4 DEF OwedInv
  <2>. QED
    BY <1>1, <2>1, <2>2, <2>3, <2>4 DEF OwedInv
<1>. QED
  BY <1>2, <1>3

LEMMA OwedOfScan ==
  ASSUME StructInv, OwedInv, NEW e \in Evt, ClearISRScan(e)
  PROVE  OwedInv'
<1>. DEFINE n == Len(raised_ISR)
            S == {i \in 1 .. (n + 1) : i = n + 1 \/ raised_ISR[i] = e}
            h == LeastOf(S)
<1>0. n \in Nat
  BY LenProperties DEF StructInv, TypeOK
<1>1. h \in S
  <2>1. S \in SUBSET Nat /\ n + 1 \in S
    BY <1>0
  <2>. HIDE DEF S
  <2>. QED
    BY <2>1, LeastOfIsLeast
<1>2. h <= n + 1 /\ (h <= n => raised_ISR[h] = e)
  BY <1>0, <1>1
<1>3. clr' = [at |-> "test", evt |-> e, h |-> h]
  BY DEF ClearISRScan
<1>. HIDE DEF h, S
<1>4. /\ UNCHANGED <<raised_ISR, owed, risked, running>> /\ Runnable' = Runnable
      /\ Posted' = Posted
  BY SetsUnchanged DEF ClearISRScan
<1>. QED
  BY <1>2, <1>3, <1>4 DEF OwedInv, Waiting

\* What is left in the buffer when the entries behind clr.h have moved up.
LEMMA ShiftedBuffer ==
  ASSUME StructInv, ClearISRShift
  PROVE  LET n == Len(raised_ISR)
         IN  /\ n \in Nat /\ n >= 1 /\ clr.h \in 1 .. n /\ DOMAIN raised_ISR = 1 .. n
             /\ DOMAIN raised_ISR' = 1 .. n /\ Len(raised_ISR') = n
             /\ \A i \in 1 .. n : i < clr.h \/ i = n => raised_ISR'[i] = raised_ISR[i]
             /\ \A i \in 1 .. n : clr.h <= i /\ i < n => raised_ISR'[i] = raised_ISR[i + 1]
             /\ {raised_ISR[i] : i \in DOMAIN raised_ISR \ {clr.h}} \subseteq Posted'
             /\ Posted \subseteq Posted' \cup {raised_ISR[clr.h]}
             /\ Posted' \subseteq Posted
<1>. DEFINE n == Len(raised_ISR)
<1>1. n \in Nat /\ clr.h \in 1 .. n /\ DOMAIN raised_ISR = 1 .. n
  <2>1. n \in Nat /\ DOMAIN raised_ISR = 1 .. n
    BY LenProperties DEF StructInv, TypeOK
  <2>2. clr.h \in Nat /\ clr.h >= 1 /\ clr.h <= n
    BY DEF StructInv, TypeOK, ClearISRShift
  <2>. QED
    BY <2>1, <2>2
<1>2. raised_ISR' \in Seq(Evt)
  <2>1. \A i \in 1 .. n : raised_ISR[i] \in Evt
    BY <1>1, ElementOfSeq DEF StructInv, TypeOK
  <2>2. raised_ISR' \in [1 .. n -> Evt]
    BY <1>1, <2>1 DEF ClearISRShift
  <2>. QED
    BY <1>1, <2>2, SeqDef
<1>3. /\ DOMAIN raised_ISR' = 1 .. n
      /\ \A i \in 1 .. n : raised_ISR'[i] = IF i < clr.h \/ i = n THEN raised_ISR[i]
                                            ELSE raised_ISR[i + 1]
  BY <1>1 DEF ClearISRShift
<1>4. Len(raised_ISR') = n
  <2>1. Len(raised_ISR') \in Nat /\ DOMAIN raised_ISR' = 1 .. Len(raised_ISR')
    BY <1>2, LenProperties
  <2>. DEFINE m == Len(raised_ISR')
  <2>. HIDE DEF m, n
  <2>2. m \in Nat /\ 1 .. m = 1 .. n
    BY <1>3, <2>1 DEF m
  <2>3. m = n
    BY <1>1, <2>2
  <2>. QED
    BY <2>3 DEF m
<1>. HIDE DEF n
<1>5. ASSUME NEW i \in 1 .. n, i # clr.h  PROVE raised_ISR[i] \in Posted'
  <2>1. CASE i < clr.h \/ i = n
    BY <1>1, <1>3, <1>5, <2>1 DEF Posted
  <2>2. CASE clr.h < i /\ i < n
    <3>1. i - 1 \in 1 .. n /\ ~(i - 1 < clr.h) /\ i - 1 # n /\ (i - 1) + 1 = i
      BY <1>1, <2>2
    <3>2. raised_ISR'[i - 1] = raised_ISR[i]
      BY <1>3, <3>1
    <3>. QED
      BY <1>3, <3>1, <3>2 DEF Posted
  <2>. QED
    BY <1>1, <1>5, <2>1, <2>2
<1>6. ASSUME NEW i \in 1 .. n  PROVE raised_ISR'[i] \in Posted
  BY <1>1, <1>3 DEF Posted
<1>7. n >= 1
  BY <1>1
<1>8. /\ {raised_ISR[i] : i \in DOMAIN raised_ISR \ {clr.h}} \subseteq Posted'
      /\ Posted \subseteq Posted' \cup {raised_ISR[clr.h]}
  BY <1>1, <1>5 DEF Posted
<1>9. Posted' \subseteq Posted
  BY <1>3, <1>6 DEF Posted
<1>10. /\ \A i \in 1 .. n : i < clr.h \/ i = n => raised_ISR'[i] = raised_ISR[i]
       /\ \A i \in 1 .. n : clr.h <= i /\ i < n => raised_ISR'[i] = raised_ISR[i + 1]
  BY <1>1, <1>3
<1>. QED
  BY <1>1, <1>3, <1>4, <1>7, <1>8, <1>9, <1>10 DEF n

LEMMA OwedOfShift ==
  ASSUME StructInv, OwedInv, ClearISRShift
  PROVE  OwedInv'
<1>. DEFINE n == Len(raised_ISR)
            x == raised_ISR[clr.h]
            others == {raised_ISR[i] : i \in DOMAIN raised_ISR \ {clr.h}}
<1>1. /\ n \in Nat /\ n >= 1 /\ clr.h \in 1 .. n /\ DOMAIN raised_ISR = 1 .. n
      /\ Len(raised_ISR') = n
      /\ \A i \in 1 .. n : i < clr.h \/ i = n => raised_ISR'[i] = raised_ISR[i]
      /\ \A i \in 1 .. n : clr.h <= i /\ i < n => raised_ISR'[i] = raised_ISR[i + 1]
      /\ others \subseteq Posted' /\ Posted \subseteq Posted' \cup {x}
  BY ShiftedBuffer
<1>. HIDE DEF n, others
<1>2. /\ clr.at = "shift" /\ clr'.at = "decrement"
      /\ owed' = owed \ ({clr.evt} \ (others \cup NextUp))
      /\ risked' = risked /\ running' = running /\ Runnable' = Runnable /\ NextUp' = NextUp
  BY SetsUnchanged, NoClearIs DEF ClearISRShift, NextUp, others
<1>3. x \in {clr.evt} \cup risked \cup NextUp
  <2>1. clr.h <= Len(raised_ISR)
    <3>1. clr.h <= n
      BY <1>1
    <3>. QED
      BY <3>1 DEF n
  <2>. QED
    BY <1>2, <2>1 DEF OwedInv
<1>. HIDE DEF x
<1>4. x \in owed' => x \in others \cup NextUp \cup risked
  BY <1>2, <1>3
<1>5. owed' \subseteq Waiting' \cup risked'
  BY <1>1, <1>2, <1>4 DEF OwedInv, Waiting, NextUp
<1>6. Last(raised_ISR') = raised_ISR[n]
  BY <1>1 DEF Last
<1>7. ASSUME raised_ISR[n] \in owed'
      PROVE  raised_ISR[n] \in risked' \cup NextUp' \cup {raised_ISR'[i] : i \in 1 .. (n - 1)}
  <2>1. CASE clr.h = n
    <3>1. CASE x \in others
      <4>1. PICK i \in 1 .. (n - 1) : x = raised_ISR[i]
        BY <1>1, <2>1, <3>1 DEF others
      <4>2. raised_ISR'[i] = raised_ISR[i]
        BY <1>1, <2>1, <4>1
      <4>. QED
        BY <2>1, <4>1, <4>2 DEF x
    <3>. QED
      BY <1>2, <1>4, <1>7, <2>1, <3>1 DEF x
  <2>2. CASE clr.h < n
    <3>1. n - 1 \in 1 .. (n - 1) /\ n - 1 \in 1 .. n /\ clr.h <= n - 1 /\ n - 1 < n /\ (n - 1) + 1 = n
      BY <1>1, <2>2
    <3>2. raised_ISR'[n - 1] = raised_ISR[n]
      BY <1>1, <3>1
    <3>. QED
      BY <3>1, <3>2
  <2>. QED
    BY <1>1, <2>1, <2>2
<1>. QED
  BY <1>1, <1>2, <1>5, <1>6, <1>7 DEF OwedInv

LEMMA OwedOfDecrement ==
  ASSUME StructInv, OwedInv, ClearISRDecrement
  PROVE  OwedInv'
<1>. DEFINE n == Len(raised_ISR)
            x == Last(raised_ISR)
<1>0. raised_ISR \in Seq(Evt) /\ raised_ISR # <<>> /\ n \in Nat
  BY EmptySeq, LenProperties DEF StructInv, TypeOK, ClearISRDecrement
<1>1. Posted \subseteq Posted' \cup {x} /\ Len(raised_ISR') = n - 1
  BY <1>0, PostedWithoutLast DEF ClearISRDecrement
<1>2. {raised_ISR[i] : i \in 1 .. (n - 1)} \subseteq Posted'
  <2>1. /\ \A i \in 1 .. (n - 1) : raised_ISR'[i] = raised_ISR[i]
        /\ DOMAIN raised_ISR' = 1 .. (n - 1)
    <3>1. raised_ISR' \in Seq(Evt)
      BY <1>0, PostedWithoutLast DEF ClearISRDecrement
    <3>. QED
      BY <1>0, <1>1, <3>1, FrontAndLast, LenProperties DEF ClearISRDecrement
  <2>. QED
    BY <2>1 DEF Posted
<1>3. /\ clr.at = "decrement" /\ clr'.at = "none" /\ Runnable' = Runnable
      /\ owed' = owed /\ risked' = risked /\ running' = running
  BY SetsUnchanged, NoClearIs DEF ClearISRDecrement
<1>4. x \in owed => x \in risked \cup NextUp \cup Posted'
  BY <1>2, <1>3 DEF OwedInv
<1>. HIDE DEF x, n
<1>. QED
  BY <1>1, <1>3, <1>4 DEF OwedInv, Waiting, NextUp

LEMMA OwedStep ==
  PolitelyRaised /\ StructInv /\ RunningIsFirst /\ OwedInv /\ [Next]_vars => OwedInv'
<1>. SUFFICES ASSUME PolitelyRaised, StructInv, RunningIsFirst, OwedInv, [Next]_vars
              PROVE  OwedInv'
  OBVIOUS
<1>0. TypeOK /\ created_cnt < INFRA_EVT_MAX /\ Posted \subseteq Created
  BY DEF StructInv
<1>a. NoEvt \notin Runnable
  BY <1>0, MaxAssumption DEF MaxAssumption, Runnable, TypeOK, NoEvt, Evt, Idx
<1>1. ASSUME NEW e \in Evt, infra_evt_raise(e)  PROVE OwedInv'
  <2>1. e \in Created /\ RaiseSlots(e)
    BY <1>1 DEF infra_evt_raise, PolitelyRaised, InBounds, Known
  <2>2. Runnable' = Runnable \cup {e}
    BY <2>1, <1>0, RaiseSlotsAdds
  <2>3. /\ owed' = owed \cup (({e} \cap Created) \ {running})
        /\ risked' = risked \ ({e} \ {running})
        /\ running' = running /\ Posted' = Posted /\ clr.at = "none"
        /\ UNCHANGED <<raised_ISR, clr>>
    BY <1>1, SetsUnchanged DEF infra_evt_raise, InClient
  <2>4. owed' \subseteq Waiting' \cup risked'
    BY <2>2, <2>3 DEF OwedInv, Waiting
  <2>. QED
    BY <2>3, <2>4, OwedElsewhere
<1>2. ASSUME NEW e \in Evt, infra_evt_clear(e)  PROVE OwedInv'
  <2>1. PICK h \in Idx : h < pending_cnt /\ subs_events[h] = e /\ subs_clear_pending(h)
    BY <1>2 DEF infra_evt_clear
  <2>2. Runnable' = Runnable \ {e}
    BY <2>1, <1>0, ClearSlots
  <2>3. /\ owed' = owed \ ({e} \ Posted) /\ risked' = risked
        /\ running' = running /\ Posted' = Posted /\ clr.at = "none"
        /\ UNCHANGED <<raised_ISR, clr>>
    BY <1>2, SetsUnchanged DEF infra_evt_clear, InClient
  <2>4. owed' \subseteq Waiting' \cup risked'
    BY <2>2, <2>3 DEF OwedInv, Waiting
  <2>. QED
    BY <2>3, <2>4, OwedElsewhere
<1>4. ASSUME DrainOne  PROVE OwedInv'
  <2>. DEFINE e == Last(raised_ISR)
  <2>1. /\ Posted \subseteq Posted' \cup {e} /\ e \in Posted
    BY <1>4, <1>0, PostedWithoutLast DEF DrainOne, TypeOK
  <2>2. e \in Created /\ RaiseSlots(e)
    BY <2>1, <1>4, <1>0 DEF DrainOne
  <2>0. risked' = risked \ {e}
    BY <1>4 DEF DrainOne
  <2>. HIDE DEF e
  <2>3. Runnable' = Runnable \cup {e}
    BY <2>2, <1>0, RaiseSlotsAdds
  <2>4. /\ running = NoEvt /\ running' = running /\ owed' = owed /\ clr' = clr
        /\ clr.at = "none"
    BY <1>4 DEF DrainOne, StructInv
  <2>5. e # NoEvt
    BY <2>2, <1>0, MaxAssumption DEF MaxAssumption, Created, TypeOK, NoEvt, Evt, Idx
  <2>. QED
    BY <2>0, <2>1, <2>3, <2>4, <2>5 DEF OwedInv, Waiting
<1>5. ASSUME PickEvent  PROVE OwedInv'
  <2>1. /\ owed' = owed \ ({running'} \ Posted) /\ risked' = risked \ {running'}
        /\ Runnable' = Runnable /\ Posted' = Posted /\ running = NoEvt
        /\ clr.at = "none" /\ UNCHANGED <<raised_ISR, clr>>
    BY <1>5, SetsUnchanged DEF PickEvent, StructInv
  <2>2. owed' \subseteq Waiting' \cup risked'
    BY <2>1 DEF OwedInv, Waiting
  <2>. QED
    BY <2>1, <2>2, OwedElsewhere
<1>6. ASSUME ReturnNone  PROVE OwedInv'
  <2>1. Runnable' = Runnable
    BY <1>6, <1>0, ReturnNoneKeeps DEF StructInv
  <2>2. /\ owed' = owed \cup {running} /\ Posted' = Posted /\ running' = NoEvt
        /\ risked' = risked /\ clr.at = "none" /\ UNCHANGED <<raised_ISR, clr>>
    BY <1>6, SetsUnchanged DEF ReturnNone
  <2>3. running \in Runnable
    <3>1. 0 \in Idx /\ 0 < pending_cnt /\ running = subs_events[0]
      BY <1>6, MaxAssumption DEF ReturnNone, RunningIsFirst, MaxAssumption, Idx
    <3>. QED
      BY <3>1 DEF Runnable
  <2>4. owed' \subseteq Waiting' \cup risked'
    BY <1>a, <2>1, <2>2, <2>3 DEF OwedInv, Waiting
  <2>. QED
    BY <2>2, <2>4, OwedElsewhere
<1>7. ASSUME ReturnClear  PROVE OwedInv'
  <2>1. Runnable' = Runnable \ {running}
    BY <1>7, ClearTakesRunning
  <2>2. /\ owed' = owed /\ Posted' = Posted /\ running' = NoEvt
        /\ risked' = risked /\ clr.at = "none" /\ UNCHANGED <<raised_ISR, clr>>
    BY <1>7, SetsUnchanged DEF ReturnClear
  <2>3. owed' \subseteq Waiting' \cup risked'
    BY <1>a, <2>1, <2>2 DEF OwedInv, Waiting
  <2>. QED
    BY <2>2, <2>3, OwedElsewhere
<1>8. ASSUME UNCHANGED <<slots, raised_ISR, running, clr, owed, risked>>  PROVE OwedInv'
  BY <1>8, SetsUnchanged DEF OwedInv, Waiting, NextUp
<1>9. ASSUME infra_evt_create  PROVE OwedInv'
  BY <1>9 DEF infra_evt_create, OwedInv, Waiting, NextUp, Runnable, Posted
<1>b. ASSUME ClearISRTest  PROVE OwedInv'
  <2>1. UNCHANGED <<slots, raised_ISR, running, owed, risked>>
    BY <1>b DEF ClearISRTest
  <2>2. \/ clr'.at = "none"
        \/ clr'.at = "shift" /\ clr'.h = clr.h /\ clr'.evt = clr.evt
    BY <1>b, <1>0, NoClearIs DEF ClearISRTest, TypeOK
  <2>3. Waiting' = Waiting /\ NextUp' = NextUp /\ clr.at = "test"
    BY <1>b, <2>1, SetsUnchanged DEF Waiting, NextUp, ClearISRTest
  <2>. QED
    BY <2>1, <2>2, <2>3 DEF OwedInv
<1>10. CASE Client
  BY <1>1, <1>2, <1>8, <1>9, <1>10, OwedOfScan DEF Client, infra_evt_delete,
     infra_evt_set_priority, infra_evt_set_callback
<1>11. CASE ClearISR \/ Interrupt \/ UNCHANGED vars
  BY <1>8, <1>11, <1>b, OwedOfShift, OwedOfDecrement, OwedOfRaiseISR
     DEF ClearISR, Interrupt, infra_evts_abort, vars, slots
<1>12. CASE Execute \/ Scheduler
  BY <1>4, <1>5, <1>6, <1>7, <1>8, <1>12 DEF Execute, Scheduler, LoopTest,
     DrainDone, PickIdle, IdleReturn
<1>. QED
  BY <1>10, <1>11, <1>12 DEF Next

\* Without a full buffer and without an interrupt in the middle of the unlocked
\* clear, an owed event waits: in the slots behind the running one, or in the
\* interrupt buffer (event.h:51-53, event.c:151, 176-199).
THEOREM OnlyTwoWaysToLose == PolitelyRaised => (Spec => []LostOnlyAtRisk)
<1>. SUFFICES ASSUME PolitelyRaised PROVE Spec => []LostOnlyAtRisk
  OBVIOUS
<1>1. Init => OwedInv
  BY NoClearIs DEF Init, OwedInv
<1>2. StructInv /\ RunningIsFirst /\ OwedInv /\ [Next]_vars => OwedInv'
  BY OwedStep
<1>3. OwedInv => LostOnlyAtRisk
  BY DEF OwedInv, LostOnlyAtRisk
<1>4. Spec => []StructInv /\ []RunningIsFirst
  BY Structure, RunningStaysFirst DEF PolitelyRaised
<1>. QED
  BY <1>1, <1>2, <1>3, <1>4, PTL DEF Spec

-----------------------------------------------------------------------------
(* The array of slots implements the order-free scheduler of EventAbs.     *)

LEMMA InitRefines == Init => Abs!Init
<1>. SUFFICES ASSUME Init PROVE Abs!Init
  OBVIOUS
<1>1. Runnable = {} /\ Created = {}
  BY DEF Init, Runnable, Created, Idx
<1>2. Posted = {}
  BY DEF Init, Posted
<1>. QED
  BY <1>1, <1>2 DEF Init, Abs!Init

LEMMA StepRefines ==
  PolitelyRaised /\ KeepsPriorities /\ StructInv /\ RunningIsFirst
    /\ RunnableSorted /\ [Next]_vars => [Abs!Next]_(Abs!vars)
<1>. SUFFICES ASSUME PolitelyRaised, KeepsPriorities, StructInv, RunningIsFirst,
                     RunnableSorted, [Next]_vars
              PROVE  [Abs!Next]_(Abs!vars)
  OBVIOUS
<1>0. TypeOK /\ created_cnt < INFRA_EVT_MAX /\ Posted \subseteq Created
  BY DEF StructInv
<1>a. Created \subseteq Evt /\ Runnable \subseteq Created /\ NoEvt \notin Evt /\ 0 \in Idx
  <2>1. /\ subs_events \in [Idx -> Evt] /\ pending_cnt \in Nat /\ created_cnt \in Nat
        /\ pending_cnt <= created_cnt
    BY <1>0, MaxAssumption DEF TypeOK, MaxAssumption
  <2>2. NoEvt \notin Evt /\ 0 \in Idx
    BY MaxAssumption DEF MaxAssumption, NoEvt, Evt, Idx
  <2>3. \A i \in Idx : i < pending_cnt => i < created_cnt
    BY <2>1 DEF Idx
  <2>. QED
    BY <2>1, <2>2, <2>3 DEF Created, Runnable
<1>1. ASSUME infra_evt_create  PROVE [Abs!Next]_(Abs!vars)
  <2>. DEFINE e == subs_events[created_cnt]
  <2>1. created_cnt \in Idx /\ e \in Evt
    BY <1>0, <1>1, MaxAssumption DEF infra_evt_create, TypeOK, Idx, MaxAssumption
  <2>2. e \notin Created
    <3>. SUFFICES ASSUME NEW i \in Idx, i < created_cnt, subs_events[i] = e PROVE FALSE
      BY DEF Created
    <3>1. i = created_cnt
      BY <2>1, <1>0 DEF TypeOK
    <3>. QED
      BY <3>1, <2>1 DEF Idx
  <2>3. Created' = Created \cup {e}
    <3>1. subs_events' = subs_events /\ created_cnt' = created_cnt + 1
      BY <1>1 DEF infra_evt_create
    <3>2. \A i \in Idx : i < created_cnt + 1 <=> (i < created_cnt \/ i = created_cnt)
      BY <2>1 DEF Idx
    <3>3. ASSUME NEW x  PROVE x \in Created' <=> x \in Created \cup {e}
      BY <3>1, <3>2, <2>1 DEF Created
    <3>. QED
      BY <3>3
  <2>4. /\ Runnable' = Runnable /\ Posted' = Posted /\ running' = running
        /\ prio' = [prio EXCEPT ![e] = PRIO_DEFAULT]
    BY <1>1 DEF infra_evt_create, Runnable, Posted
  <2>. HIDE DEF e
  <2>5. Abs!Create(e)
    BY <2>2, <2>3, <2>4 DEF Abs!Create
  <2>. QED
    BY <2>1, <2>5 DEF Abs!Next
<1>2. ASSUME NEW e \in Evt, infra_evt_raise(e)  PROVE [Abs!Next]_(Abs!vars)
  <2>1. e \in Created /\ RaiseSlots(e)
    BY <1>2 DEF infra_evt_raise, PolitelyRaised, InBounds, Known
  <2>2. Runnable' = Runnable \cup {e} /\ Created' = Created
    BY <2>1, <1>0, RaiseSlotsAdds
  <2>3. Posted' = Posted /\ running' = running /\ prio' = prio
    BY <1>2, SetsUnchanged DEF infra_evt_raise
  <2>4. Abs!Raise(e)
    BY <2>1, <2>2, <2>3 DEF Abs!Raise
  <2>. QED
    BY <2>4 DEF Abs!Next
<1>3. ASSUME NEW e \in Evt, infra_evt_clear(e)  PROVE [Abs!Next]_(Abs!vars)
  <2>1. PICK h \in Idx : /\ h < pending_cnt /\ subs_events[h] = e
                         /\ h # 0 \/ ~executing
                         /\ subs_clear_pending(h)
    BY <1>3 DEF infra_evt_clear
  <2>2. Runnable' = Runnable \ {e} /\ Created' = Created
    BY <2>1, <1>0, ClearSlots
  <2>3. Posted' = Posted /\ running' = running /\ prio' = prio
    BY <1>3, SetsUnchanged DEF infra_evt_clear
  <2>4. e \in Runnable
    BY <2>1 DEF Runnable
  <2>5. e # running
    <3>1. CASE pc = "callback"
      <4>1. subs_events[0] = running /\ h # 0
        BY <3>1, <2>1 DEF RunningIsFirst, StructInv
      <4>. QED
        BY <4>1, <2>1, <1>a, <1>0 DEF TypeOK
    <3>2. CASE pc # "callback"
      BY <3>2, <2>4, <1>a DEF StructInv
    <3>. QED
      BY <3>1, <3>2
  <2>6. Abs!Clear(e)
    BY <2>2, <2>3, <2>4, <2>5 DEF Abs!Clear
  <2>. QED
    BY <2>6 DEF Abs!Next
<1>4. ASSUME NEW e \in Evt, NEW p \in Prios, infra_evt_set_priority(e, p)
      PROVE  [Abs!Next]_(Abs!vars)
  <2>1. e \in Created /\ prio' = [prio EXCEPT ![e] = p] /\ running' = running
    BY <1>4 DEF infra_evt_set_priority, Known
  <2>2. Runnable' = Runnable /\ Created' = Created /\ Posted' = Posted
    BY <1>4, SetsUnchanged DEF infra_evt_set_priority
  <2>3. Abs!SetPriority(e, p)
    BY <2>1, <2>2 DEF Abs!SetPriority
  <2>. QED
    BY <2>3 DEF Abs!Next
<1>5. ASSUME NEW e \in Evt, infra_evt_raise_ISR(e)  PROVE [Abs!Next]_(Abs!vars)
  <2>1. e \in Created
    BY <1>5 DEF infra_evt_raise_ISR, PolitelyRaised, InBounds, Known
  <2>2. Runnable' = Runnable /\ Created' = Created /\ running' = running /\ prio' = prio
    BY <1>5, SetsUnchanged DEF infra_evt_raise_ISR
  <2>3. CASE Len(raised_ISR) < INFRA_EVT_MAX
    <3>1. Posted' = Posted \cup {e}
      BY <1>5, <1>0, <2>3, PostedWithNew DEF infra_evt_raise_ISR, TypeOK
    <3>2. Abs!Post(e)
      BY <2>1, <2>2, <3>1 DEF Abs!Post
    <3>. QED
      BY <3>2 DEF Abs!Next
  <2>4. CASE ~(Len(raised_ISR) < INFRA_EVT_MAX)
    BY <1>5, <2>2, <2>4, SetsUnchanged DEF infra_evt_raise_ISR, Abs!vars
  <2>. QED
    BY <2>3, <2>4
<1>6. ASSUME DrainOne  PROVE [Abs!Next]_(Abs!vars)
  <2>. DEFINE e == Last(raised_ISR)
  <2>1. Posted' \subseteq Posted /\ Posted \subseteq Posted' \cup {e} /\ e \in Posted
    BY <1>6, <1>0, PostedWithoutLast DEF DrainOne, TypeOK
  <2>2. e \in Created /\ RaiseSlots(e) /\ running = NoEvt /\ running' = running /\ prio' = prio
    BY <2>1, <1>6, <1>0 DEF DrainOne, StructInv
  <2>. HIDE DEF e
  <2>3. Runnable' = Runnable \cup {e} /\ Created' = Created
    BY <2>2, <1>0, RaiseSlotsAdds
  <2>4. Posted' \in {Posted, Posted \ {e}}
    BY <2>1
  <2>5. Abs!Admit(e)
    BY <2>1, <2>2, <2>3, <2>4 DEF Abs!Admit
  <2>. QED
    BY <2>2, <2>5, <1>a DEF Abs!Next
<1>7. ASSUME PickEvent  PROVE [Abs!Next]_(Abs!vars)
  <2>. DEFINE e == subs_events[0]
  <2>1. e \in Runnable /\ running' = e /\ running = NoEvt /\ prio' = prio
    BY <1>7, <1>a DEF PickEvent, Runnable, StructInv
  <2>2. Runnable' = Runnable /\ Created' = Created /\ Posted' = Posted
    BY <1>7, SetsUnchanged DEF PickEvent
  <2>3. ASSUME NEW f \in Runnable  PROVE prio[e] <= prio[f]
    <3>1. PICK i \in Idx : i < pending_cnt /\ subs_events[i] = f
      BY DEF Runnable
    <3>2. 0 <= i
      BY DEF Idx
    <3>. QED
      BY <3>1, <3>2, <1>a DEF RunnableSorted
  <2>. HIDE DEF e
  <2>4. Abs!Select(e)
    BY <2>1, <2>2, <2>3 DEF Abs!Select
  <2>. QED
    BY <2>1, <2>4, <1>a DEF Abs!Next
<1>8. ASSUME ReturnNone  PROVE [Abs!Next]_(Abs!vars)
  <2>1. Runnable' = Runnable
    BY <1>8, <1>0, ReturnNoneKeeps DEF StructInv
  <2>2. Created' = Created
    BY <1>8, <1>0, ReturnNoneKeeps DEF StructInv
  <2>3. Posted' = Posted /\ running' = NoEvt /\ prio' = prio /\ running # NoEvt
    BY <1>8, <1>a, SetsUnchanged DEF ReturnNone, StructInv
  <2>4. Abs!Return
    BY <2>1, <2>2, <2>3 DEF Abs!Return
  <2>. QED
    BY <2>4 DEF Abs!Next
<1>9. ASSUME ReturnClear  PROVE [Abs!Next]_(Abs!vars)
  <2>1. Runnable' = Runnable \ {running}
    BY <1>9, ClearTakesRunning
  <2>2. Created' = Created
    <3>1. 0 \in Idx /\ 0 < pending_cnt /\ subs_clear_pending(0)
      BY <1>9, <1>a DEF ReturnClear, RunningIsFirst
    <3>. QED
      BY <3>1, <1>0, ClearSlots
  <2>3. Posted' = Posted /\ running' = NoEvt /\ prio' = prio /\ running # NoEvt
    BY <1>9, <1>a, SetsUnchanged DEF ReturnClear, StructInv
  <2>4. Abs!Return
    BY <2>1, <2>2, <2>3 DEF Abs!Return
  <2>. QED
    BY <2>4 DEF Abs!Next
<1>10. ASSUME UNCHANGED <<slots, raised_ISR, running, prio>>  PROVE [Abs!Next]_(Abs!vars)
  BY <1>10, SetsUnchanged DEF Abs!vars
<1>b. ASSUME ClearISRShift \/ ClearISRDecrement, NEW x \in Posted,
             Posted' \subseteq Posted, Posted \subseteq Posted' \cup {x}
      PROVE  [Abs!Next]_(Abs!vars)
  <2>1. /\ "clear_isr" \in Usage /\ running' = running /\ prio' = prio
        /\ Runnable' = Runnable /\ Created' = Created
    BY <1>b, SetsUnchanged DEF ClearISRShift, ClearISRDecrement, StructInv
  <2>2. CASE Posted' = Posted
    BY <2>1, <2>2 DEF Abs!vars
  <2>3. CASE Posted' # Posted
    <3>1. Posted' = Posted \ {x}
      BY <1>b, <2>3
    <3>2. Abs!Withdraw(x)
      BY <2>1, <3>1 DEF Abs!Withdraw
    <3>3. x \in Evt
      BY <1>0, <1>a
    <3>. QED
      BY <3>2, <3>3 DEF Abs!Next
  <2>. QED
    BY <2>2, <2>3
<1>c. ASSUME ClearISRShift  PROVE [Abs!Next]_(Abs!vars)
  <2>. DEFINE x == raised_ISR[clr.h]
  <2>1. Posted' \subseteq Posted /\ Posted \subseteq Posted' \cup {x} /\ x \in Posted
    BY <1>c, ShiftedBuffer DEF Posted
  <2>. QED
    BY <1>b, <1>c, <2>1
<1>d. ASSUME ClearISRDecrement  PROVE [Abs!Next]_(Abs!vars)
  <2>1. raised_ISR # <<>> /\ raised_ISR' = Front(raised_ISR) /\ raised_ISR \in Seq(Evt)
    BY <1>0, <1>d, EmptySeq DEF ClearISRDecrement, StructInv, TypeOK
  <2>. QED
    BY <1>b, <1>d, <2>1, PostedWithoutLast
<1>11. CASE Client
  BY <1>1, <1>2, <1>3, <1>4, <1>10, <1>11 DEF Client, infra_evt_delete,
     infra_evt_set_callback, ClearISRScan
<1>12. CASE ClearISR \/ Interrupt \/ UNCHANGED vars
  BY <1>5, <1>10, <1>12, <1>c, <1>d DEF ClearISR, ClearISRTest, Interrupt,
     infra_evts_abort, vars, slots
<1>13. CASE Execute \/ Scheduler
  BY <1>6, <1>7, <1>8, <1>9, <1>10, <1>13 DEF Execute, Scheduler, LoopTest,
     DrainDone, PickIdle, IdleReturn
<1>. QED
  BY <1>11, <1>12, <1>13 DEF Next

\* The scheduler of event.c implements what event.h promises (EventAbs), the
\* drop of what an interrupt raises into a full buffer being a stuttering step.
THEOREM Implements == PolitelyRaised /\ KeepsPriorities => (Spec => ImplementsAbs)
<1>. SUFFICES ASSUME PolitelyRaised, KeepsPriorities PROVE Spec => Abs!Spec
  BY DEF ImplementsAbs
<1>1. Init => Abs!Init
  BY InitRefines
<1>2. StructInv /\ RunningIsFirst /\ RunnableSorted /\ [Next]_vars
        => [Abs!Next]_(Abs!vars)
  BY StepRefines
<1>3. Spec => []StructInv /\ []RunningIsFirst /\ []RunnableSorted
  BY Structure, RunningStaysFirst, StaysSorted DEF PolitelyRaised
<1>. QED
  BY <1>1, <1>2, <1>3, PTL DEF Spec, Abs!Spec
=============================================================================
