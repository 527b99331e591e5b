-------------------------- MODULE EpollLoopProofs --------------------------
(***************************************************************************)
(* Proofs about EpollLoop: what the kernel watches is what the active      *)
(* callbacks want, and no freed entry is followed, for any descriptors and *)
(* callbacks, any nesting of loops and any sequence of operations.         *)
(***************************************************************************)
EXTENDS EpollLoop, SequenceTheorems, FiniteSetTheorems, WellFoundedInduction,
        TLAPS

---------------------------------------------------------------------------
(* Lists.                                                                  *)

LEMMA ToSetIn ==
  ASSUME NEW S, NEW s \in Seq(S)
  PROVE  ToSet(s) \subseteq S /\ DOMAIN s = 1..Len(s) /\ Len(s) \in Nat
  BY LenProperties, ElementOfSeq DEF ToSet

LEMMA ToSetAppend ==
  ASSUME NEW S, NEW s \in Seq(S), NEW x \in S
  PROVE  /\ Append(s, x) \in Seq(S)
         /\ ToSet(Append(s, x)) = ToSet(s) \cup {x}
         /\ IsInjective(s) /\ x \notin ToSet(s) => IsInjective(Append(s, x))
  <1> DEFINE r == Append(s, x)
  <1>1. /\ r \in Seq(S) /\ Len(r) = Len(s) + 1
        /\ \A i \in 1..Len(s) : r[i] = s[i]
        /\ r[Len(s) + 1] = x
    BY AppendProperties
  <1>2. DOMAIN s = 1..Len(s) /\ DOMAIN r = 1..(Len(s) + 1) /\ Len(s) \in Nat
    BY <1>1, LenProperties
  <1> HIDE DEF r
  <1>3. ToSet(r) = ToSet(s) \cup {x}
    BY <1>1, <1>2 DEF ToSet
  <1>4. IsInjective(s) /\ x \notin ToSet(s) => IsInjective(r)
    BY <1>1, <1>2 DEF ToSet, IsInjective
  <1> QED
    BY <1>1, <1>3, <1>4 DEF r

LEMMA RemoveAtElements ==
  ASSUME NEW S, NEW s \in Seq(S), NEW i \in 1..Len(s)
  PROVE  /\ RemoveAt(s, i) \in Seq(S)
         /\ Len(RemoveAt(s, i)) = Len(s) - 1
         /\ \A j \in 1..(Len(s) - 1) :
               RemoveAt(s, i)[j] = IF j < i THEN s[j] ELSE s[j + 1]
  <1> DEFINE a == SubSeq(s, 1, i - 1)
             b == SubSeq(s, i + 1, Len(s))
  <1>0. Len(s) \in Nat /\ \A k \in 1..Len(s) : s[k] \in S
    BY LenProperties, ElementOfSeq
  <1>1. /\ a \in Seq(S) /\ Len(a) = i - 1
        /\ \A j \in 1..(i - 1) : a[j] = s[j]
    <2>1. \A k \in 1..(i - 1) : s[k] \in S
      BY <1>0
    <2> QED
      BY <1>0, <2>1, SubSeqProperties
  <1>2. /\ b \in Seq(S) /\ Len(b) = Len(s) - i
        /\ \A j \in 1..(Len(s) - i) : b[j] = s[i + j]
    <2>1. \A k \in (i + 1)..Len(s) : s[k] \in S
      BY <1>0
    <2> QED
      BY <1>0, <2>1, SubSeqProperties
  <1> HIDE DEF a, b
  <1>3. /\ a \o b \in Seq(S) /\ Len(a \o b) = Len(a) + Len(b)
        /\ \A j \in 1..(Len(a) + Len(b)) :
              (a \o b)[j] = IF j <= Len(a) THEN a[j] ELSE b[j - Len(a)]
    BY <1>1, <1>2, ConcatProperties
  <1>4. Len(a \o b) = Len(s) - 1
    BY <1>0, <1>1, <1>2, <1>3
  <1>5. ASSUME NEW j \in 1..(Len(s) - 1)
        PROVE  (a \o b)[j] = IF j < i THEN s[j] ELSE s[j + 1]
    <2>1. CASE j < i
      BY <1>0, <1>1, <1>2, <1>3, <2>1
    <2>2. CASE ~(j < i)
      <3>1. j - (i - 1) \in 1..(Len(s) - i) /\ i + (j - (i - 1)) = j + 1
        BY <1>0, <2>2
      <3>2. (a \o b)[j] = b[j - (i - 1)]
        BY <1>0, <1>1, <1>2, <1>3, <2>2
      <3> QED
        BY <1>2, <2>2, <3>1, <3>2
    <2> QED
      BY <2>1, <2>2
  <1> QED
    BY <1>3, <1>4, <1>5 DEF RemoveAt, a, b

LEMMA UnlinkElements ==
  ASSUME NEW S, NEW s \in Seq(S), NEW x
  PROVE  /\ Unlink(s, x) \in Seq(S)
         /\ ToSet(s) \ {x} \subseteq ToSet(Unlink(s, x))
         /\ ToSet(Unlink(s, x)) \subseteq ToSet(s)
         /\ IsInjective(s) => /\ IsInjective(Unlink(s, x))
                              /\ x \notin ToSet(Unlink(s, x))
  <1>1. CASE x \notin ToSet(s)
    BY <1>1 DEF Unlink
  <1>2. CASE x \in ToSet(s)
    <2> DEFINE i == CHOOSE k \in DOMAIN s : s[k] = x
               r == RemoveAt(s, i)
    <2>0. DOMAIN s = 1..Len(s) /\ Len(s) \in Nat
      BY LenProperties
    <2>1. i \in 1..Len(s) /\ s[i] = x
      BY <1>2, <2>0 DEF ToSet
    <2>2. Unlink(s, x) = r
      BY <1>2 DEF Unlink
    <2> HIDE DEF i, r
    <2>3. /\ r \in Seq(S) /\ Len(r) = Len(s) - 1
          /\ \A j \in 1..(Len(s) - 1) : r[j] = IF j < i THEN s[j] ELSE s[j + 1]
      BY <2>1, RemoveAtElements DEF r
    <2>4. DOMAIN r = 1..(Len(s) - 1)
      BY <2>3, LenProperties
    <2>5. ToSet(r) \subseteq ToSet(s)
      BY <2>0, <2>3, <2>4 DEF ToSet
    <2>6. ASSUME NEW y \in ToSet(s) \ {x} PROVE y \in ToSet(r)
      <3>1. PICK k \in 1..Len(s) : s[k] = y
        BY <2>0 DEF ToSet
      <3>2. k # i
        BY <2>1, <3>1
      <3>3. CASE k < i
        BY <2>0, <2>1, <2>3, <2>4, <3>1, <3>3 DEF ToSet
      <3>4. CASE k > i
        <4>1. k - 1 \in 1..(Len(s) - 1) /\ ~(k - 1 < i) /\ (k - 1) + 1 = k
          BY <2>0, <2>1, <3>4
        <4>2. r[k - 1] = y
          BY <2>3, <3>1, <4>1
        <4> QED
          BY <2>4, <4>1, <4>2 DEF ToSet
      <3> QED
        BY <2>0, <2>1, <3>2, <3>3, <3>4
    <2>7. ASSUME IsInjective(s) PROVE IsInjective(r) /\ x \notin ToSet(r)
      <3>1. \A j \in 1..(Len(s) - 1) : \E k \in 1..Len(s) :
               r[j] = s[k] /\ k # i /\ k = (IF j < i THEN j ELSE j + 1)
        BY <2>0, <2>1, <2>3
      <3>2. ASSUME NEW j \in 1..(Len(s) - 1) PROVE r[j] # x
        <4>1. PICK k \in 1..Len(s) : r[j] = s[k] /\ k # i
          BY <3>1
        <4> QED
          BY <2>0, <2>1, <2>7, <4>1 DEF IsInjective
      <3>3. ASSUME NEW j \in 1..(Len(s) - 1), NEW k \in 1..(Len(s) - 1), r[j] = r[k]
            PROVE  j = k
        <4> DEFINE Old(m) == IF m < i THEN m ELSE m + 1
        <4>1. Old(j) \in 1..Len(s) /\ Old(k) \in 1..Len(s)
          BY <2>0, <2>1
        <4>2. r[j] = s[Old(j)] /\ r[k] = s[Old(k)]
          BY <2>3
        <4> HIDE DEF Old
        <4>3. Old(j) = Old(k)
          BY <2>0, <2>7, <3>3, <4>1, <4>2 DEF IsInjective
        <4> QED
          BY <2>0, <2>1, <4>3 DEF Old
      <3> QED
        BY <2>4, <3>2, <3>3 DEF IsInjective, ToSet
    <2> QED
      BY <2>2, <2>3, <2>5, <2>6, <2>7
  <1> QED
    BY <1>1, <1>2

LEMMA SetToSeqElements ==
  ASSUME NEW S, IsFiniteSet(S)
  PROVE  SetToSeq(S) \in Seq(S) /\ ToSet(SetToSeq(S)) = S /\ IsInjective(SetToSeq(S))
  <1> DEFINE n == Cardinality(S)
             f == SetToSeq(S)
  <1>1. n \in Nat /\ ExistsBijection(1..n, S)
    BY FS_CardinalityType
  <1>2. PICK g \in Bijection(1..n, S) : TRUE
    BY <1>1 DEF ExistsBijection
  <1>3. g \in [1..n -> S] /\ IsInjective(g)
    BY <1>2 DEF Bijection, Injection, IsInjective
  <1>4. f \in [1..n -> S] /\ IsInjective(f)
    BY <1>3 DEF SetToSeq
  <1>5. f \in Injection(1..n, S)
    BY <1>4 DEF Injection, IsInjective
  <1>6. f \in Surjection(1..n, S)
    BY <1>1, <1>5, FS_Injection, FS_Interval
  <1>7. f \in Seq(S)
    BY <1>1, <1>4, SeqDef
  <1> QED
    BY <1>4, <1>6, <1>7 DEF ToSet, Surjection
---------------------------------------------------------------------------
(* The descriptors.                                                        *)

FdTypes ==
    /\ callbacks \in [Fds -> Seq(Cbs)]
    /\ active \in [Cbs -> BOOLEAN]
    /\ evloop \in [Fds -> BOOLEAN]
    /\ fds \in Seq(Fds)
    /\ fd_added \in [Fds -> BOOLEAN]
    /\ open \in [Fds -> BOOLEAN]
    /\ released \in [Fds -> BOOLEAN]
    /\ mask \in [Fds -> SUBSET EventKinds]
    /\ stop \in BOOLEAN

(* A callback is in the list of its own entry; one that was freed is       *)
(* empty and, like one without a loop, is not in the loop's list.          *)
Entries ==
    /\ \A f \in Fds : ToSet(callbacks[f]) \subseteq {c \in Cbs : FdOf[c] = f}
    /\ \A f \in Fds : released[f] => ToSet(callbacks[f]) = {}
    /\ \A f \in ToSet(fds) : evloop[f] /\ ~released[f]

FdInv == FdTypes /\ Entries /\ WatchedAsWanted

(* What crtx_epoll_manage_fd does for f, and that it leaves others alone.  *)
Managed(f, act, cbs, opn) ==
    /\ fds' \in Seq(Fds) /\ IsInjective(fds')
    /\ fd_added' \in [Fds -> BOOLEAN] /\ mask' \in [Fds -> SUBSET EventKinds]
    /\ \A g \in Fds \ {f} : /\ g \in ToSet(fds') <=> g \in ToSet(fds)
                            /\ mask'[g] = mask[g] /\ fd_added'[g] = fd_added[g]
    /\ Wanted(f, act, cbs) = {} => f \notin ToSet(fds')
    /\ ~stop => /\ opn[f] => mask'[f] = Wanted(f, act, cbs)
                /\ fd_added'[f] <=> mask'[f] # {}
                /\ fd_added'[f] => f \in ToSet(fds')

LEMMA WantedKinds ==
  ASSUME NEW f, NEW act, NEW cbs, ToSet(cbs[f]) \subseteq Cbs
  PROVE  Wanted(f, act, cbs) \subseteq EventKinds
  BY EpollAssumptions DEF Wanted, Polled

LEMMA ManageIsRight ==
  ASSUME FdInv, NEW f \in Fds, NEW act, NEW cbs \in [Fds -> Seq(Cbs)],
         NEW opn \in [Fds -> BOOLEAN], ManageFd(f, act, cbs, opn)
  PROVE  Managed(f, act, cbs, opn)
  <1> DEFINE W == Wanted(f, act, cbs)
  <1>0. W \subseteq EventKinds
    BY ToSetIn, WantedKinds
  <1>1. /\ fds \in Seq(Fds) /\ IsInjective(fds)
        /\ fd_added \in [Fds -> BOOLEAN] /\ mask \in [Fds -> SUBSET EventKinds]
        /\ ~stop => (fd_added[f] <=> mask[f] # {}) /\ (fd_added[f] => f \in ToSet(fds))
    BY DEF FdInv, FdTypes, WatchedAsWanted
  <1> HIDE DEF W
  <1>2. CASE W # {} /\ fd_added[f]
    <2>1. /\ UNCHANGED <<fds, fd_added>>
          /\ mask' = IF stop \/ mask[f] = {} THEN mask ELSE [mask EXCEPT ![f] = W]
      BY <1>2 DEF ManageFd, W
    <2> QED
      BY <1>0, <1>1, <1>2, <2>1 DEF Managed, W
  <1>3. CASE W # {} /\ ~fd_added[f]
    <2>1. /\ mask' = IF opn[f] /\ mask[f] = {} THEN [mask EXCEPT ![f] = W] ELSE mask
          /\ fd_added' = [fd_added EXCEPT ![f] = opn[f] /\ mask[f] = {}]
          /\ fds' = IF f \in ToSet(fds) THEN fds ELSE Append(fds, f)
      BY <1>3 DEF ManageFd, W
    <2>2. /\ fds' \in Seq(Fds) /\ IsInjective(fds')
          /\ ToSet(fds') = ToSet(fds) \cup {f}
      BY <1>1, <2>1, ToSetAppend
    <2> QED
      BY <1>0, <1>1, <1>3, <2>1, <2>2 DEF Managed, W
  <1>4. CASE W = {}
    <2>1. /\ mask' = IF stop /\ opn[f] THEN mask ELSE [mask EXCEPT ![f] = {}]
          /\ fd_added' = [fd_added EXCEPT ![f] = FALSE]
          /\ fds' = Unlink(fds, f)
      BY <1>4 DEF ManageFd, W
    <2>2. /\ fds' \in Seq(Fds) /\ IsInjective(fds')
          /\ ToSet(fds') = ToSet(fds) \ {f}
      BY <1>1, <2>1, UnlinkElements
    <2> QED
      BY <1>0, <1>1, <1>4, <2>1, <2>2 DEF Managed, W
  <1> QED
    BY <1>2, <1>3, <1>4
LEMMA WantedSame ==
  ASSUME NEW f, NEW act1, NEW act2, NEW cbs1, NEW cbs2,
         \A c : (c \in ToSet(cbs1[f]) /\ act1[c]) <=> (c \in ToSet(cbs2[f]) /\ act2[c])
  PROVE  Wanted(f, act1, cbs1) = Wanted(f, act2, cbs2)
  BY DEF Wanted

(* An operation on the callbacks of f changes nothing for the other entries. *)
LEMMA OthersWant ==
  ASSUME Entries, NEW f \in Fds, NEW g \in Fds \ {f}, callbacks'[g] = callbacks[g],
         \A d \in Cbs : FdOf[d] # f => active'[d] = active[d]
  PROVE  Wanted(g, active', callbacks') = Wanted(g, active, callbacks)
  <1>1. ASSUME NEW d
        PROVE  (d \in ToSet(callbacks'[g]) /\ active'[d])
                  <=> (d \in ToSet(callbacks[g]) /\ active[d])
    <2>1. CASE d \in ToSet(callbacks[g])
      <3>1. d \in Cbs /\ FdOf[d] # f
        BY <2>1 DEF Entries
      <3>2. active'[d] = active[d]
        BY <3>1
      <3> QED
        BY <3>2
    <2>2. CASE d \notin ToSet(callbacks[g])
      BY <2>2
    <2> QED
      BY <2>1, <2>2
  <1> QED
    BY <1>1, WantedSame

LEMMA WantedNothing ==
  ASSUME NEW f, NEW act, NEW cbs, ToSet(cbs[f]) = {}
  PROVE  Wanted(f, act, cbs) = {}
  BY DEF Wanted

(* An operation on the entry f, which belongs to the loop.                 *)
LEMMA FdOperation ==
  ASSUME FdInv, NEW f \in Fds, UNCHANGED stop,
         callbacks' \in [Fds -> Seq(Cbs)], active' \in [Cbs -> BOOLEAN],
         evloop' \in [Fds -> BOOLEAN], open' \in [Fds -> BOOLEAN],
         released' \in [Fds -> BOOLEAN],
         Managed(f, active', callbacks', open'), evloop'[f],
         \A g \in Fds : ToSet(callbacks'[g]) \subseteq ToSet(callbacks[g]),
         released'[f] => ToSet(callbacks'[f]) = {},
         \A g \in Fds \ {f} : /\ evloop'[g] = evloop[g] /\ open'[g] = open[g]
                             /\ released'[g] = released[g]
                             /\ Wanted(g, active', callbacks') = Wanted(g, active, callbacks)
  PROVE  FdInv'
  <1>1. FdTypes'
    BY DEF FdInv, FdTypes, Managed
  <1>2. /\ \A g \in Fds : ToSet(callbacks'[g]) \subseteq {c \in Cbs : FdOf[c] = g}
        /\ \A g \in Fds : released'[g] => ToSet(callbacks'[g]) = {}
    BY DEF FdInv, Entries
  <1>3. ASSUME NEW g \in ToSet(fds') PROVE evloop'[g] /\ ~released'[g]
    <2>1. g \in Fds
      BY ToSetIn DEF Managed
    <2>2. CASE g = f
      BY <2>2, WantedNothing DEF Managed
    <2>3. CASE g # f
      BY <2>1, <2>3 DEF Managed, FdInv, Entries
    <2> QED
      BY <2>2, <2>3
  <1>4. WatchedAsWanted'
    <2>1. ASSUME ~stop, NEW g \in Fds
          PROVE  /\ open'[g] => mask'[g] = IF evloop'[g] THEN Wanted(g, active', callbacks')
                                           ELSE {}
                 /\ fd_added'[g] <=> mask'[g] # {}
                 /\ fd_added'[g] => g \in ToSet(fds')
      <3>1. CASE g = f
        BY <2>1, <3>1 DEF Managed
      <3>2. CASE g # f
        <4>1. /\ g \in ToSet(fds') <=> g \in ToSet(fds)
              /\ mask'[g] = mask[g] /\ fd_added'[g] = fd_added[g]
          BY <3>2 DEF Managed
        <4>2. /\ evloop'[g] = evloop[g] /\ open'[g] = open[g]
              /\ Wanted(g, active', callbacks') = Wanted(g, active, callbacks)
          BY <3>2
        <4>3. /\ open[g] => mask[g] = IF evloop[g] THEN Wanted(g, active, callbacks)
                                      ELSE {}
              /\ fd_added[g] <=> mask[g] # {}
              /\ fd_added[g] => g \in ToSet(fds)
          BY <2>1 DEF FdInv, WatchedAsWanted
        <4> QED
          BY <4>1, <4>2, <4>3
      <3> QED
        BY <3>1, <3>2
    <2> QED
      BY <2>1 DEF WatchedAsWanted, Managed, Wanted
  <1> QED
    BY <1>1, <1>2, <1>3, <1>4 DEF FdInv, Entries

(* An operation on an entry that does not belong to the loop yet.          *)
LEMMA FdUnbound ==
  ASSUME FdInv, NEW f \in Fds, UNCHANGED <<stop, evloop, fds, fd_added, mask>>, ~evloop[f],
         callbacks' \in [Fds -> Seq(Cbs)], active' \in [Cbs -> BOOLEAN],
         open' \in [Fds -> BOOLEAN], released' \in [Fds -> BOOLEAN],
         open'[f] => open[f],
         \A g \in Fds : ToSet(callbacks'[g]) \subseteq ToSet(callbacks[g]),
         released'[f] => ToSet(callbacks'[f]) = {},
         \A g \in Fds \ {f} : /\ open'[g] = open[g] /\ released'[g] = released[g]
                             /\ Wanted(g, active', callbacks') = Wanted(g, active, callbacks)
  PROVE  FdInv'
  <1>1. FdTypes'
    BY DEF FdInv, FdTypes
  <1>2. f \notin ToSet(fds)
    BY DEF FdInv, Entries
  <1>3. Entries'
    <2>1. ToSet(fds) \subseteq Fds
      BY ToSetIn DEF FdInv, FdTypes
    <2> QED
      BY <1>2, <2>1 DEF FdInv, Entries
  <1>4. WatchedAsWanted'
    <2>1. ASSUME ~stop, NEW g \in Fds
          PROVE  open'[g] => mask[g] = IF evloop[g] THEN Wanted(g, active', callbacks')
                                       ELSE {}
      BY <2>1 DEF FdInv, WatchedAsWanted
    <2> QED
      BY <2>1 DEF FdInv, WatchedAsWanted, Wanted
  <1> QED
    BY <1>1, <1>3, <1>4 DEF FdInv

(* The operations of handlers.                                             *)
LEMMA FdEnable ==
  ASSUME FdInv, NEW c \in Cbs, crtx_evloop_enable_cb(c)
  PROVE  FdInv'
  <1> DEFINE f == FdOf[c]
  <1>1. /\ f \in Fds /\ active' = [active EXCEPT ![c] = TRUE]
        /\ evloop' = [evloop EXCEPT ![f] = TRUE]
        /\ UNCHANGED <<callbacks, open, released, stop>>
        /\ ManageFd(f, active', callbacks, open)
        /\ ToSet(callbacks[f]) # {}
    BY EpollAssumptions DEF crtx_evloop_enable_cb, loopVars, Linked
  <1>2. FdTypes /\ Entries
    BY DEF FdInv
  <1>3. /\ active' \in [Cbs -> BOOLEAN] /\ evloop' \in [Fds -> BOOLEAN]
        /\ callbacks' \in [Fds -> Seq(Cbs)] /\ open' \in [Fds -> BOOLEAN]
        /\ released' \in [Fds -> BOOLEAN] /\ evloop'[f]
    BY <1>1, <1>2 DEF FdTypes
  <1>4. Managed(f, active', callbacks', open')
    BY <1>1, <1>3, ManageIsRight
  <1>5. ASSUME NEW g \in Fds \ {f}
        PROVE  Wanted(g, active', callbacks') = Wanted(g, active, callbacks)
    <2>1. \A d \in Cbs : FdOf[d] # f => active'[d] = active[d]
      BY <1>1, <1>2 DEF FdTypes
    <2> QED
      BY <1>1, <1>2, <2>1, OthersWant
  <1>6. ~released'[f]
    BY <1>1, <1>2 DEF Entries
  <1> HIDE DEF f
  <1> QED
    BY <1>1, <1>2, <1>3, <1>4, <1>5, <1>6, FdOperation DEF FdTypes

LEMMA FdDisable ==
  ASSUME FdInv, NEW c \in Cbs, crtx_evloop_disable_cb(c)
  PROVE  FdInv'
  <1> DEFINE f == FdOf[c]
  <1>1. /\ f \in Fds /\ active' = [active EXCEPT ![c] = FALSE]
        /\ UNCHANGED <<callbacks, evloop, open, released, stop>>
        /\ ModFd(f, active', callbacks, open)
        /\ ToSet(callbacks[f]) # {}
    BY EpollAssumptions DEF crtx_evloop_disable_cb, loopVars, Linked
  <1>2. FdTypes /\ Entries
    BY DEF FdInv
  <1>3. /\ active' \in [Cbs -> BOOLEAN] /\ evloop' \in [Fds -> BOOLEAN]
        /\ callbacks' \in [Fds -> Seq(Cbs)] /\ open' \in [Fds -> BOOLEAN]
        /\ released' \in [Fds -> BOOLEAN]
    BY <1>1, <1>2 DEF FdTypes
  <1>5. ASSUME NEW g \in Fds \ {f}
        PROVE  Wanted(g, active', callbacks') = Wanted(g, active, callbacks)
    <2>1. \A d \in Cbs : FdOf[d] # f => active'[d] = active[d]
      BY <1>1, <1>2 DEF FdTypes
    <2> QED
      BY <1>1, <1>2, <2>1, OthersWant
  <1>6. ~released'[f]
    BY <1>1, <1>2 DEF Entries
  <1> HIDE DEF f
  <1>7. CASE evloop[f]
    <2>1. Managed(f, active', callbacks', open')
      BY <1>1, <1>3, <1>7, ManageIsRight DEF ModFd
    <2> QED
      BY <1>1, <1>3, <1>5, <1>6, <1>7, <2>1, FdOperation
  <1>8. CASE ~evloop[f]
    <2>1. UNCHANGED <<fds, fd_added, mask>>
      BY <1>1, <1>8 DEF ModFd
    <2> QED
      BY <1>1, <1>3, <1>5, <1>6, <1>8, <2>1, FdUnbound
  <1> QED
    BY <1>7, <1>8

LEMMA FdRemove ==
  ASSUME FdInv, NEW c \in Cbs, crtx_evloop_remove_cb(c)
  PROVE  FdInv'
  <1> DEFINE f == FdOf[c]
  <1>1. /\ f \in Fds
        /\ callbacks' = [callbacks EXCEPT ![f] = Unlink(callbacks[f], c)]
        /\ UNCHANGED <<evloop, open, released, stop>>
        /\ ToSet(callbacks[f]) # {}
    BY EpollAssumptions DEF crtx_evloop_remove_cb, loopVars, Linked
  <1>2. FdTypes /\ Entries
    BY DEF FdInv
  <1>3. active' = [active EXCEPT ![c] = FALSE]
    BY <1>2 DEF crtx_evloop_remove_cb, FdTypes
  <1>4. /\ Unlink(callbacks[f], c) \in Seq(Cbs)
        /\ ToSet(callbacks[f]) \ {c} \subseteq ToSet(callbacks'[f])
        /\ ToSet(callbacks'[f]) \subseteq ToSet(callbacks[f])
    BY <1>1, <1>2, UnlinkElements DEF FdTypes
  <1>5. /\ active' \in [Cbs -> BOOLEAN] /\ evloop' \in [Fds -> BOOLEAN]
        /\ callbacks' \in [Fds -> Seq(Cbs)] /\ open' \in [Fds -> BOOLEAN]
        /\ released' \in [Fds -> BOOLEAN]
        /\ \A g \in Fds : ToSet(callbacks'[g]) \subseteq ToSet(callbacks[g])
        /\ \A g \in Fds \ {f} : callbacks'[g] = callbacks[g]
    BY <1>1, <1>2, <1>3, <1>4 DEF FdTypes
  <1>6. ASSUME NEW g \in Fds \ {f}
        PROVE  Wanted(g, active', callbacks') = Wanted(g, active, callbacks)
    <2>1. \A d \in Cbs : FdOf[d] # f => active'[d] = active[d]
      BY <1>2, <1>3 DEF FdTypes
    <2> QED
      BY <1>1, <1>2, <1>5, <2>1, OthersWant
  <1>7. Wanted(f, active', callbacks) = Wanted(f, active', callbacks')
    <2>1. \A d \in Cbs : active'[d] <=> active[d] /\ d # c
      BY <1>2, <1>3 DEF FdTypes
    <2>2. ToSet(callbacks[f]) \subseteq Cbs
      BY <1>1, <1>2 DEF Entries
    <2> QED
      BY <1>4, <2>1, <2>2, WantedSame
  <1>8. ~released'[f]
    BY <1>1, <1>2 DEF Entries
  <1>a. ~active[c] => Wanted(f, active', callbacks) = Wanted(f, active, callbacks)
    <2>1. ASSUME ~active[c] PROVE active' = active
      BY <1>2, <1>3, <2>1 DEF FdTypes
    <2> QED
      BY <2>1
  <1> HIDE DEF f
  <1>9. CASE evloop[f] /\ active[c]
    <2>1. ManageFd(f, active', callbacks, open)
      BY <1>9 DEF crtx_evloop_remove_cb, ModFd, f
    <2>2. callbacks \in [Fds -> Seq(Cbs)] /\ open \in [Fds -> BOOLEAN]
      BY <1>2 DEF FdTypes
    <2>3. Managed(f, active', callbacks, open)
      BY <1>1, <2>1, <2>2, ManageIsRight
    <2>4. Managed(f, active', callbacks', open')
      BY <1>1, <1>7, <2>3 DEF Managed
    <2> QED
      BY <1>1, <1>5, <1>6, <1>8, <1>9, <2>4, FdOperation
  <1>10. CASE ~evloop[f]
    <2>1. UNCHANGED <<fds, fd_added, mask>>
      BY <1>10 DEF crtx_evloop_remove_cb, ModFd, f
    <2> QED
      BY <1>1, <1>5, <1>6, <1>8, <1>10, <2>1, FdUnbound
  <1>11. CASE evloop[f] /\ ~active[c]
    <2>1. UNCHANGED <<active, fds, fd_added, mask>>
      BY <1>11 DEF crtx_evloop_remove_cb
    <2>2. \A g \in Fds : Wanted(g, active', callbacks') = Wanted(g, active, callbacks)
      BY <1>6, <1>7, <1>a, <1>11
    <2>3. FdTypes'
      BY <1>1, <1>2, <1>5, <2>1 DEF FdTypes
    <2>4. Entries'
      BY <1>1, <1>2, <1>5, <2>1 DEF Entries
    <2>5. WatchedAsWanted'
      BY <1>1, <2>1, <2>2 DEF FdInv, WatchedAsWanted
    <2> QED
      BY <2>3, <2>4, <2>5 DEF FdInv
  <1> QED
    BY <1>9, <1>10, <1>11

LEMMA FdClosed ==
  ASSUME FdInv, NEW f \in Fds, crtx_evloop_handle_fd_closed(f)
  PROVE  FdInv'
  <1>1. /\ open' = [open EXCEPT ![f] = FALSE]
        /\ active' = [c \in Cbs |-> active[c] /\ c \notin ToSet(callbacks[f])]
        /\ UNCHANGED <<callbacks, evloop, released, stop>>
        /\ ModFd(f, active', callbacks, open')
    BY DEF crtx_evloop_handle_fd_closed, loopVars
  <1>2. FdTypes /\ Entries
    BY DEF FdInv
  <1>3. /\ active' \in [Cbs -> BOOLEAN] /\ evloop' \in [Fds -> BOOLEAN]
        /\ callbacks' \in [Fds -> Seq(Cbs)] /\ open' \in [Fds -> BOOLEAN]
        /\ released' \in [Fds -> BOOLEAN]
        /\ \A g \in Fds \ {f} : open'[g] = open[g]
        /\ ~open'[f]
    BY <1>1, <1>2 DEF FdTypes
  <1>4. ASSUME NEW g \in Fds \ {f}
        PROVE  Wanted(g, active', callbacks') = Wanted(g, active, callbacks)
    <2>1. \A d \in Cbs : FdOf[d] # f => active'[d] = active[d]
      BY <1>1, <1>2 DEF FdTypes, Entries
    <2> QED
      BY <1>1, <1>2, <2>1, OthersWant
  <1>5. released'[f] => ToSet(callbacks'[f]) = {}
    BY <1>1, <1>2 DEF Entries
  <1>6. CASE evloop[f]
    <2>1. Managed(f, active', callbacks', open')
      BY <1>1, <1>3, <1>6, ManageIsRight DEF ModFd
    <2> QED
      BY <1>1, <1>3, <1>4, <1>5, <1>6, <2>1, FdOperation
  <1>7. CASE ~evloop[f]
    <2>1. UNCHANGED <<fds, fd_added, mask>>
      BY <1>1, <1>7 DEF ModFd
    <2> QED
      BY <1>1, <1>3, <1>4, <1>5, <1>7, <2>1, FdUnbound
  <1> QED
    BY <1>6, <1>7

LEMMA FdUpdate ==
  ASSUME FdInv, NEW c \in Cbs, crtx_evloop_update_default_fd(c)
  PROVE  FdInv'
  <1> DEFINE f == FdOf[c]
             W == Wanted(f, active', callbacks)
  <1>1. /\ f \in Fds /\ active' = [active EXCEPT ![c] = TRUE]
        /\ evloop' = [evloop EXCEPT ![f] = TRUE]
        /\ open' = [open EXCEPT ![f] = TRUE]
        /\ UNCHANGED <<callbacks, released, stop>>
        /\ mask' = [mask EXCEPT ![f] = W]
        /\ fd_added' = [fd_added EXCEPT ![f] = W # {}]
        /\ fds' = IF W = {} THEN Unlink(fds, f) ELSE Append(Unlink(fds, f), f)
        /\ ToSet(callbacks[f]) # {}
    BY EpollAssumptions DEF crtx_evloop_update_default_fd, loopVars, Linked
  <1>2. FdTypes /\ Entries /\ IsInjective(fds)
    BY DEF FdInv, WatchedAsWanted
  <1>3. /\ active' \in [Cbs -> BOOLEAN] /\ evloop' \in [Fds -> BOOLEAN]
        /\ callbacks' \in [Fds -> Seq(Cbs)] /\ open' \in [Fds -> BOOLEAN]
        /\ released' \in [Fds -> BOOLEAN] /\ evloop'[f]
        /\ \A g \in Fds \ {f} : evloop'[g] = evloop[g] /\ open'[g] = open[g]
    BY <1>1, <1>2 DEF FdTypes
  <1>4. ASSUME NEW g \in Fds \ {f}
        PROVE  Wanted(g, active', callbacks') = Wanted(g, active, callbacks)
    <2>1. \A d \in Cbs : FdOf[d] # f => active'[d] = active[d]
      BY <1>1, <1>2 DEF FdTypes
    <2> QED
      BY <1>1, <1>2, <2>1, OthersWant
  <1>5. ~released'[f]
    BY <1>1, <1>2 DEF Entries
  <1>6. W \subseteq EventKinds /\ Wanted(f, active', callbacks') = W
    BY <1>1, <1>3, ToSetIn, WantedKinds
  <1> HIDE DEF f, W
  <1>7. /\ Unlink(fds, f) \in Seq(Fds) /\ IsInjective(Unlink(fds, f))
        /\ ToSet(Unlink(fds, f)) = ToSet(fds) \ {f}
    BY <1>2, UnlinkElements DEF FdTypes
  <1>8. /\ Append(Unlink(fds, f), f) \in Seq(Fds)
        /\ IsInjective(Append(Unlink(fds, f), f))
        /\ ToSet(Append(Unlink(fds, f), f)) = ToSet(fds) \cup {f}
    BY <1>1, <1>7, ToSetAppend
  <1>9. /\ fds' \in Seq(Fds) /\ IsInjective(fds')
        /\ ToSet(fds') = IF W = {} THEN ToSet(fds) \ {f} ELSE ToSet(fds) \cup {f}
    BY <1>1, <1>7, <1>8
  <1>10. Managed(f, active', callbacks', open')
    BY <1>1, <1>2, <1>6, <1>9 DEF Managed, FdTypes
  <1> QED
    BY <1>1, <1>3, <1>4, <1>5, <1>10, FdOperation

(* A listener is shut down, and its memory may be freed.                   *)
LEMMA FdRelease ==
  ASSUME FdInv, NEW f \in Fds, crtx_shutdown_listener(f) \/ ReleaseListener(f)
  PROVE  FdInv'
  <1>1. /\ released' \in {released, [released EXCEPT ![f] = TRUE]}
        /\ callbacks' = [callbacks EXCEPT ![f] = <<>>]
        /\ open' = [open EXCEPT ![f] = FALSE]
        /\ active' = [c \in Cbs |-> active[c] /\ FdOf[c] # f]
        /\ UNCHANGED <<evloop, stop>>
        /\ ModFd(f, active', callbacks', open')
    BY DEF crtx_shutdown_listener, ReleaseListener, Shutdown, loopVars
  <1>2. FdTypes /\ Entries
    BY DEF FdInv
  <1>3. /\ active' \in [Cbs -> BOOLEAN] /\ evloop' \in [Fds -> BOOLEAN]
        /\ callbacks' \in [Fds -> Seq(Cbs)] /\ open' \in [Fds -> BOOLEAN]
        /\ released' \in [Fds -> BOOLEAN]
        /\ \A g \in Fds \ {f} : /\ open'[g] = open[g] /\ released'[g] = released[g]
                                 /\ callbacks'[g] = callbacks[g]
        /\ ~open'[f] /\ callbacks'[f] = <<>>
    <2>1. /\ released' \in [Fds -> BOOLEAN]
          /\ \A g \in Fds \ {f} : released'[g] = released[g]
      <3>1. CASE released' = released
        BY <1>2, <3>1 DEF FdTypes
      <3>2. CASE released' = [released EXCEPT ![f] = TRUE]
        BY <1>2, <3>2 DEF FdTypes
      <3> QED
        BY <1>1, <3>1, <3>2
    <2> QED
      BY <1>1, <1>2, <2>1 DEF FdTypes
  <1>4. ToSet(callbacks'[f]) = {}
    BY <1>3 DEF ToSet
  <1>5. \A g \in Fds : ToSet(callbacks'[g]) \subseteq ToSet(callbacks[g])
    BY <1>3, <1>4
  <1>6. ASSUME NEW g \in Fds \ {f}
        PROVE  Wanted(g, active', callbacks') = Wanted(g, active, callbacks)
    <2>1. \A d \in Cbs : FdOf[d] # f => active'[d] = active[d]
      BY <1>1, <1>2 DEF FdTypes
    <2> QED
      BY <1>2, <1>3, <2>1, OthersWant
  <1>7. CASE evloop[f]
    <2>1. Managed(f, active', callbacks', open')
      BY <1>1, <1>3, <1>7, ManageIsRight DEF ModFd
    <2> QED
      BY <1>1, <1>3, <1>4, <1>5, <1>6, <1>7, <2>1, FdOperation
  <1>8. CASE ~evloop[f]
    <2>1. UNCHANGED <<fds, fd_added, mask>>
      BY <1>1, <1>8 DEF ModFd
    <2> QED
      BY <1>1, <1>3, <1>4, <1>5, <1>6, <1>8, <2>1, FdUnbound
  <1> QED
    BY <1>7, <1>8

LEMMA FdInit ==
  ASSUME Init
  PROVE  FdInv
  <1> DEFINE cbs(f) == {c \in Cbs : FdOf[c] = f}
  <1>1. ASSUME NEW f \in Fds
        PROVE  SetToSeq(cbs(f)) \in Seq(Cbs) /\ ToSet(SetToSeq(cbs(f))) = cbs(f)
    <2>1. IsFiniteSet(cbs(f))
      BY EpollAssumptions, FS_Subset
    <2>2. SetToSeq(cbs(f)) \in Seq(cbs(f)) /\ ToSet(SetToSeq(cbs(f))) = cbs(f)
      BY <2>1, SetToSeqElements
    <2> QED
      BY <2>2, SeqMonotonic
  <1>2. callbacks = [f \in Fds |-> SetToSeq(cbs(f))]
    BY DEF Init
  <1> HIDE DEF cbs
  <1>3. callbacks \in [Fds -> Seq(Cbs)] /\ \A f \in Fds : ToSet(callbacks[f]) = cbs(f)
    BY <1>1, <1>2
  <1>4. PICK bound \in SUBSET Fds, started \in SUBSET Cbs :
          /\ evloop = [f \in Fds |-> f \in bound]
          /\ active = [c \in Cbs |-> c \in started]
          /\ mask = [f \in Fds |->
                        UNION {Polled(c) : c \in {d \in started :
                                             FdOf[d] = f /\ f \in bound}}]
          /\ fd_added = [f \in Fds |-> mask[f] # {}]
          /\ fds = SetToSeq({f \in Fds : mask[f] # {}})
    BY DEF Init
  <1>5. ASSUME NEW f \in Fds
        PROVE  mask[f] = IF evloop[f] THEN Wanted(f, active, callbacks) ELSE {}
    BY <1>3, <1>4 DEF Wanted, cbs
  <1>6. mask \in [Fds -> SUBSET EventKinds]
    BY <1>4, EpollAssumptions DEF Polled
  <1>7. /\ fds \in Seq(Fds) /\ IsInjective(fds) /\ ToSet(fds) = {f \in Fds : mask[f] # {}}
    <2> DEFINE F == {f \in Fds : mask[f] # {}}
    <2>1. IsFiniteSet(F)
      BY EpollAssumptions, FS_Subset
    <2>2. fds = SetToSeq(F)
      BY <1>4
    <2> HIDE DEF F
    <2>3. fds \in Seq(F) /\ ToSet(fds) = F /\ IsInjective(fds)
      BY <2>1, <2>2, SetToSeqElements
    <2>4. F \subseteq Fds
      BY DEF F
    <2>5. fds \in Seq(Fds)
      BY <2>3, <2>4, SeqMonotonic
    <2> QED
      BY <2>3, <2>5 DEF F
  <1>8. open = [f \in Fds |-> TRUE] /\ released = [f \in Fds |-> FALSE] /\ ~stop /\ stop \in BOOLEAN
    BY DEF Init
  <1>9. FdTypes
    BY <1>3, <1>4, <1>6, <1>7, <1>8 DEF FdTypes
  <1>10. Entries
    BY <1>3, <1>5, <1>7, <1>8 DEF Entries, cbs
  <1>11. WatchedAsWanted
    BY <1>4, <1>5, <1>7, <1>8 DEF WatchedAsWanted
  <1> QED
    BY <1>9, <1>10, <1>11 DEF FdInv

LEMMA FdStep ==
  ASSUME FdInv, [Next]_vars
  PROVE  FdInv'
  <1>1. ASSUME UNCHANGED fdVars, stop' \in BOOLEAN, ~stop' => ~stop PROVE FdInv'
    BY <1>1 DEF FdInv, FdTypes, Entries, WatchedAsWanted, Wanted, fdVars
  <1>2. ASSUME UNCHANGED fdVars, UNCHANGED stop PROVE FdInv'
    BY <1>1, <1>2 DEF FdInv, FdTypes
  <1>3. CASE UNCHANGED vars
    BY <1>2, <1>3 DEF vars, fdVars
  <1>4. ASSUME NEW c \in Cbs,
               \/ crtx_evloop_enable_cb(c) \/ crtx_evloop_disable_cb(c)
               \/ crtx_evloop_remove_cb(c) \/ crtx_evloop_update_default_fd(c)
        PROVE  FdInv'
    BY <1>4, FdEnable, FdDisable, FdRemove, FdUpdate
  <1>5. ASSUME NEW c \in Cbs, NEW d \in {0, 1},
               crtx_evloop_disable_timeout(c) \/ crtx_evloop_set_timeout_rel(c, d)
        PROVE  FdInv'
    BY <1>2, <1>5 DEF crtx_evloop_disable_timeout, crtx_evloop_set_timeout_rel, loopVars
  <1>6. ASSUME NEW f \in Fds, \/ crtx_evloop_handle_fd_closed(f)
                              \/ crtx_shutdown_listener(f) \/ ReleaseListener(f)
        PROVE  FdInv'
    BY <1>6, FdClosed, FdRelease
  <1>7. CASE HandlerInitShutdown
    BY <1>2, <1>7 DEF HandlerInitShutdown
  <1>8. ASSUME NEW onetime \in BOOLEAN, StartLoop(onetime) PROVE FdInv'
    BY <1>2, <1>8 DEF StartLoop
  <1>9. CASE LoopStep
    BY <1>2, <1>9 DEF LoopStep, NextEvent, EventsDone, Dispatch, HandlerReturns,
                      ScanTimeout, TimeoutsDone, EpollWait
  <1>10. CASE StopFlag
    BY <1>1, <1>10 DEF StopFlag
  <1>11. CASE StopWrite \/ InitShutdown \/ QueueRequest \/ Tick
    BY <1>2, <1>11 DEF StopWrite, InitShutdown, QueueRequest, Tick, loopVars
  <1>12. ASSUME NEW f \in Fds, NEW k \in {"in", "out", "err"}, BecomesReady(f, k)
         PROVE  FdInv'
    BY <1>2, <1>12 DEF BecomesReady, loopVars
  <1> QED
    BY <1>3, <1>4, <1>5, <1>6, <1>7, <1>8, <1>9, <1>10, <1>11, <1>12 DEF Next

(* The set of conditions the kernel watches, fd_added and evloop->fds      *)
(* agree with the active callbacks after every sequence of enable,         *)
(* disable, remove, close, update and release of crtx_epoll_manage_fd's    *)
(* callers, until the loop is stopped.                                     *)
THEOREM KernelWatchesWhatIsWanted == Spec => []WatchedAsWanted
  <1>1. Init => FdInv
    BY FdInit
  <1>2. FdInv /\ [Next]_vars => FdInv'
    BY FdStep
  <1>3. FdInv => WatchedAsWanted
    BY DEF FdInv
  <1> QED
    BY <1>1, <1>2, <1>3, PTL DEF Spec

---------------------------------------------------------------------------
(* The frames of the loop and the events epoll_wait returned.              *)

LoopEvents == [fd : Fds, events : SUBSET EventKinds]

LoopTypes ==
    /\ timeout \in [Cbs -> 0..MaxTime]
    /\ timeout_enabled \in [Cbs -> BOOLEAN]
    /\ ready \in [Fds -> SUBSET {"in", "out", "err"}]
    /\ phase_out \in BOOLEAN
    /\ now \in 1..MaxTime
    /\ ops \in 0..MaxOps
    /\ apc \in {"idle", "stop_write", "stopped"}
    /\ arrivals \in 0..MaxArrivals

(* A frame stands on a callback of the entry it stands on, and a onetime   *)
(* loop sleeps once.                                                       *)
FrameOK(F) ==
    /\ F.cb # NoCb => F.fd \in Fds /\ FdOf[F.cb] = F.fd
    /\ F.pc = "dispatch" => F.fd \in Fds
    /\ F.pc = "handler" => F.cb \in Cbs
    /\ F.pc = "wait" /\ F.onetime => F.loop = 2

(* Outer loops are in the handler that entered the loop again.             *)
FramesInv ==
    /\ stack \in Seq(Frames)
    /\ \A i \in 1..Len(stack) : FrameOK(stack[i])
    /\ \A i \in 1..(Len(stack) - 1) : stack[i].pc = "handler"

BatchInv ==
    /\ batch \in Seq(LoopEvents)
    /\ \A i, j \in 1..Len(batch) : batch[i].fd = batch[j].fd => i = j

Reports(f) == \E i \in 1..Len(batch) : batch[i].fd = f

(* A request is in the pipe as long as an event of it was not handled: the *)
(* handler of the pipe never reads from an empty one.                      *)
CtrlInv ==
    /\ callbacks[CtrlFd] = <<CtrlCb>>
    /\ pipe \in 0..PipeCap
    /\ Reports(CtrlFd) => pipe > 0
    /\ At("dispatch") /\ Top.cb = CtrlCb => pipe > 0 /\ ~Reports(CtrlFd)

LoopInv == FdInv /\ LoopTypes /\ FramesInv /\ BatchInv /\ CtrlInv

(* With one event per call of epoll_wait no handler runs while an event    *)
(* waits, so no entry is freed that the loop will still use.               *)
FreshInv ==
    ~stop =>
      /\ batch # <<>> => At("events") /\ Len(batch) = 1
      /\ \A i \in 1..Len(batch) : ~released[batch[i].fd]
      /\ \A i \in 1..Len(stack) : stack[i].fd # NoFd => ~released[stack[i].fd]

LEMMA FirstElement ==
  ASSUME NEW S, NEW s \in Seq(S), NEW none
  PROVE  First(s, none) \in ToSet(s) \cup {none}
  <1>1. CASE s = <<>>
    BY <1>1 DEF First
  <1>2. CASE s # <<>>
    <2>1. 1 \in DOMAIN s
      BY <1>2, EmptySeq, LenProperties
    <2> QED
      BY <1>2, <2>1 DEF First, ToSet
  <1> QED
    BY <1>1, <1>2

LEMMA NextElement ==
  ASSUME NEW S, NEW s \in Seq(S), NEW x, NEW none
  PROVE  NextIn(s, x, none) \in ToSet(s) \cup {none}
  <1>1. CASE \E i \in 1..(Len(s) - 1) : s[i] = x
    <2> DEFINE k == CHOOSE i \in 1..(Len(s) - 1) : s[i] = x
    <2>1. k \in 1..(Len(s) - 1)
      BY <1>1
    <2>2. NextIn(s, x, none) = s[1 + k]
      BY <1>1 DEF NextIn
    <2> HIDE DEF k
    <2>3. DOMAIN s = 1..Len(s) /\ Len(s) \in Nat
      BY LenProperties
    <2>4. 1 + k \in DOMAIN s
      BY <2>1, <2>3
    <2> QED
      BY <2>2, <2>4 DEF ToSet
  <1>2. CASE ~\E i \in 1..(Len(s) - 1) : s[i] = x
    BY <1>2 DEF NextIn
  <1> QED
    BY <1>1, <1>2

(* The callbacks that the iterations over an entry come to.                *)
LEMMA IteratedCallback ==
  ASSUME FdInv, NEW f \in Fds
  PROVE  /\ \A c : \/ NextIn(callbacks[f], c, NoCb) = NoCb
                   \/ /\ NextIn(callbacks[f], c, NoCb) \in Cbs
                      /\ FdOf[NextIn(callbacks[f], c, NoCb)] = f
         /\ \/ First(callbacks[f], NoCb) = NoCb
            \/ First(callbacks[f], NoCb) \in Cbs /\ FdOf[First(callbacks[f], NoCb)] = f
  <1>1. callbacks[f] \in Seq(Cbs) /\ ToSet(callbacks[f]) \subseteq {c \in Cbs : FdOf[c] = f}
    BY DEF FdInv, FdTypes, Entries
  <1>2. \A c : NextIn(callbacks[f], c, NoCb) \in ToSet(callbacks[f]) \cup {NoCb}
    BY <1>1, NextElement
  <1>3. First(callbacks[f], NoCb) \in ToSet(callbacks[f]) \cup {NoCb}
    BY <1>1, FirstElement
  <1> QED
    BY <1>1, <1>2, <1>3

(* The entries that the iteration over the timeouts comes to.              *)
LEMMA IteratedEntry ==
  ASSUME FdInv
  PROVE  /\ \A x : \/ NextIn(fds, x, NoFd) = NoFd
                   \/ /\ NextIn(fds, x, NoFd) \in Fds
                      /\ ~released[NextIn(fds, x, NoFd)]
         /\ fds # <<>> => fds[1] \in Fds /\ ~released[fds[1]]
  <1>1. /\ fds \in Seq(Fds) /\ ToSet(fds) \subseteq Fds
        /\ \A f \in ToSet(fds) : ~released[f]
    BY ToSetIn DEF FdInv, FdTypes, Entries
  <1>2. \A x : NextIn(fds, x, NoFd) \in ToSet(fds) \cup {NoFd}
    BY <1>1, NextElement
  <1>3. First(fds, NoFd) \in ToSet(fds) \cup {NoFd}
    BY <1>1, FirstElement
  <1>4. fds # <<>> => fds[1] \in ToSet(fds) 
    <2>1. ASSUME fds # <<>> PROVE 1 \in DOMAIN fds
      BY <1>1, <2>1, EmptySeq, LenProperties
    <2> QED
      BY <2>1 DEF ToSet
  <1> QED
    BY <1>1, <1>2, <1>4

LEMMA TopFrame ==
  ASSUME FramesInv, stack # <<>>
  PROVE  Top \in Frames /\ FrameOK(Top) /\ Len(stack) \in Nat \ {0}
  BY EmptySeq, ElementOfSeq DEF FramesInv, Top

LEMMA TopStep ==
  ASSUME FramesInv, stack # <<>>, NEW F \in Frames, FrameOK(F), SetTop(F)
  PROVE  /\ FramesInv' /\ stack' # <<>> /\ Top' = F
         /\ Len(stack') = Len(stack)
         /\ \A i \in 1..(Len(stack) - 1) : stack'[i] = stack[i]
         /\ stack'[Len(stack)] = F
  <1>1. Len(stack) \in Nat \ {0} /\ stack \in Seq(Frames)
    BY TopFrame DEF FramesInv
  <1>2. stack' = [stack EXCEPT ![Len(stack)] = F]
    BY DEF SetTop
  <1>3. /\ stack' \in Seq(Frames) /\ Len(stack') = Len(stack)
        /\ \A j \in 1..Len(stack) : stack'[j] = IF j = Len(stack) THEN F ELSE stack[j]
    BY <1>1, <1>2, ExceptSeq
  <1>4. stack' # <<>>
    BY <1>1, <1>3, EmptySeq
  <1>5. /\ \A i \in 1..(Len(stack) - 1) : stack'[i] = stack[i]
        /\ stack'[Len(stack)] = F
    BY <1>1, <1>3
  <1>6. \A i \in 1..Len(stack) : FrameOK(stack'[i])
    BY <1>3 DEF FramesInv
  <1>7. \A i \in 1..(Len(stack) - 1) : stack'[i].pc = "handler"
    BY <1>5 DEF FramesInv
  <1> QED
    BY <1>3, <1>4, <1>5, <1>6, <1>7 DEF FramesInv, Top

LEMMA ReturnStep ==
  ASSUME FramesInv, stack # <<>>, Return
  PROVE  /\ FramesInv' /\ Len(stack') = Len(stack) - 1
         /\ stack' # <<>> => Top'.pc = "handler"
         /\ \A i \in 1..Len(stack') : stack'[i] = stack[i]
  <1>1. Len(stack) \in Nat \ {0} /\ stack \in Seq(Frames)
    BY TopFrame DEF FramesInv
  <1>2. \A i \in 1..(Len(stack) - 1) : stack[i] \in Frames
    BY <1>1, ElementOfSeq
  <1>3. /\ stack' \in Seq(Frames) /\ Len(stack') = Len(stack) - 1
        /\ \A i \in 1..(Len(stack) - 1) : stack'[i] = stack[i]
    <2>1. stack' = SubSeq(stack, 1, Len(stack) - 1)
      BY DEF Return
    <2>2. /\ stack' \in Seq(Frames)
          /\ Len(stack') = IF 1 <= Len(stack) - 1 THEN (Len(stack) - 1) - 1 + 1 ELSE 0
          /\ \A i \in 1..((Len(stack) - 1) - 1 + 1) : stack'[i] = stack[1 + i - 1]
      <3>1. 1 \in Int /\ Len(stack) - 1 \in Int
        BY <1>1
      <3> QED
        BY <1>2, <2>1, <3>1, SubSeqProperties
    <2>3. ASSUME NEW i \in 1..(Len(stack) - 1) PROVE stack'[i] = stack[i]
      <3>1. i \in 1..((Len(stack) - 1) - 1 + 1) /\ 1 + i - 1 = i
        BY <1>1
      <3> QED
        BY <2>2, <3>1
    <2>4. Len(stack') = Len(stack) - 1
      <3>1. CASE 1 <= Len(stack) - 1
        BY <1>1, <2>2, <3>1
      <3>2. CASE ~(1 <= Len(stack) - 1)
        <4>1. Len(stack) = 1
          BY <1>1, <3>2
        <4>2. Len(stack') = 0
          BY <2>2, <3>2
        <4> QED
          BY <4>1, <4>2
      <3> QED
        BY <3>1, <3>2
    <2> QED
      BY <2>2, <2>3, <2>4
  <1>4. stack' # <<>> => Len(stack') \in 1..(Len(stack) - 1)
    BY <1>1, <1>3, EmptySeq
  <1> QED
    BY <1>1, <1>3, <1>4 DEF FramesInv, Top

LEMMA StartStep ==
  ASSUME FramesInv, NEW onetime \in BOOLEAN, stack' = Append(stack, Frame(onetime)),
         stack # <<>> => Top.pc = "handler"
  PROVE  /\ FramesInv' /\ Len(stack') = Len(stack) + 1 /\ stack' # <<>>
         /\ Top' = Frame(onetime)
         /\ \A i \in 1..Len(stack) : stack'[i] = stack[i]
         /\ stack'[Len(stack) + 1] = Frame(onetime)
  <1>1. Frame(onetime) \in Frames /\ FrameOK(Frame(onetime))
    BY EpollAssumptions DEF Frame, Frames, FrameOK, FramePCs, Never, EventKinds
  <1>2. stack \in Seq(Frames) /\ Len(stack) \in Nat
    BY LenProperties DEF FramesInv
  <1>3. /\ stack' \in Seq(Frames) /\ stack' # <<>> /\ Len(stack') = Len(stack) + 1
        /\ \A i \in 1..Len(stack) : stack'[i] = stack[i]
        /\ stack'[Len(stack) + 1] = Frame(onetime)
    BY <1>1, <1>2, AppendProperties
  <1>4. \A i \in 1..Len(stack) : stack[i].pc = "handler"
    <2>1. Len(stack) > 0 => stack # <<>>
      BY EmptySeq, <1>2
    <2> QED
      BY <1>2, <2>1 DEF FramesInv, Top
  <1>5. \A i \in 1..Len(stack') : FrameOK(stack'[i])
    BY <1>1, <1>2, <1>3 DEF FramesInv
  <1> QED
    BY <1>2, <1>3, <1>4, <1>5 DEF FramesInv, Top

(* The time epoll_wait is given.                                           *)
LEMMA LeastNat ==
  ASSUME NEW T, T \subseteq Nat, T # {}
  PROVE  \E x \in T : \A y \in T : x <= y
  <1>1. PICK x \in T : \A y \in T : ~(<<y, x>> \in OpToRel(<, Nat))
    BY NatLessThanWellFounded, WFMin
  <1>2. ASSUME NEW y \in T PROVE x <= y
    <2>1. ASSUME y < x PROVE <<y, x>> \in OpToRel(<, Nat)
      BY <2>1, Zenon DEF OpToRel
    <2>2. ~(y < x)
      BY <1>1, <2>1
    <2> QED
      BY <2>2
  <1> QED
    BY <1>2

LEMMA NextTimeoutType ==
  ASSUME LoopTypes
  PROVE  NextTimeout \in 0..Never
  <1> DEFINE cbs == {c \in Cbs : /\ timeout_enabled[c]
                                /\ \E f \in ToSet(fds) : c \in ToSet(callbacks[f])}
             at(c) == IF timeout[c] > now \/ now = MaxTime THEN timeout[c] ELSE now + 1
             T == {at(c) : c \in cbs}
  <1>1. ASSUME NEW c \in cbs PROVE at(c) \in 0..Never /\ at(c) \in Nat
    <2>1. timeout[c] \in 0..MaxTime /\ now \in 1..MaxTime /\ MaxTime \in Nat
      BY <1>1, EpollAssumptions DEF LoopTypes
    <2> QED
      BY <2>1 DEF Never
  <1>2. CASE cbs = {}
    <2>1. NextTimeout = Never
      BY <1>2 DEF NextTimeout
    <2> QED
      BY <2>1, EpollAssumptions DEF Never
  <1>3. CASE cbs # {}
    <2>1. T \subseteq Nat /\ T # {}
      BY <1>1, <1>3
    <2> DEFINE u == CHOOSE t \in T : \A c \in cbs : t <= at(c)
    <2>2. NextTimeout = u
      BY <1>3 DEF NextTimeout
    <2> HIDE DEF T
    <2>3. \E x \in T : \A y \in T : x <= y
      BY <2>1, LeastNat
    <2>4. \E x \in T : \A c \in cbs : x <= at(c)
      BY <2>3 DEF T
    <2>5. u \in T
      BY <2>4
    <2> QED
      BY <1>1, <2>2, <2>5 DEF T
  <1> QED
    BY <1>2, <1>3

---------------------------------------------------------------------------
(* The steps of the loop.                                                  *)

(* A step of the innermost frame that takes no event: F is the new frame.  *)
LEMMA FrameStep ==
  ASSUME LoopInv, stack # <<>>, NEW F \in Frames, FrameOK(F), SetTop(F),
         UNCHANGED <<fdVars, stop, batch>>, LoopTypes', pipe' \in 0..PipeCap,
         pipe' >= pipe \/ (Top.pc = "dispatch" /\ Top.cb = CtrlCb),
         F.pc = "dispatch" => F.cb # CtrlCb
  PROVE  /\ LoopInv'
         /\ FreshInv /\ (~stop => /\ (F.fd # NoFd => ~released[F.fd])
                                  /\ Top.pc = "events" => batch = <<>>)
               => FreshInv'
  <1>1. FdInv /\ FramesInv /\ BatchInv /\ CtrlInv /\ LoopTypes
    BY DEF LoopInv
  <1>2. /\ FramesInv' /\ stack' # <<>> /\ Top' = F /\ Len(stack') = Len(stack)
        /\ \A i \in 1..(Len(stack) - 1) : stack'[i] = stack[i]
        /\ stack'[Len(stack)] = F
    BY <1>1, TopStep
  <1>3. FdInv'
    BY <1>1 DEF FdInv, FdTypes, Entries, WatchedAsWanted, Wanted, fdVars
  <1>4. BatchInv'
    BY <1>1 DEF BatchInv
  <1>5. CtrlInv'
    <2>1. Reports(CtrlFd)' => Reports(CtrlFd)
      BY DEF Reports
    <2>2. Reports(CtrlFd) => pipe > 0 /\ ~(Top.pc = "dispatch" /\ Top.cb = CtrlCb)
      BY <1>1 DEF CtrlInv, At
    <2>3. pipe \in Nat /\ pipe' \in Nat
      BY <1>1, EpollAssumptions DEF CtrlInv
    <2>4. Reports(CtrlFd)' => pipe' > 0
      <3>1. ASSUME Reports(CtrlFd)' PROVE pipe > 0 /\ pipe' >= pipe
        BY <2>1, <2>2, <3>1
      <3> QED
        BY <2>3, <3>1
    <2>5. callbacks'[CtrlFd] = <<CtrlCb>>
      BY <1>1 DEF CtrlInv, fdVars
    <2> QED
      BY <1>2, <2>4, <2>5 DEF CtrlInv, At
  <1>6. ASSUME FreshInv, ~stop, F.fd # NoFd => ~released[F.fd],
               Top.pc = "events" => batch = <<>>
        PROVE  /\ batch' = <<>>
               /\ \A i \in 1..Len(stack') : stack'[i].fd # NoFd => ~released'[stack'[i].fd]
    <2>1. batch' = <<>>
      BY <1>6 DEF FreshInv, At
    <2>2. \A i \in 1..Len(stack) : stack[i].fd # NoFd => ~released[stack[i].fd]
      BY <1>6 DEF FreshInv
    <2>3. released' = released
      BY DEF fdVars
    <2>4. ASSUME NEW i \in 1..Len(stack') PROVE i \in 1..(Len(stack) - 1) \/ i = Len(stack)
      BY <1>1, <1>2, TopFrame
    <2> QED
      BY <1>2, <1>6, <2>1, <2>2, <2>3, <2>4
  <1>7. ASSUME FreshInv, ~stop => /\ (F.fd # NoFd => ~released[F.fd])
                                  /\ Top.pc = "events" => batch = <<>>
        PROVE  FreshInv'
    <2>1. batch' = <<>> => Len(batch') = 0
      BY EmptySeq
    <2> QED
      BY <1>6, <1>7, <2>1 DEF FreshInv
  <1> QED
    BY <1>1, <1>2, <1>3, <1>4, <1>5, <1>7 DEF LoopInv

LEMMA StepEventsDone ==
  ASSUME LoopInv, EventsDone
  PROVE  LoopInv' /\ (FreshInv => FreshInv')
  <1> DEFINE F == [Top EXCEPT !.pc = "timeouts", !.clock = now,
                          !.triggered = {"timeout"},
                          !.fd = First(fds, NoFd),
                          !.cb = IF fds = <<>> THEN NoCb
                                 ELSE First(callbacks[fds[1]], NoCb)]
  <1>1. /\ stack # <<>> /\ Top.pc = "events" /\ batch = <<>> /\ SetTop(F)
        /\ UNCHANGED <<fdVars, timeVars, ready, pipe, stop, phase_out, batch, now, ops, appVars>>
    BY DEF EventsDone, At
  <1>2. FdInv /\ FramesInv /\ LoopTypes /\ pipe \in 0..PipeCap
    BY DEF LoopInv, CtrlInv
  <1>3. Top \in Frames
    BY <1>1, <1>2, TopFrame
  <1>4. fds # <<>> => fds[1] \in Fds /\ ~released[fds[1]]
    BY <1>2, IteratedEntry
  <1>5. fds # <<>> => \/ First(callbacks[fds[1]], NoCb) = NoCb
                      \/ /\ First(callbacks[fds[1]], NoCb) \in Cbs
                         /\ FdOf[First(callbacks[fds[1]], NoCb)] = fds[1]
    BY <1>2, <1>4, IteratedCallback
  <1>6. now \in 0..Never
    BY <1>2, EpollAssumptions DEF LoopTypes, Never
  <1>7. F \in Frames /\ FrameOK(F) /\ F.pc = "timeouts" /\ F.fd = First(fds, NoFd)
    BY <1>3, <1>4, <1>5, <1>6 DEF Frames, FramePCs, FrameOK, First, EventKinds
  <1> HIDE DEF F
  <1>8. LoopTypes' /\ pipe' \in 0..PipeCap /\ pipe' = pipe
    BY <1>1, <1>2 DEF LoopTypes, timeVars, appVars
  <1>9. pipe' >= pipe
    BY <1>2, <1>8, EpollAssumptions
  <1>10. F.fd # NoFd => ~released[F.fd]
    BY <1>4, <1>7 DEF First
  <1> QED
    BY <1>1, <1>7, <1>8, <1>9, <1>10, FrameStep

LEMMA StepNextEvent ==
  ASSUME LoopInv, NextEvent
  PROVE  LoopInv' /\ (FreshInv => FreshInv')
  <1> DEFINE F == [Top EXCEPT !.pc = "dispatch", !.processed = TRUE,
                          !.fd = batch[1].fd,
                          !.cb = First(callbacks[batch[1].fd], NoCb),
                          !.triggered = batch[1].events]
  <1>1. /\ stack # <<>> /\ Top.pc = "events" /\ batch # <<>> /\ batch' = Tail(batch)
        /\ SetTop(F)
        /\ UNCHANGED <<fdVars, timeVars, ready, pipe, stop, phase_out, now, ops, appVars>>
    BY DEF NextEvent, At
  <1>2. FdInv /\ FramesInv /\ BatchInv /\ CtrlInv /\ LoopTypes
    BY DEF LoopInv
  <1>3. Top \in Frames /\ Len(stack) \in Nat \ {0}
    BY <1>1, <1>2, TopFrame
  <1>4. batch \in Seq(LoopEvents) /\ Len(batch) \in Nat \ {0} /\ batch[1] \in LoopEvents
    BY <1>1, <1>2, EmptySeq, ElementOfSeq DEF BatchInv
  <1>5. batch[1].fd \in Fds /\ batch[1].events \subseteq EventKinds
    BY <1>4 DEF LoopEvents
  <1>6. \/ First(callbacks[batch[1].fd], NoCb) = NoCb
        \/ /\ First(callbacks[batch[1].fd], NoCb) \in Cbs
           /\ FdOf[First(callbacks[batch[1].fd], NoCb)] = batch[1].fd
    BY <1>2, <1>5, IteratedCallback
  <1>7. F \in Frames /\ FrameOK(F)
    BY <1>3, <1>5, <1>6 DEF Frames, FramePCs, FrameOK
  <1>f. F.pc = "dispatch" /\ F.fd = batch[1].fd /\ F.cb = First(callbacks[batch[1].fd], NoCb)
    BY <1>3 DEF Frames
  <1> HIDE DEF F
  <1>8. /\ FramesInv' /\ stack' # <<>> /\ Top' = F /\ Len(stack') = Len(stack)
        /\ \A i \in 1..(Len(stack) - 1) : stack'[i] = stack[i]
        /\ stack'[Len(stack)] = F
    BY <1>1, <1>2, <1>7, TopStep
  <1>9. /\ batch' \in Seq(LoopEvents) /\ Len(batch') = Len(batch) - 1
        /\ \A i \in 1..Len(batch') : batch'[i] = batch[i + 1]
    BY <1>1, <1>4, HeadTailProperties
  <1>10. BatchInv'
    <2>1. ASSUME NEW i \in 1..Len(batch'), NEW j \in 1..Len(batch'),
                 batch'[i].fd = batch'[j].fd
          PROVE  i = j
      <3>1. i + 1 \in 1..Len(batch) /\ j + 1 \in 1..Len(batch)
        BY <1>4, <1>9
      <3>2. i + 1 = j + 1
        BY <1>2, <1>9, <2>1, <3>1 DEF BatchInv
      <3> QED
        BY <3>2
    <2> QED
      BY <1>9, <2>1 DEF BatchInv
  <1>g. PICK g \in Fds : g = batch[1].fd
    BY <1>5
  <1>11. /\ \A f : Reports(f)' => Reports(f)
         /\ ~Reports(g)'
         /\ Reports(g)
    <2>1. ASSUME NEW i \in 1..Len(batch') PROVE i + 1 \in 1..Len(batch) /\ i + 1 # 1
      BY <1>4, <1>9
    <2>2. ASSUME NEW i \in 1..Len(batch') PROVE batch'[i].fd # batch[1].fd
      <3>1. 1 \in 1..Len(batch)
        BY <1>4
      <3> QED
        BY <1>2, <1>9, <2>1, <3>1 DEF BatchInv
    <2>3. 1 \in 1..Len(batch)
      BY <1>4
    <2> QED
      BY <1>9, <1>g, <2>1, <2>2, <2>3 DEF Reports
  <1>12. CtrlInv'
    <2>1. callbacks'[CtrlFd] = <<CtrlCb>> /\ pipe' = pipe /\ pipe \in 0..PipeCap
      BY <1>1, <1>2 DEF CtrlInv, fdVars
    <2>2. Reports(CtrlFd)' => pipe' > 0
      BY <1>1, <1>2, <1>11 DEF CtrlInv
    <2>3. Top'.cb = CtrlCb => g = CtrlFd
      BY <1>6, <1>8, <1>f, <1>g, EpollAssumptions
    <2>4. Top'.cb = CtrlCb => pipe' > 0 /\ ~Reports(CtrlFd)'
      BY <1>1, <1>2, <1>11, <2>3 DEF CtrlInv
    <2> QED
      BY <2>1, <2>2, <2>4 DEF CtrlInv, At
  <1>13. LoopTypes'
    BY <1>1, <1>2 DEF LoopTypes, timeVars, appVars
  <1>14. FdInv'
    BY <1>1, <1>2 DEF FdInv, FdTypes, Entries, WatchedAsWanted, Wanted, fdVars
  <1>15. ASSUME FreshInv, ~stop' PROVE
           /\ batch' = <<>>
           /\ \A i \in 1..Len(stack') : stack'[i].fd # NoFd => ~released'[stack'[i].fd]
    <2>1. Len(batch) = 1 /\ ~released[batch[1].fd]
      BY <1>1, <1>4, <1>15 DEF FreshInv
    <2>2. batch' = <<>>
      BY <1>9, <2>1, EmptySeq
    <2>3. \A i \in 1..Len(stack) : stack[i].fd # NoFd => ~released[stack[i].fd]
      BY <1>1, <1>15 DEF FreshInv
    <2>4. released' = released
      BY <1>1 DEF fdVars
    <2>5. ASSUME NEW i \in 1..Len(stack') PROVE i \in 1..(Len(stack) - 1) \/ i = Len(stack)
      BY <1>3, <1>8
    <2> QED
      BY <1>3, <1>8, <1>f, <2>1, <2>2, <2>3, <2>4, <2>5
  <1>16. FreshInv => FreshInv'
    <2>1. batch' = <<>> => Len(batch') = 0
      BY EmptySeq
    <2> QED
      BY <1>15, <2>1 DEF FreshInv
  <1> QED
    BY <1>8, <1>10, <1>12, <1>13, <1>14, <1>16 DEF LoopInv

LEMMA TopFresh ==
  ASSUME FramesInv, stack # <<>>, FreshInv, ~stop, Top.fd # NoFd
  PROVE  ~released[Top.fd]
  BY TopFrame DEF FreshInv, Top

(* The next callback is never the control pipe's: it is alone in its list. *)
LEMMA NextNotCtrl ==
  ASSUME FdInv, CtrlInv, NEW f \in Fds, NEW c
  PROVE  NextIn(callbacks[f], c, NoCb) # CtrlCb
  <1>1. CASE f = CtrlFd
    <2>1. Len(callbacks[f]) = 1
      BY <1>1 DEF CtrlInv
    <2>2. NextIn(callbacks[f], c, NoCb) = NoCb
      BY <2>1 DEF NextIn
    <2> QED
      BY <2>2, EpollAssumptions
  <1>2. CASE f # CtrlFd
    BY <1>2, IteratedCallback, EpollAssumptions
  <1> QED
    BY <1>1, <1>2

LEMMA AdvanceFrame ==
  ASSUME LoopInv, stack # <<>>, Top.fd \in Fds, NEW pc \in {"dispatch", "timeouts"},
         NEW processed \in BOOLEAN
  PROVE  LET F == [Top EXCEPT !.pc = pc, !.processed = processed,
                              !.cb = NextIn(callbacks[Top.fd], Top.cb, NoCb)]
         IN  /\ F \in Frames /\ FrameOK(F) /\ F.pc = pc /\ F.fd = Top.fd
             /\ F.cb # CtrlCb
  <1>1. FdInv /\ FramesInv /\ CtrlInv
    BY DEF LoopInv
  <1>2. Top \in Frames
    BY <1>1, TopFrame
  <1> DEFINE n == NextIn(callbacks[Top.fd], Top.cb, NoCb)
  <1>3. n = NoCb \/ (n \in Cbs /\ FdOf[n] = Top.fd)
    BY <1>1, IteratedCallback
  <1>4. n # CtrlCb
    BY <1>1, NextNotCtrl
  <1> HIDE DEF n
  <1>5. LET F == [Top EXCEPT !.pc = pc, !.processed = processed, !.cb = n]
        IN  F \in Frames /\ FrameOK(F) /\ F.pc = pc /\ F.fd = Top.fd /\ F.cb # CtrlCb
    BY <1>2, <1>3, <1>4 DEF Frames, FramePCs, FrameOK
  <1> QED
    BY <1>5 DEF n

LEMMA StepDispatch ==
  ASSUME LoopInv, Dispatch
  PROVE  LoopInv' /\ (FreshInv => FreshInv')
  <1>1. /\ stack # <<>> /\ Top.pc = "dispatch"
        /\ UNCHANGED <<fdVars, timeVars, ready, stop, phase_out, batch, now, ops, appVars>>
    BY DEF Dispatch, At
  <1>2. FdInv /\ FramesInv /\ CtrlInv /\ LoopTypes /\ pipe \in 0..PipeCap
    BY DEF LoopInv, CtrlInv
  <1>3. Top \in Frames /\ FrameOK(Top) /\ Top.fd \in Fds
    BY <1>1, <1>2, TopFrame DEF FrameOK
  <1>4. LoopTypes'
    BY <1>1, <1>2 DEF LoopTypes, timeVars, appVars
  <1>5. ASSUME FreshInv, ~stop PROVE ~released[Top.fd]
    BY <1>1, <1>2, <1>3, <1>5, TopFresh, EpollAssumptions
  <1>6. ASSUME pipe' = pipe PROVE pipe' >= pipe /\ pipe' \in 0..PipeCap
    BY <1>2, <1>6, EpollAssumptions
  <1>7. CASE Top.cb = NoCb
    <2> DEFINE F == [Top EXCEPT !.pc = "events", !.fd = NoFd, !.triggered = {}]
    <2>1. SetTop(F) /\ pipe' = pipe
      BY <1>7 DEF Dispatch
    <2>2. F \in Frames /\ FrameOK(F) /\ F.pc = "events" /\ F.fd = NoFd
      BY <1>3, <1>7 DEF Frames, FramePCs, FrameOK
    <2> HIDE DEF F
    <2> QED
      BY <1>1, <1>4, <1>6, <2>1, <2>2, FrameStep
  <1>8. CASE Top.cb # NoCb /\ ~Runs(Top.cb, Top.triggered)
    <2> DEFINE G == [Top EXCEPT !.pc = "dispatch", !.processed = Top.processed,
                                !.cb = NextIn(callbacks[Top.fd], Top.cb, NoCb)]
               F == [Top EXCEPT !.pc = "dispatch",
                                !.cb = NextIn(callbacks[Top.fd], Top.cb, NoCb)]
    <2>1. SetTop(F) /\ pipe' = pipe
      BY <1>8 DEF Dispatch, Advance
    <2>2. Top.processed \in BOOLEAN /\ F = G
      BY <1>3 DEF Frames
    <2>3. G \in Frames /\ FrameOK(G) /\ G.pc = "dispatch" /\ G.fd = Top.fd /\ G.cb # CtrlCb
      BY <1>1, <1>3, <2>2, AdvanceFrame
    <2> HIDE DEF F, G
    <2>4. F \in Frames /\ FrameOK(F) /\ F.pc = "dispatch" /\ F.fd = Top.fd /\ F.cb # CtrlCb
      BY <2>2, <2>3
    <2> QED
      BY <1>1, <1>4, <1>5, <1>6, <2>1, <2>4, FrameStep
  <1>9. CASE Top.cb # NoCb /\ Runs(Top.cb, Top.triggered)
    <2> DEFINE F == [Top EXCEPT !.pc = "handler"]
    <2>1. SetTop(F) /\ pipe' = IF Top.cb = CtrlCb THEN pipe - 1 ELSE pipe
      BY <1>9 DEF Dispatch
    <2>2. F \in Frames /\ FrameOK(F) /\ F.pc = "handler" /\ F.fd = Top.fd
      BY <1>3, <1>9 DEF Frames, FramePCs, FrameOK
    <2> HIDE DEF F
    <2>3. Top.cb = CtrlCb => pipe > 0
      BY <1>1, <1>2 DEF CtrlInv, At
    <2>4. pipe' \in 0..PipeCap
      <3>1. CASE Top.cb = CtrlCb
        BY <1>2, <2>1, <2>3, <3>1, EpollAssumptions
      <3>2. CASE Top.cb # CtrlCb
        BY <1>2, <2>1, <3>2
      <3> QED
        BY <3>1, <3>2
    <2>5. pipe' >= pipe \/ (Top.pc = "dispatch" /\ Top.cb = CtrlCb)
      BY <1>1, <1>6, <2>1
    <2> QED
      BY <1>1, <1>4, <1>5, <2>1, <2>2, <2>4, <2>5, FrameStep
  <1> QED
    BY <1>7, <1>8, <1>9

LEMMA StepHandlerReturns ==
  ASSUME LoopInv, HandlerReturns
  PROVE  LoopInv' /\ (FreshInv => FreshInv')
  <1> DEFINE p == IF Top.triggered = {"timeout"} THEN "timeouts" ELSE "dispatch"
             G == [Top EXCEPT !.pc = p, !.processed = Top.processed,
                              !.cb = NextIn(callbacks[Top.fd], Top.cb, NoCb)]
             F == [Top EXCEPT !.pc = p,
                              !.cb = NextIn(callbacks[Top.fd], Top.cb, NoCb)]
  <1>1. /\ stack # <<>> /\ Top.pc = "handler" /\ SetTop(F)
        /\ ready' = [ready EXCEPT ![Top.fd] = @ \ Top.triggered]
        /\ UNCHANGED <<fdVars, timeVars, pipe, stop, phase_out, batch, now, ops, appVars>>
    BY DEF HandlerReturns, At, Advance
  <1>2. FdInv /\ FramesInv /\ LoopTypes /\ pipe \in 0..PipeCap
    BY DEF LoopInv, CtrlInv
  <1>3. Top \in Frames /\ FrameOK(Top) /\ Top.fd \in Fds
    BY <1>1, <1>2, TopFrame, EpollAssumptions DEF FrameOK
  <1>4. LoopTypes'
    BY <1>1, <1>2, <1>3 DEF LoopTypes, timeVars, appVars
  <1>5. ASSUME FreshInv, ~stop PROVE ~released[Top.fd]
    BY <1>1, <1>2, <1>3, <1>5, TopFresh, EpollAssumptions
  <1>6. pipe' >= pipe /\ pipe' \in 0..PipeCap
    BY <1>1, <1>2, EpollAssumptions
  <1>7. p \in {"dispatch", "timeouts"}
    OBVIOUS
  <1>8. Top.processed \in BOOLEAN /\ F = G
    BY <1>3 DEF Frames
  <1> HIDE DEF p
  <1>9. G \in Frames /\ FrameOK(G) /\ G.pc = p /\ G.fd = Top.fd /\ G.cb # CtrlCb
    BY <1>1, <1>3, <1>7, <1>8, AdvanceFrame
  <1> HIDE DEF F, G
  <1> QED
    BY <1>1, <1>4, <1>5, <1>6, <1>8, <1>9, FrameStep

LEMMA StepScanTimeout ==
  ASSUME LoopInv, ScanTimeout
  PROVE  LoopInv' /\ (FreshInv => FreshInv')
  <1>1. /\ stack # <<>> /\ Top.pc = "timeouts" /\ Top.fd # NoFd
        /\ UNCHANGED <<fdVars, ready, pipe, stop, phase_out, batch, now, ops, appVars>>
    BY DEF ScanTimeout, At
  <1>2. FdInv /\ FramesInv /\ LoopTypes /\ pipe \in 0..PipeCap
    BY DEF LoopInv, CtrlInv
  <1>3. Top \in Frames /\ FrameOK(Top) /\ Top.fd \in Fds
    BY <1>1, <1>2, TopFrame DEF Frames
  <1>4. UNCHANGED timeVars => LoopTypes'
    BY <1>1, <1>2 DEF LoopTypes, timeVars, appVars
  <1>5. ASSUME FreshInv, ~stop PROVE ~released[Top.fd]
    BY <1>1, <1>2, <1>5, TopFresh
  <1>6. pipe' >= pipe /\ pipe' \in 0..PipeCap
    BY <1>1, <1>2, EpollAssumptions
  <1>7. CASE Top.cb = NoCb
    <2> DEFINE f == NextIn(fds, Top.fd, NoFd)
               F == [Top EXCEPT !.fd = f, !.cb = IF f = NoFd THEN NoCb
                                                ELSE First(callbacks[f], NoCb)]
    <2>1. SetTop(F) /\ UNCHANGED timeVars
      BY <1>7 DEF ScanTimeout
    <2>2. f = NoFd \/ (f \in Fds /\ ~released[f])
      BY <1>2, IteratedEntry
    <2> HIDE DEF f
    <2>3. f # NoFd => \/ First(callbacks[f], NoCb) = NoCb
                      \/ First(callbacks[f], NoCb) \in Cbs /\ FdOf[First(callbacks[f], NoCb)] = f
      BY <1>2, <2>2, IteratedCallback
    <2>4. F \in Frames /\ FrameOK(F) /\ F.pc = "timeouts" /\ F.fd = f
      BY <1>1, <1>3, <2>2, <2>3 DEF Frames, FrameOK
    <2> HIDE DEF F
    <2> QED
      BY <1>1, <1>4, <1>6, <2>1, <2>2, <2>4, FrameStep
  <1>8. CASE Top.cb # NoCb /\ ~Due(Top.cb, Top.clock)
    <2> DEFINE G == [Top EXCEPT !.pc = "timeouts", !.processed = Top.processed,
                                !.cb = NextIn(callbacks[Top.fd], Top.cb, NoCb)]
               F == [Top EXCEPT !.pc = "timeouts",
                                !.cb = NextIn(callbacks[Top.fd], Top.cb, NoCb)]
    <2>1. SetTop(F) /\ UNCHANGED timeVars
      BY <1>8 DEF ScanTimeout, Advance
    <2>2. Top.processed \in BOOLEAN /\ F = G
      BY <1>3 DEF Frames
    <2>3. G \in Frames /\ FrameOK(G) /\ G.pc = "timeouts" /\ G.fd = Top.fd
      BY <1>1, <1>3, <2>2, AdvanceFrame
    <2> HIDE DEF F, G
    <2>4. F \in Frames /\ FrameOK(F) /\ F.pc = "timeouts" /\ F.fd = Top.fd
      BY <2>2, <2>3
    <2> QED
      BY <1>1, <1>4, <1>5, <1>6, <2>1, <2>4, FrameStep
  <1>9. CASE Top.cb # NoCb /\ Due(Top.cb, Top.clock)
    <2>1. Top.cb \in Cbs
      BY <1>3, <1>9 DEF Frames
    <2>2. /\ timeout' = [timeout EXCEPT ![Top.cb] = 0]
          /\ timeout_enabled' = [timeout_enabled EXCEPT ![Top.cb] = FALSE]
      BY <1>9 DEF ScanTimeout
    <2>3. LoopTypes'
      <3>1. 0 \in 0..MaxTime
        BY EpollAssumptions
      <3>2. timeout' \in [Cbs -> 0..MaxTime] /\ timeout_enabled' \in [Cbs -> BOOLEAN]
        BY <1>2, <2>2, <3>1 DEF LoopTypes
      <3> QED
        BY <1>1, <1>2, <3>2 DEF LoopTypes, appVars
    <2>4. CASE Runs(Top.cb, {"timeout"})
      <3> DEFINE F == [Top EXCEPT !.pc = "handler", !.processed = TRUE]
      <3>1. SetTop(F)
        BY <1>9, <2>4 DEF ScanTimeout
      <3>2. F \in Frames /\ FrameOK(F) /\ F.pc = "handler" /\ F.fd = Top.fd
        BY <1>3, <2>1 DEF Frames, FramePCs, FrameOK
      <3> HIDE DEF F
      <3> QED
        BY <1>1, <1>5, <1>6, <2>3, <3>1, <3>2, FrameStep
    <2>5. CASE ~Runs(Top.cb, {"timeout"})
      <3> DEFINE q == Top.processed \/ active[Top.cb]
                 F == [Top EXCEPT !.processed = q,
                                  !.cb = NextIn(callbacks[Top.fd], Top.cb, NoCb)]
                 G == [Top EXCEPT !.pc = "timeouts", !.processed = q,
                                  !.cb = NextIn(callbacks[Top.fd], Top.cb, NoCb)]
      <3>1. SetTop(F)
        BY <1>9, <2>5 DEF ScanTimeout
      <3>2. q \in BOOLEAN
        OBVIOUS
      <3> HIDE DEF q
      <3>3. F = G
        BY <1>1, <1>3 DEF Frames
      <3>4. F \in Frames /\ FrameOK(F) /\ F.pc = "timeouts" /\ F.fd = Top.fd
        BY <1>1, <1>3, <3>2, <3>3, AdvanceFrame
      <3> HIDE DEF F, G
      <3> QED
        BY <1>1, <1>5, <1>6, <2>3, <3>1, <3>4, FrameStep
    <2> QED
      BY <2>4, <2>5
  <1> QED
    BY <1>7, <1>8, <1>9

(* A frame returns; batch' is what is left of the events.                  *)
LEMMA PopStep ==
  ASSUME LoopInv, stack # <<>>, Return, UNCHANGED <<fdVars, stop, pipe>>,
         LoopTypes', BatchInv', Reports(CtrlFd)' => pipe > 0
  PROVE  LoopInv' /\ (FreshInv /\ (~stop => batch' = <<>>) => FreshInv')
  <1>1. FdInv /\ FramesInv /\ CtrlInv
    BY DEF LoopInv
  <1>2. /\ FramesInv' /\ Len(stack') = Len(stack) - 1
        /\ stack' # <<>> => Top'.pc = "handler"
        /\ \A i \in 1..Len(stack') : stack'[i] = stack[i]
    BY <1>1, ReturnStep
  <1>3. FdInv'
    BY <1>1 DEF FdInv, FdTypes, Entries, WatchedAsWanted, Wanted, fdVars
  <1>4. CtrlInv'
    BY <1>1, <1>2 DEF CtrlInv, At, fdVars
  <1>5. ASSUME FreshInv, ~stop => batch' = <<>> PROVE FreshInv'
    <2>1. batch' = <<>> => Len(batch') = 0
      BY EmptySeq
    <2>2. released' = released
      BY DEF fdVars
    <2>3. \A i \in 1..Len(stack') : i \in 1..Len(stack)
      BY <1>1, <1>2, TopFrame
    <2> QED
      BY <1>2, <1>5, <2>1, <2>2, <2>3 DEF FreshInv
  <1> QED
    BY <1>2, <1>3, <1>4, <1>5 DEF LoopInv

LEMMA StepTimeoutsDone ==
  ASSUME LoopInv, TimeoutsDone
  PROVE  LoopInv' /\ (FreshInv => FreshInv')
  <1>1. /\ stack # <<>> /\ Top.pc = "timeouts" /\ Top.fd = NoFd
        /\ UNCHANGED <<fdVars, timeVars, ready, pipe, stop, phase_out, batch, now, ops, appVars>>
    BY DEF TimeoutsDone, At
  <1>2. FdInv /\ FramesInv /\ LoopTypes /\ BatchInv /\ CtrlInv /\ pipe \in 0..PipeCap
    BY DEF LoopInv, CtrlInv
  <1>3. LoopTypes'
    BY <1>1, <1>2 DEF LoopTypes, timeVars, appVars
  <1>4. CASE stop \/ (Top.onetime /\ (Top.processed \/ Top.loop = 1))
    <2>1. Return
      BY <1>4 DEF TimeoutsDone
    <2>2. BatchInv'
      BY <1>1, <1>2 DEF BatchInv
    <2>3. Reports(CtrlFd)' => pipe > 0
      BY <1>1, <1>2 DEF CtrlInv, Reports
    <2>4. FreshInv /\ ~stop => batch' = <<>>
      BY <1>1 DEF FreshInv, At
    <2> QED
      BY <1>1, <1>3, <2>1, <2>2, <2>3, <2>4, PopStep
  <1>5. CASE ~(stop \/ (Top.onetime /\ (Top.processed \/ Top.loop = 1)))
    <2> DEFINE t == IF phase_out THEN now ELSE NextTimeout
               F == [Top EXCEPT !.pc = "wait", !.triggered = {}, !.clock = t]
    <2>1. SetTop(F)
      BY <1>5 DEF TimeoutsDone
    <2>2. t \in 0..Never
      <3>1. now \in 0..Never
        BY <1>2, EpollAssumptions DEF LoopTypes, Never
      <3> QED
        BY <1>2, <3>1, NextTimeoutType
    <2> HIDE DEF t
    <2>3. Top \in Frames /\ FrameOK(Top)
      BY <1>1, <1>2, TopFrame
    <2>4. F \in Frames /\ FrameOK(F) /\ F.pc = "wait" /\ F.fd = NoFd
      <3>1. /\ F \in Frames /\ F.pc = "wait" /\ F.fd = Top.fd /\ F.cb = Top.cb
            /\ F.onetime = Top.onetime /\ F.loop = Top.loop
        BY <2>2, <2>3 DEF Frames, FramePCs
      <3>2. Top.onetime => Top.loop = 2
        BY <1>5, <2>3 DEF Frames
      <3> QED
        BY <1>1, <2>3, <3>1, <3>2 DEF FrameOK
    <2> HIDE DEF F
    <2>5. pipe' >= pipe /\ pipe' \in 0..PipeCap
      BY <1>1, <1>2, EpollAssumptions
    <2> QED
      BY <1>1, <1>3, <2>1, <2>4, <2>5, FrameStep
  <1> QED
    BY <1>4, <1>5

(* What epoll_wait returns: at most BatchSize events, of different         *)
(* descriptors that are watched, and one of the pipe if it is not empty.   *)
LEMMA WaitReturns ==
  ASSUME LoopInv, EpollWait
  PROVE  /\ BatchInv'
         /\ \A i \in 1..Len(batch') : Reported(batch'[i].fd) # {}
         /\ Len(batch') <= BatchSize /\ Len(batch') \in Nat
  <1> DEFINE rdy == {f \in Fds : Reported(f) # {}}
  <1>1. CASE batch' = <<>>
    <2>1. batch' \in Seq(LoopEvents) /\ Len(batch') = 0
      BY <1>1, EmptySeq
    <2>2. BatchSize >= 0
      BY EpollAssumptions DEF BatchSize
    <2> QED
      BY <2>1, <2>2 DEF BatchInv
  <1>2. CASE \E s \in UNION {[1..n -> rdy] : n \in 1..BatchSize} :
                /\ IsInjective(s)
                /\ batch' = [i \in DOMAIN s |-> [fd |-> s[i], events |-> Reported(s[i])]]
    <2>1. PICK n \in 1..BatchSize : \E s \in [1..n -> rdy] :
                /\ IsInjective(s)
                /\ batch' = [i \in DOMAIN s |-> [fd |-> s[i], events |-> Reported(s[i])]]
      BY <1>2
    <2>2. PICK s \in [1..n -> rdy] :
                /\ IsInjective(s)
                /\ batch' = [i \in DOMAIN s |-> [fd |-> s[i], events |-> Reported(s[i])]]
      BY <2>1
    <2>3. n \in Nat /\ n <= BatchSize
      BY <2>1, EpollAssumptions DEF BatchSize
    <2>4. \A i \in 1..n : s[i] \in Fds /\ Reported(s[i]) # {}
      BY <2>2
    <2>5. \A f \in Fds : Reported(f) \subseteq EventKinds
      BY DEF LoopInv, LoopTypes, Reported, EventKinds
    <2>6. \A i \in 1..n : batch'[i] = [fd |-> s[i], events |-> Reported(s[i])]
      BY <2>2
    <2>7. batch' \in [1..n -> LoopEvents]
      BY <2>2, <2>4, <2>5 DEF LoopEvents
    <2>8. batch' \in Seq(LoopEvents)
      BY <2>3, <2>7, SeqDef
    <2>9. Len(batch') = n
      BY <2>3, <2>7, <2>8, LenProperties
    <2>10. ASSUME NEW i \in 1..n PROVE batch'[i].fd = s[i]
      <3>1. batch'[i] = [fd |-> s[i], events |-> Reported(s[i])]
        BY <2>6
      <3>2. \A x, y : [fd |-> x, events |-> y].fd = x
        OBVIOUS
      <3> QED
        BY <3>1, <3>2
    <2>11. \A i, j \in 1..n : s[i] = s[j] => i = j
      BY <2>2 DEF IsInjective
    <2> QED
      BY <2>3, <2>4, <2>8, <2>9, <2>10, <2>11 DEF BatchInv
  <1> QED
    BY <1>1, <1>2 DEF EpollWait

LEMMA StepEpollWait ==
  ASSUME LoopInv, EpollWait
  PROVE  LoopInv' /\ (FreshInv /\ max_n_events <= 1 => FreshInv')
  <1>1. /\ stack # <<>> /\ Top.pc = "wait"
        /\ UNCHANGED <<fdVars, timeVars, ready, pipe, stop, phase_out, now, ops, appVars>>
    BY DEF EpollWait, At
  <1>2. FdInv /\ FramesInv /\ LoopTypes /\ CtrlInv /\ pipe \in 0..PipeCap
    BY DEF LoopInv, CtrlInv
  <1>3. LoopTypes'
    BY <1>1, <1>2 DEF LoopTypes, timeVars, appVars
  <1>4. /\ BatchInv'
        /\ \A i \in 1..Len(batch') : Reported(batch'[i].fd) # {}
        /\ Len(batch') <= BatchSize /\ Len(batch') \in Nat
    BY WaitReturns
  <1>5. Reports(CtrlFd)' => pipe > 0
    <2>1. Reported(CtrlFd) # {} => pipe > 0
      BY DEF Reported
    <2> QED
      BY <1>4, <2>1 DEF Reports
  <1>6. CASE stop \/ (batch' = <<>> /\ phase_out)
    <2>1. Return
      BY <1>6 DEF EpollWait
    <2> QED
      BY <1>1, <1>3, <1>4, <1>5, <1>6, <2>1, PopStep
  <1>7. CASE ~(stop \/ (batch' = <<>> /\ phase_out))
    <2> DEFINE F == [Top EXCEPT !.pc = "events", !.processed = FALSE, !.clock = 0,
                               !.loop = IF Top.onetime THEN @ - 1 ELSE @]
    <2>1. SetTop(F)
      BY <1>7 DEF EpollWait
    <2>2. Top \in Frames /\ FrameOK(Top) /\ Len(stack) \in Nat \ {0}
      BY <1>1, <1>2, TopFrame
    <2>3. 0 \in 0..Never
      BY EpollAssumptions DEF Never
    <2>a. (IF Top.onetime THEN Top.loop - 1 ELSE Top.loop) \in 1..2
      BY <1>1, <2>2 DEF Frames, FrameOK
    <2>b. F \in Frames
      BY <2>2, <2>3, <2>a DEF Frames, FramePCs
    <2>4. FrameOK(F) /\ F.pc = "events" /\ F.fd = Top.fd
      BY <2>2 DEF Frames, FrameOK
    <2> HIDE DEF F
    <2>5. /\ FramesInv' /\ stack' # <<>> /\ Top' = F /\ Len(stack') = Len(stack)
          /\ \A i \in 1..(Len(stack) - 1) : stack'[i] = stack[i]
          /\ stack'[Len(stack)] = F
      BY <1>1, <1>2, <2>1, <2>4, <2>b, TopStep
    <2>6. FdInv'
      BY <1>1, <1>2 DEF FdInv, FdTypes, Entries, WatchedAsWanted, Wanted, fdVars
    <2>7. CtrlInv'
      BY <1>1, <1>2, <1>5, <2>4, <2>5 DEF CtrlInv, At, fdVars
    <2>8. ASSUME FreshInv, max_n_events <= 1 PROVE FreshInv'
      <3>1. BatchSize = 1
        BY <2>8, EpollAssumptions DEF BatchSize
      <3>2. batch' # <<>> => Len(batch') = 1
        <4>1. batch' # <<>> => Len(batch') \in Nat \ {0}
          BY <1>4, EmptySeq DEF BatchInv
        <4>2. Len(batch') <= 1
          BY <1>4, <3>1
        <4>3. \A n \in Nat \ {0} : n <= 1 => n = 1
          OBVIOUS
        <4> QED
          BY <4>1, <4>2, <4>3
      <3>3. released' = released /\ stop' = stop
        BY <1>1 DEF fdVars
      <3>4. ASSUME ~stop, NEW i \in 1..Len(batch') PROVE ~released[batch'[i].fd]
        <4>0. batch'[i] \in LoopEvents
          BY <1>4, ElementOfSeq DEF BatchInv
        <4>1. batch'[i].fd \in Fds
          BY <4>0 DEF LoopEvents
        <4>2. mask[batch'[i].fd] # {}
          BY <1>4 DEF Reported
        <4>3. batch'[i].fd \in ToSet(fds)
          BY <1>2, <3>4, <4>1, <4>2 DEF FdInv, WatchedAsWanted
        <4> QED
          BY <1>2, <4>3 DEF FdInv, Entries
      <3>5. ASSUME ~stop, NEW i \in 1..Len(stack'), stack'[i].fd # NoFd
            PROVE  ~released[stack'[i].fd]
        <4>1. i \in 1..Len(stack) /\ (i = Len(stack) \/ i \in 1..(Len(stack) - 1))
          BY <2>2, <2>5
        <4>2. stack'[i].fd = stack[i].fd
          BY <2>4, <2>5, <4>1 DEF Top
        <4> QED
          BY <2>8, <3>5, <4>1, <4>2 DEF FreshInv
      <3> QED
        BY <2>4, <2>5, <3>2, <3>3, <3>4, <3>5 DEF FreshInv, At
    <2> QED
      BY <1>3, <1>4, <2>5, <2>6, <2>7, <2>8 DEF LoopInv
  <1> QED
    BY <1>6, <1>7

LEMMA StepStartLoop ==
  ASSUME LoopInv, NEW onetime \in BOOLEAN, StartLoop(onetime)
  PROVE  LoopInv' /\ (FreshInv => FreshInv')
  <1>1. /\ stack # <<>> => Top.pc = "handler"
        /\ stack' = Append(stack, Frame(onetime))
        /\ UNCHANGED <<fdVars, timeVars, ready, pipe, stop, phase_out, batch, now, ops, appVars>>
    BY DEF StartLoop, At
  <1>2. FdInv /\ FramesInv /\ LoopTypes /\ BatchInv /\ CtrlInv
    BY DEF LoopInv
  <1>3. /\ FramesInv' /\ Len(stack') = Len(stack) + 1 /\ stack' # <<>>
        /\ Top' = Frame(onetime)
        /\ \A i \in 1..Len(stack) : stack'[i] = stack[i]
        /\ stack'[Len(stack) + 1] = Frame(onetime)
    BY <1>1, <1>2, StartStep
  <1>4. LoopTypes'
    BY <1>1, <1>2 DEF LoopTypes, timeVars, appVars
  <1>5. FdInv'
    BY <1>1, <1>2 DEF FdInv, FdTypes, Entries, WatchedAsWanted, Wanted, fdVars
  <1>6. BatchInv'
    BY <1>1, <1>2 DEF BatchInv
  <1>7. CtrlInv'
    BY <1>1, <1>2, <1>3 DEF CtrlInv, At, fdVars, Frame, Reports
  <1>8. ASSUME FreshInv PROVE FreshInv'
    <2>1. ~stop => batch' = <<>>
      BY <1>1, <1>8 DEF FreshInv, At
    <2>2. batch' = <<>> => Len(batch') = 0
      BY EmptySeq
    <2>3. \A i \in 1..Len(stack') : i \in 1..Len(stack) \/ i = Len(stack) + 1
      BY <1>2, <1>3, LenProperties DEF FramesInv
    <2>4. released' = released /\ stop' = stop /\ Frame(onetime).fd = NoFd
      BY <1>1 DEF fdVars, Frame
    <2> QED
      BY <1>3, <1>8, <2>1, <2>2, <2>3, <2>4 DEF FreshInv
  <1> QED
    BY <1>3, <1>4, <1>5, <1>6, <1>7, <1>8 DEF LoopInv

(* The operations of handlers and the steps of others leave the frames and *)
(* the events alone; an entry is freed in a handler and, unless            *)
(* FreesInUse, only when no frame stands on it.                            *)
LEMMA OtherStep ==
  ASSUME LoopInv, UNCHANGED <<stack, batch>>, FdInv', LoopTypes',
         pipe' \in 0..PipeCap, pipe' >= pipe, ~stop' => ~stop,
         callbacks'[CtrlFd] = callbacks[CtrlFd],
         \A f \in Fds : released'[f] => released[f]
                                       \/ (At("handler") /\ (InUse(f) => FreesInUse))
  PROVE  LoopInv' /\ (FreshInv /\ ~FreesInUse => FreshInv')
  <1>1. FramesInv /\ BatchInv /\ CtrlInv
    BY DEF LoopInv
  <1>2. FramesInv' /\ BatchInv'
    BY <1>1 DEF FramesInv, BatchInv
  <1>3. CtrlInv'
    <2>1. pipe \in Nat /\ pipe' \in Nat
      BY <1>1, EpollAssumptions DEF CtrlInv
    <2>2. pipe > 0 => pipe' > 0
      BY <2>1
    <2> QED
      BY <1>1, <2>2 DEF CtrlInv, At, Top, Reports
  <1>4. ASSUME FreshInv, ~FreesInUse PROVE FreshInv'
    <2> SUFFICES ASSUME ~stop' PROVE
                   /\ batch # <<>> => At("events") /\ Len(batch) = 1
                   /\ \A i \in 1..Len(batch) : ~released'[batch[i].fd]
                   /\ \A i \in 1..Len(stack) : stack[i].fd # NoFd => ~released'[stack[i].fd]
      BY DEF FreshInv, At, Top
    <2>1. /\ batch # <<>> => At("events") /\ Len(batch) = 1
          /\ \A i \in 1..Len(batch) : ~released[batch[i].fd]
          /\ \A i \in 1..Len(stack) : stack[i].fd # NoFd => ~released[stack[i].fd]
      BY <1>4 DEF FreshInv
    <2>2. ASSUME NEW i \in 1..Len(batch) PROVE ~released'[batch[i].fd]
      <3>1. batch[i] \in LoopEvents
        BY <1>1, ElementOfSeq DEF BatchInv
      <3>2. batch[i].fd \in Fds
        BY <3>1 DEF LoopEvents
      <3>3. batch # <<>>
        <4>1. Len(<<>>) = 0
          BY EmptySeq
        <4> QED
          BY <4>1
      <3>4. ~At("handler")
        BY <2>1, <3>3 DEF At
      <3> QED
        BY <2>1, <3>2, <3>4
    <2>3. ASSUME NEW i \in 1..Len(stack), stack[i].fd # NoFd PROVE ~released'[stack[i].fd]
      <3>1. stack[i] \in Frames
        BY <1>1, ElementOfSeq DEF FramesInv
      <3>2. stack[i].fd \in Fds
        BY <2>3, <3>1 DEF Frames
      <3>3. InUse(stack[i].fd)
        BY <1>1, LenProperties DEF FramesInv, InUse
      <3> QED
        BY <1>4, <2>1, <2>3, <3>2, <3>3
    <2> QED
      BY <2>1, <2>2, <2>3
  <1> QED
    BY <1>2, <1>3, <1>4 DEF LoopInv

(* Operations change no other part than the descriptors and timeouts.      *)
LEMMA StepOperation ==
  ASSUME LoopInv, Operation, FdInv', UNCHANGED <<pipe, stop, batch, stack>>,
         phase_out' \in BOOLEAN, timeout' \in [Cbs -> 0..MaxTime],
         timeout_enabled' \in [Cbs -> BOOLEAN],
         callbacks'[CtrlFd] = callbacks[CtrlFd],
         \A f \in Fds : released'[f] => released[f] \/ (InUse(f) => FreesInUse)
  PROVE  LoopInv' /\ (FreshInv /\ ~FreesInUse => FreshInv')
  <1>1. LoopTypes /\ pipe \in 0..PipeCap
    BY DEF LoopInv, CtrlInv
  <1>2. ops' \in 0..MaxOps
    BY <1>1, EpollAssumptions DEF LoopTypes, Operation
  <1>3. LoopTypes'
    BY <1>1, <1>2 DEF LoopTypes, Operation, appVars
  <1>4. pipe' \in 0..PipeCap /\ pipe' >= pipe
    BY <1>1, EpollAssumptions
  <1>5. At("handler")
    BY DEF Operation
  <1> QED
    BY <1>3, <1>4, <1>5, OtherStep

LEMMA LoopStepInv ==
  ASSUME LoopInv, [Next]_vars
  PROVE  LoopInv' /\ (FreshInv /\ max_n_events <= 1 /\ ~FreesInUse => FreshInv')
  <1>1. FdInv' /\ FdInv /\ LoopTypes /\ pipe \in 0..PipeCap
    BY FdStep DEF LoopInv, CtrlInv
  <1>2. ASSUME UNCHANGED <<released, callbacks>>
        PROVE  /\ callbacks'[CtrlFd] = callbacks[CtrlFd]
               /\ \A f \in Fds : released'[f] => released[f]
    BY <1>2
  <1>3. CASE UNCHANGED vars
    BY <1>1, <1>3 DEF LoopInv, LoopTypes, FramesInv, BatchInv, CtrlInv, FreshInv, At,
                      Top, Reports, vars
  <1>4. ASSUME NEW c \in Cbs,
               \/ crtx_evloop_enable_cb(c) \/ crtx_evloop_disable_cb(c)
               \/ crtx_evloop_update_default_fd(c)
        PROVE  LoopInv' /\ (FreshInv /\ ~FreesInUse => FreshInv')
    <2>1. /\ Operation /\ UNCHANGED <<pipe, loopVars, timeVars, released, callbacks>>
      BY <1>4 DEF crtx_evloop_enable_cb, crtx_evloop_disable_cb,
                  crtx_evloop_update_default_fd
    <2>2. /\ phase_out' \in BOOLEAN /\ timeout' \in [Cbs -> 0..MaxTime]
          /\ timeout_enabled' \in [Cbs -> BOOLEAN] /\ UNCHANGED <<stop, batch, stack>>
      BY <1>1, <2>1 DEF LoopTypes, loopVars, timeVars
    <2> QED
      BY <1>1, <1>2, <2>1, <2>2, StepOperation
  <1>5. ASSUME NEW c \in Cbs, crtx_evloop_remove_cb(c)
        PROVE  LoopInv' /\ (FreshInv /\ ~FreesInUse => FreshInv')
    <2>1. /\ Operation /\ UNCHANGED <<pipe, loopVars, timeVars, released>>
          /\ callbacks' = [callbacks EXCEPT ![FdOf[c]] = Unlink(@, c)] /\ c # CtrlCb
      BY <1>5 DEF crtx_evloop_remove_cb, Linked
    <2>2. /\ phase_out' \in BOOLEAN /\ timeout' \in [Cbs -> 0..MaxTime]
          /\ timeout_enabled' \in [Cbs -> BOOLEAN] /\ UNCHANGED <<stop, batch, stack>>
      BY <1>1, <2>1 DEF LoopTypes, loopVars, timeVars
    <2>3. callbacks'[CtrlFd] = callbacks[CtrlFd]
      BY <1>1, <2>1, EpollAssumptions DEF FdInv, FdTypes
    <2> QED
      BY <1>1, <2>1, <2>2, <2>3, StepOperation
  <1>6. ASSUME NEW c \in Cbs, crtx_evloop_disable_timeout(c)
        PROVE  LoopInv' /\ (FreshInv /\ ~FreesInUse => FreshInv')
    <2>1. /\ Operation /\ UNCHANGED <<fdVars, pipe, loopVars, timeout>>
          /\ timeout_enabled' = [timeout_enabled EXCEPT ![c] = FALSE]
      BY <1>6 DEF crtx_evloop_disable_timeout
    <2>2. /\ phase_out' \in BOOLEAN /\ timeout' \in [Cbs -> 0..MaxTime]
          /\ timeout_enabled' \in [Cbs -> BOOLEAN] /\ UNCHANGED <<stop, batch, stack>>
      BY <1>1, <2>1 DEF LoopTypes, loopVars
    <2>3. UNCHANGED <<released, callbacks>>
      BY <2>1 DEF fdVars
    <2> QED
      BY <1>1, <1>2, <2>1, <2>2, <2>3, StepOperation
  <1>7. ASSUME NEW c \in Cbs, NEW d \in {0, 1}, crtx_evloop_set_timeout_rel(c, d)
        PROVE  LoopInv' /\ (FreshInv /\ ~FreesInUse => FreshInv')
    <2>1. /\ Operation /\ UNCHANGED <<fdVars, pipe, loopVars>> /\ now + d < MaxTime
          /\ timeout' = [timeout EXCEPT ![c] = now + d]
          /\ timeout_enabled' = [timeout_enabled EXCEPT ![c] = TRUE]
      BY <1>7 DEF crtx_evloop_set_timeout_rel
    <2>2. now + d \in 0..MaxTime
      BY <1>1, <2>1, EpollAssumptions DEF LoopTypes
    <2>3. /\ phase_out' \in BOOLEAN /\ timeout' \in [Cbs -> 0..MaxTime]
          /\ timeout_enabled' \in [Cbs -> BOOLEAN] /\ UNCHANGED <<stop, batch, stack>>
      BY <1>1, <2>1, <2>2 DEF LoopTypes, loopVars
    <2>4. UNCHANGED <<released, callbacks>>
      BY <2>1 DEF fdVars
    <2> QED
      BY <1>1, <1>2, <2>1, <2>3, <2>4, StepOperation
  <1>8. ASSUME NEW f \in Fds, crtx_evloop_handle_fd_closed(f)
        PROVE  LoopInv' /\ (FreshInv /\ ~FreesInUse => FreshInv')
    <2>1. /\ Operation /\ UNCHANGED <<pipe, loopVars, timeVars, released, callbacks>>
      BY <1>8 DEF crtx_evloop_handle_fd_closed
    <2>2. /\ phase_out' \in BOOLEAN /\ timeout' \in [Cbs -> 0..MaxTime]
          /\ timeout_enabled' \in [Cbs -> BOOLEAN] /\ UNCHANGED <<stop, batch, stack>>
      BY <1>1, <2>1 DEF LoopTypes, loopVars, timeVars
    <2> QED
      BY <1>1, <1>2, <2>1, <2>2, StepOperation
  <1>9. ASSUME NEW f \in Fds, crtx_shutdown_listener(f) \/ ReleaseListener(f)
        PROVE  LoopInv' /\ (FreshInv /\ ~FreesInUse => FreshInv')
    <2>1. /\ Operation /\ UNCHANGED <<pipe, loopVars, timeVars>>
          /\ callbacks' = [callbacks EXCEPT ![f] = <<>>] /\ f # CtrlFd
          /\ \/ released' = released
             \/ released' = [released EXCEPT ![f] = TRUE] /\ (InUse(f) => FreesInUse)
      BY <1>9 DEF crtx_shutdown_listener, ReleaseListener, Shutdown
    <2>2. /\ phase_out' \in BOOLEAN /\ timeout' \in [Cbs -> 0..MaxTime]
          /\ timeout_enabled' \in [Cbs -> BOOLEAN] /\ UNCHANGED <<stop, batch, stack>>
      BY <1>1, <2>1 DEF LoopTypes, loopVars, timeVars
    <2>3. callbacks'[CtrlFd] = callbacks[CtrlFd]
      BY <1>1, <2>1, EpollAssumptions DEF FdInv, FdTypes
    <2>4. \A g \in Fds : released'[g] => released[g] \/ (InUse(g) => FreesInUse)
      BY <1>1, <2>1 DEF FdInv, FdTypes
    <2> QED
      BY <1>1, <2>1, <2>2, <2>3, <2>4, StepOperation
  <1>10. CASE HandlerInitShutdown
    <2>1. Operation /\ UNCHANGED <<fdVars, timeVars, pipe, stop, batch, stack>> /\ phase_out' = TRUE
      BY <1>10 DEF HandlerInitShutdown
    <2>2. /\ phase_out' \in BOOLEAN /\ timeout' \in [Cbs -> 0..MaxTime]
          /\ timeout_enabled' \in [Cbs -> BOOLEAN] /\ UNCHANGED <<released, callbacks>>
      BY <1>1, <2>1 DEF LoopTypes, timeVars, fdVars
    <2> QED
      BY <1>1, <1>2, <2>1, <2>2, StepOperation
  <1>11. ASSUME NEW onetime \in BOOLEAN, StartLoop(onetime)
         PROVE  LoopInv' /\ (FreshInv /\ ~FreesInUse => FreshInv')
    BY <1>11, StepStartLoop
  <1>12. CASE LoopStep
    BY <1>12, StepNextEvent, StepEventsDone, StepDispatch, StepHandlerReturns,
       StepScanTimeout, StepTimeoutsDone, StepEpollWait DEF LoopStep
  <1>13. ASSUME UNCHANGED <<fdVars, stack, batch>>, LoopTypes', ~stop' => ~stop,
                pipe' \in 0..PipeCap, pipe' >= pipe
         PROVE  LoopInv' /\ (FreshInv /\ ~FreesInUse => FreshInv')
    <2>1. UNCHANGED <<released, callbacks>>
      BY <1>13 DEF fdVars
    <2> QED
      BY <1>1, <1>2, <1>13, <2>1, OtherStep
  <1>14. ASSUME pipe' = pipe PROVE pipe' \in 0..PipeCap /\ pipe' >= pipe
    BY <1>1, <1>14, EpollAssumptions
  <1>15. ASSUME pipe' = pipe + 1, pipe < PipeCap PROVE pipe' \in 0..PipeCap /\ pipe' >= pipe
    BY <1>1, <1>15, EpollAssumptions
  <1>16. CASE StopFlag
    <2>1. LoopTypes'
      BY <1>1, <1>16 DEF LoopTypes, StopFlag, timeVars
    <2> QED
      BY <1>13, <1>14, <1>16, <2>1 DEF StopFlag
  <1>17. CASE StopWrite
    <2>1. LoopTypes'
      BY <1>1, <1>17 DEF LoopTypes, StopWrite, timeVars, loopVars
    <2> QED
      BY <1>13, <1>15, <1>17, <2>1 DEF StopWrite, loopVars
  <1>18. CASE InitShutdown
    <2>1. LoopTypes'
      BY <1>1, <1>18 DEF LoopTypes, InitShutdown, timeVars, appVars
    <2> QED
      BY <1>13, <1>14, <1>18, <2>1 DEF InitShutdown
  <1>19. CASE QueueRequest
    <2>1. arrivals' \in 0..MaxArrivals
      BY <1>1, <1>19, EpollAssumptions DEF LoopTypes, QueueRequest
    <2>2. LoopTypes'
      BY <1>1, <1>19, <2>1 DEF LoopTypes, QueueRequest, timeVars, loopVars
    <2> QED
      BY <1>13, <1>15, <1>19, <2>2 DEF QueueRequest, loopVars
  <1>20. ASSUME NEW f \in Fds, NEW k \in {"in", "out", "err"}, BecomesReady(f, k)
         PROVE  LoopInv' /\ (FreshInv /\ ~FreesInUse => FreshInv')
    <2>1. arrivals' \in 0..MaxArrivals
      BY <1>1, <1>20, EpollAssumptions DEF LoopTypes, BecomesReady
    <2>2. ready' \in [Fds -> SUBSET {"in", "out", "err"}]
      BY <1>1, <1>20 DEF LoopTypes, BecomesReady
    <2>3. LoopTypes'
      BY <1>1, <1>20, <2>1, <2>2 DEF LoopTypes, BecomesReady, timeVars, loopVars
    <2> QED
      BY <1>13, <1>14, <1>20, <2>3 DEF BecomesReady, loopVars
  <1>21. CASE Tick
    <2>1. now' \in 1..MaxTime
      BY <1>1, <1>21, EpollAssumptions DEF LoopTypes, Tick
    <2>2. LoopTypes'
      BY <1>1, <1>21, <2>1 DEF LoopTypes, Tick, timeVars, loopVars, appVars
    <2> QED
      BY <1>13, <1>14, <1>21, <2>2 DEF Tick, loopVars
  <1> QED
    BY <1>3, <1>4, <1>5, <1>6, <1>7, <1>8, <1>9, <1>10, <1>11, <1>12, <1>16, <1>17,
       <1>18, <1>19, <1>20, <1>21 DEF Next

LEMMA LoopInit ==
  ASSUME Init
  PROVE  LoopInv /\ FreshInv
  <1>1. FdInv
    BY FdInit
  <1>2. LoopTypes
    <2>1. 0 \in 0..MaxTime /\ 1 \in 0..MaxTime /\ 1 \in 1..MaxTime
          /\ 0 \in 0..MaxOps /\ 0 \in 0..MaxArrivals
      BY EpollAssumptions
    <2>2. PICK timed : /\ timeout = [c \in Cbs |-> IF c \in timed THEN 1 ELSE 0]
                       /\ timeout_enabled = [c \in Cbs |-> c \in timed]
      BY DEF Init
    <2>3. timeout \in [Cbs -> 0..MaxTime] /\ timeout_enabled \in [Cbs -> BOOLEAN]
      BY <2>1, <2>2
    <2>4. /\ ready = [f \in Fds |-> {}] /\ phase_out = FALSE
          /\ now = 1 /\ ops = 0 /\ apc = "idle" /\ arrivals = 0
      BY DEF Init
    <2> QED
      BY <2>1, <2>3, <2>4 DEF LoopTypes
  <1>3. stack = <<>> /\ batch = <<>> /\ pipe = 0
    BY DEF Init
  <1>4. Len(stack) = 0 /\ stack \in Seq(Frames) /\ Len(batch) = 0 /\ batch \in Seq(LoopEvents)
    BY <1>3, EmptySeq
  <1>5. FramesInv /\ BatchInv
    BY <1>4 DEF FramesInv, BatchInv
  <1>6. callbacks[CtrlFd] = <<CtrlCb>>
    <2>1. {c \in Cbs : FdOf[c] = CtrlFd} = {CtrlCb}
      BY EpollAssumptions
    <2>2. callbacks[CtrlFd] = SetToSeq({CtrlCb})
      BY <2>1, EpollAssumptions DEF Init
    <2>3. IsFiniteSet({CtrlCb}) /\ Cardinality({CtrlCb}) = 1
      BY FS_Singleton
    <2>4. SetToSeq({CtrlCb}) \in [1..1 -> {CtrlCb}]
      <3>1. SetToSeq({CtrlCb}) \in Seq({CtrlCb}) /\ ToSet(SetToSeq({CtrlCb})) = {CtrlCb}
        BY <2>3, SetToSeqElements
      <3>2. \E f \in [1..1 -> {CtrlCb}] : IsInjective(f)
        <4>1. [i \in 1..1 |-> CtrlCb] \in [1..1 -> {CtrlCb}]
              /\ IsInjective([i \in 1..1 |-> CtrlCb])
          BY DEF IsInjective
        <4> QED
          BY <4>1
      <3> QED
        BY <2>3, <3>2 DEF SetToSeq
    <2> QED
      BY <2>2, <2>4
  <1>7. CtrlInv
    BY <1>3, <1>4, <1>6, EpollAssumptions DEF CtrlInv, Reports, At
  <1>8. FreshInv
    BY <1>3, <1>4 DEF FreshInv
  <1> QED
    BY <1>1, <1>2, <1>5, <1>7, <1>8 DEF LoopInv

(* The inductive invariant of the loop: the descriptors, the frames of     *)
(* nested loops, the events that wait and the requests in the pipe.        *)
THEOREM LoopInvariance == Spec => []LoopInv
  <1>1. Init => LoopInv
    BY LoopInit
  <1>2. LoopInv /\ [Next]_vars => LoopInv'
    BY LoopStepInv
  <1> QED
    BY <1>1, <1>2, PTL DEF Spec

(* Every value has its type in every reachable state; in particular the    *)
(* handler of the control pipe (crtx_evloop's control pipe callback) never *)
(* reads from an empty pipe, however loops are nested and however many     *)
(* events epoll_wait returns, and the time epoll_wait is given is one of   *)
(* the timeouts.                                                           *)
THEOREM LoopTypeCorrect == Spec => []TypeOK
  <1>1. LoopInv => TypeOK
    <2> SUFFICES ASSUME LoopInv PROVE TypeOK
      OBVIOUS
    <2>1. FdTypes /\ LoopTypes /\ pipe \in 0..PipeCap
      BY DEF LoopInv, FdInv, CtrlInv
    <2>2. ASSUME NEW i \in DOMAIN batch PROVE batch[i].fd \in Fds
      <3>1. batch[i] \in LoopEvents
        BY ElementOfSeq, LenProperties DEF LoopInv, BatchInv
      <3> QED
        BY <3>1 DEF LoopEvents
    <2>3. \A i \in DOMAIN stack : stack[i] \in Frames
      BY ElementOfSeq, LenProperties DEF LoopInv, FramesInv
    <2> QED
      BY <2>1, <2>2, <2>3 DEF TypeOK, FdTypes, LoopTypes
  <1> QED
    BY <1>1, LoopInvariance, PTL

(* With one event per call of epoll_wait, which is what                    *)
(* crtx_setup_epoll_listener sets when the option is not given, and an     *)
(* application that frees no listener a loop stands on, the loop follows   *)
(* no pointer to a freed entry, neither in the events it was given nor in  *)
(* the list of timeouts, whatever handlers close, remove, shut down and    *)
(* free and however deep they enter the loop again.                        *)
THEOREM FreedEntriesAreNotUsed ==
  ASSUME max_n_events <= 1, ~FreesInUse
  PROVE  Spec => []NoStaleEntry
  <1>1. Init => LoopInv /\ FreshInv
    BY LoopInit
  <1>2. (LoopInv /\ FreshInv) /\ [Next]_vars => (LoopInv /\ FreshInv)'
    BY LoopStepInv
  <1>3. LoopInv /\ FreshInv => NoStaleEntry
    <2> SUFFICES ASSUME LoopInv, FreshInv PROVE NoStaleEntry
      OBVIOUS
    <2>1. DOMAIN batch = 1..Len(batch) /\ DOMAIN stack = 1..Len(stack)
      BY LenProperties DEF LoopInv, BatchInv, FramesInv
    <2>2. \A f \in ToSet(fds) : ~released[f]
      BY DEF LoopInv, FdInv, Entries
    <2> QED
      BY <2>1, <2>2 DEF FreshInv, NoStaleEntry
  <1> QED
    BY <1>1, <1>2, <1>3, PTL DEF Spec

=============================================================================
