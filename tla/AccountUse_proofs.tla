-------------------------- MODULE AccountUse_proofs --------------------------
(***************************************************************************)
(* Proofs about how the accounts of the Grok pool are used.  AccountDirec- *)
(* tory: for any number of tokens, requests, pools and modes, strategies   *)
(* that change and every value of the bounds.  AccountUsage: what no       *)
(* writer of an account record can break, for any number of tasks and      *)
(* recovery loops and any sizes of the console window.  The two share no   *)
(* variable.                                                               *)
(***************************************************************************)
EXTENDS AccountDirectory, AccountUsage, FiniteSetTheorems, SequenceTheorems, TLAPS

-----------------------------------------------------------------------------
(* Types *)

LEMMA CandidateType ==
    ASSUME NEW i \in DOMAIN Candidates
    PROVE  /\ Candidates[i].pool \in Pools /\ Candidates[i].mode \in Modes
           /\ Candidates[i] \in [pool : Pools, mode : Modes]
  <1>1. Candidates \in Seq([pool : Pools, mode : Modes])
    BY DirectoryAssumption
  <1>2. Candidates[i] \in [pool : Pools, mode : Modes]
    BY <1>1, LenProperties, ElementOfSeq
  <1> QED BY <1>2

\* Whatever the strategy, only indexed accounts are offered.
LEMMA OfferedIndexed ==
    ASSUME TypeOK, NEW i \in DOMAIN Candidates, NEW r \in Requests,
           NEW t \in Offered(Candidates[i], r)
    PROVE  \E m \in Modes : t \in bucket[<<Candidates[i].pool, m>>]
  BY CandidateType DEF Offered, PoolUnion

LEMMA OfferedType ==
    ASSUME TypeOK, NEW i \in DOMAIN Candidates, NEW r \in Requests,
           NEW t \in Offered(Candidates[i], r)
    PROVE  t \in Tokens
  <1>1. PICK m \in Modes : t \in bucket[<<Candidates[i].pool, m>>]
    BY OfferedIndexed
  <1>2. <<Candidates[i].pool, m>> \in Pools \X Modes
    BY CandidateType
  <1> QED BY <1>1, <1>2 DEF TypeOK

\* An account offered to a request under the cap is below it.
LEMMA OfferedCapped ==
    ASSUME TypeOK, NEW i \in DOMAIN Candidates, NEW r \in Requests, Capped(r),
           NEW t \in Offered(Candidates[i], r)
    PROVE  inflight[t] < Cap[strategy]
  <1>1. CASE strategy = "random"
    BY <1>1 DEF Offered
  <1>2. CASE strategy # "random"
    <2>1. ~AnyQuota(product[r])
      BY <1>2, DirectoryAssumption DEF Capped, AnyQuota, TypeOK
    <2> QED BY <1>2, <2>1 DEF Offered
  <1> QED BY <1>1, <1>2

LEMMA RefilledType ==
    ASSUME TypeOK, NEW n, NEW r \in Requests
    PROVE  /\ Refilled(n, r) \in [Tokens -> Slot]
           /\ \A t \in Tokens : /\ Refilled(n, r)[t].status = slot[t].status
                                /\ Refilled(n, r)[t].pool = slot[t].pool
  <1> SUFFICES ASSUME NEW t \in Tokens
               PROVE  /\ Refilled(n, r)[t] \in Slot
                      /\ Refilled(n, r)[t].status = slot[t].status
                      /\ Refilled(n, r)[t].pool = slot[t].pool
    BY DEF Refilled
  <1> DEFINE q == [m \in Modes |-> IF Refills(t, m, n, r) THEN Total ELSE slot[t].quota[m]]
             z == [m \in Modes |-> IF Refills(t, m, n, r) THEN "later" ELSE slot[t].reset[m]]
  <1>1. slot[t] \in Slot
    BY DEF TypeOK
  <1>2. q \in [Modes -> 0..Total] /\ z \in [Modes -> Resets]
    BY <1>1, DirectoryAssumption DEF Slot, Resets
  <1>3. Refilled(n, r)[t] = [slot[t] EXCEPT !.quota = q, !.reset = z]
    BY DEF Refilled
  <1> HIDE DEF q, z
  <1> QED BY <1>1, <1>2, <1>3 DEF Slot

LEMMA ScoredType ==
    ASSUME NEW s \in Slot, NEW m \in Modes, NEW kind
    PROVE  /\ Scored(s, m, kind) \in Slot
           /\ Scored(s, m, kind).pool = s.pool
           /\ Scored(s, m, kind).status = (IF kind = "unauthorized" THEN "expired" ELSE s.status)
  <1>1. /\ s.quota \in [Modes -> 0..Total] /\ s.fails \in 0..MaxFails
        /\ s.status \in Statuses /\ Total \in Nat /\ MaxFails \in Nat
    BY DirectoryAssumption DEF Slot
  <1>2. CASE kind = "none"
    BY <1>2 DEF Scored
  <1>3. CASE kind = "success"
    <2>1. CASE strategy = "quota" /\ s.quota[m] > 0
      <3>1. s.quota[m] - 1 \in 0..Total
        BY <1>1, <2>1
      <3>2. [s.quota EXCEPT ![m] = @ - 1] \in [Modes -> 0..Total]
        BY <1>1, <3>1
      <3>3. Scored(s, m, kind) = [s EXCEPT !.quota = [s.quota EXCEPT ![m] = @ - 1]]
        BY <1>3, <2>1 DEF Scored, Slot
      <3> QED BY <1>3, <3>2, <3>3 DEF Slot
    <2>2. CASE ~(strategy = "quota" /\ s.quota[m] > 0)
      BY <1>3, <2>2 DEF Scored
    <2> QED BY <2>1, <2>2
  <1>4. CASE kind # "none" /\ kind # "success"
    <2> DEFINE f == IF s.fails < MaxFails THEN s.fails + 1 ELSE s.fails
               u == IF kind = "unauthorized" THEN "expired" ELSE s.status
               q == [s.quota EXCEPT ![m] =
                        IF kind = "rate_limited" /\ strategy = "quota" /\ m # ConsoleMode
                        THEN 0 ELSE @]
    <2>1. f \in 0..MaxFails /\ u \in Statuses
      BY <1>1 DEF Statuses
    <2>2. q \in [Modes -> 0..Total]
      BY <1>1
    <2>3. Scored(s, m, kind) = [s EXCEPT !.fails = f, !.status = u, !.quota = q]
      BY <1>4 DEF Scored, Slot
    <2> HIDE DEF f, q
    <2> QED BY <2>1, <2>2, <2>3 DEF Slot
  <1> QED BY <1>2, <1>3, <1>4

LEMMA IndexType ==
    ASSUME TypeOK, NEW t \in Tokens, NEW row \in Slot
    PROVE  /\ Removed(bucket, t) \in [Pools \X Modes -> SUBSET Tokens]
           /\ Added(Removed(bucket, t), t, row) \in [Pools \X Modes -> SUBSET Tokens]
  BY DEF Removed, Added, TypeOK

-----------------------------------------------------------------------------
(* Requests and what they hold *)

LEMMA Held ==
    ASSUME TypeOK, LeaseOK, NEW r \in Requests, pc[r] \in {"opening", "running"}
    PROVE  /\ lease[r] \in [token : Tokens, mode : Modes]
           /\ lease[r].token \in Tokens /\ lease[r].mode \in Modes
  BY DEF TypeOK, LeaseOK

LEMMA Free ==
    ASSUME TypeOK, LeaseOK, NEW r \in Requests, pc[r] \notin {"opening", "running"}
    PROVE  lease[r] = Nothing
  BY DEF TypeOK, LeaseOK

LEMMA HoldersFinite ==
    ASSUME NEW t
    PROVE  IsFiniteSet(Holders(t)) /\ Cardinality(Holders(t)) \in Nat
  <1>1. IsFiniteSet(Requests) /\ Holders(t) \subseteq Requests
    BY DirectoryAssumption DEF Holders
  <1>2. IsFiniteSet(Holders(t))
    BY <1>1, FS_Subset
  <1> QED BY <1>2, FS_CardinalityType

\* A request that takes an account is one more of its holders.
LEMMA HoldersTake ==
    ASSUME TypeOK, NEW r \in Requests, NEW t \in Tokens, NEW m,
           lease[r] = Nothing, lease' = [lease EXCEPT ![r] = [token |-> t, mode |-> m]]
    PROVE  /\ Cardinality(Holders(t)') = Cardinality(Holders(t)) + 1
           /\ \A u \in Tokens \ {t} : Holders(u)' = Holders(u)
  <1>1. DOMAIN lease = Requests /\ NoLease \notin Tokens
    BY DirectoryAssumption DEF TypeOK
  <1>2. r \notin Holders(t)
    BY <1>1 DEF Holders, Nothing
  <1>3. Holders(t)' = Holders(t) \cup {r}
    BY <1>1 DEF Holders
  <1>4. Cardinality(Holders(t) \cup {r}) = Cardinality(Holders(t)) + 1
    BY <1>2, HoldersFinite, FS_AddElement
  <1>5. ASSUME NEW u \in Tokens \ {t} PROVE Holders(u)' = Holders(u)
    BY <1>1, <1>5 DEF Holders, Nothing
  <1> QED BY <1>3, <1>4, <1>5

\* A request that drops its account is one holder less.
LEMMA HoldersDrop ==
    ASSUME TypeOK, NEW r \in Requests, NEW t \in Tokens,
           lease[r].token = t, lease' = [lease EXCEPT ![r] = Nothing]
    PROVE  /\ Cardinality(Holders(t)) > 0
           /\ Cardinality(Holders(t)') = Cardinality(Holders(t)) - 1
           /\ \A u \in Tokens \ {t} : Holders(u)' = Holders(u)
  <1>1. DOMAIN lease = Requests /\ NoLease \notin Tokens
    BY DirectoryAssumption DEF TypeOK
  <1>2. r \in Holders(t)
    BY DEF Holders
  <1>3. Holders(t)' = Holders(t) \ {r}
    BY <1>1 DEF Holders, Nothing
  <1>4. Cardinality(Holders(t) \ {r}) = Cardinality(Holders(t)) - 1
    BY <1>2, HoldersFinite, FS_RemoveElement
  <1>5. Cardinality(Holders(t)) # 0
    BY <1>2, HoldersFinite, FS_EmptySet
  <1>6. ASSUME NEW u \in Tokens \ {t} PROVE Holders(u)' = Holders(u)
    BY <1>1, <1>6 DEF Holders, Nothing
  <1> QED BY <1>3, <1>4, <1>5, <1>6, HoldersFinite

\* What Reserve does, with its witnesses named.
LEMMA ReserveFacts ==
    ASSUME DirectoryInv, NEW r \in Requests, Reserve(r)
    PROVE  \E i \in DOMAIN Candidates, t \in Tokens :
              /\ t \in Offered(Candidates[i], r)
              /\ Candidates[i].mode \in Modes
              /\ slot[t].status = "active"
              /\ slot' = Refilled(i, r)
              /\ inflight' = [inflight EXCEPT ![t] = @ + 1]
              /\ lease[r] = Nothing
              /\ lease' = [lease EXCEPT ![r] = [token |-> t, mode |-> Candidates[i].mode]]
  <1>1. TypeOK /\ LeaseOK /\ ModeIndexExact
    BY DEF DirectoryInv
  <1>2. PICK i \in DOMAIN Candidates : \E t \in Offered(Candidates[i], r) :
            /\ slot' = Refilled(i, r)
            /\ inflight' = [inflight EXCEPT ![t] = @ + 1]
            /\ lease' = [lease EXCEPT ![r] = [token |-> t, mode |-> Candidates[i].mode]]
    BY DEF Reserve
  <1>3. PICK t \in Offered(Candidates[i], r) :
            /\ slot' = Refilled(i, r)
            /\ inflight' = [inflight EXCEPT ![t] = @ + 1]
            /\ lease' = [lease EXCEPT ![r] = [token |-> t, mode |-> Candidates[i].mode]]
    BY <1>2
  <1>4. t \in Tokens
    BY <1>1, OfferedType
  <1>5. slot[t].status = "active"
    <2>1. PICK m \in Modes : t \in bucket[<<Candidates[i].pool, m>>]
      BY <1>1, OfferedIndexed
    <2> QED BY <1>1, <2>1, CandidateType DEF ModeIndexExact
  <1>6. lease[r] = Nothing
    BY <1>1, Free DEF Reserve
  <1> QED BY <1>3, <1>4, <1>5, <1>6, CandidateType

LEMMA InitInv == Init => DirectoryInv
  <1> SUFFICES ASSUME Init PROVE DirectoryInv
    OBVIOUS
  <1>1. TypeOK
    <2>1. PICK p \in Pools : slot = [t \in Tokens |-> EmptySlot(p)]
      BY DEF Init
    <2>2. EmptySlot(p) \in Slot
      BY DirectoryAssumption DEF EmptySlot, Slot, Statuses, Resets
    <2>3. MaxRetries \in Nat
      BY DirectoryAssumption
    <2> QED BY <2>1, <2>2, <2>3 DEF Init, TypeOK
  <1>2. LeaseOK
    BY DEF Init, LeaseOK
  <1>3. \A t \in Tokens : slot[t].status = "absent" /\ inflight[t] = 0 /\ abandoned[t] = 0
    BY DEF Init, EmptySlot
  <1>4. AbsentIdle /\ ModeIndexExact
    BY <1>3 DEF AbsentIdle, ModeIndexExact, Init
  <1>5. InflightCounts
    <2> SUFFICES ASSUME NEW t \in Tokens PROVE inflight[t] = Cardinality(Holders(t)) + abandoned[t]
      BY DEF InflightCounts
    <2>1. Holders(t) = {}
      BY DirectoryAssumption DEF Init, Holders, Nothing
    <2> QED BY <2>1, <1>3, FS_EmptySet
  <1>6. ConcurrencyCap
    <2> SUFFICES ASSUME NEW t \in Tokens PROVE UnderCap(Cardinality(CappedHolders(t)))
      BY DEF ConcurrencyCap
    <2>1. CappedHolders(t) = {}
      BY DirectoryAssumption DEF Init, CappedHolders, Holders, Nothing
    <2>2. strategy \in Strategies /\ Cap[strategy] >= 0
      BY DirectoryAssumption DEF Init
    <2> QED BY <2>1, <2>2, FS_EmptySet DEF UnderCap
  <1> QED BY <1>1, <1>2, <1>4, <1>5, <1>6 DEF DirectoryInv

-----------------------------------------------------------------------------
(* Every step keeps the types *)

LEMMA OverType ==
    ASSUME TypeOK, NEW r \in Requests, Over(r)
    PROVE  /\ pc' \in [Requests -> {"idle", "reserve", "refresh", "again", "opening", "running"}]
           /\ product' \in [Requests -> {"none", "chat", "image", "edit", "voice"}]
           /\ excluded' \in [Requests -> SUBSET Tokens]
           /\ attempt' \in [Requests -> 0..MaxRetries]
  BY DirectoryAssumption DEF TypeOK, Over

\* release: one less, never below zero.
LEMMA ReleaseType ==
    ASSUME TypeOK, NEW t \in Tokens
    PROVE  [inflight EXCEPT ![t] = IF @ > 0 THEN @ - 1 ELSE 0] \in [Tokens -> Nat]
  BY DEF TypeOK

LEMMA SyncTypes ==
    ASSUME TypeOK,
           NEW t \in Tokens,
           \/ \E row \in StoreRows : SyncRow(t, row)
           \/ SyncDeletion(t) \/ CoolingEnds(t) \/ \E m \in Modes : WindowEnds(t, m)
    PROVE  TypeOK'
  <1>1. ASSUME NEW row \in StoreRows, SyncRow(t, row) PROVE TypeOK'
    <2>1. row \in Slot
      BY DirectoryAssumption
    <2>2. slot' \in [Tokens -> Slot]
      BY <1>1, <2>1 DEF SyncRow, TypeOK
    <2>3. bucket' \in [Pools \X Modes -> SUBSET Tokens]
      BY <1>1, <2>1, IndexType DEF SyncRow
    <2>4. inflight' \in [Tokens -> Nat] /\ cooling' \in [Tokens -> BOOLEAN]
      <3>1. inflight \in [Tokens -> Nat] /\ cooling \in [Tokens -> BOOLEAN]
        BY DEF TypeOK
      <3>2. CASE slot[t].status = "absent"
        <4>1. /\ inflight' = [inflight EXCEPT ![t] = 0]
              /\ cooling' = [cooling EXCEPT ![t] = FALSE]
          BY <1>1, <3>2 DEF SyncRow
        <4> QED BY <3>1, <4>1
      <3>3. CASE slot[t].status # "absent"
        BY <1>1, <3>1, <3>3 DEF SyncRow
      <3> QED BY <3>2, <3>3
    <2> QED BY <1>1, <2>2, <2>3, <2>4 DEF SyncRow, TypeOK, requestVars
  <1>2. CASE SyncDeletion(t)
    <2>1. slot' \in [Tokens -> Slot]
      <3>1. slot[t] \in Slot
        BY DEF TypeOK
      <3>2. [slot[t] EXCEPT !.status = "deleted"] \in Slot
        BY <3>1 DEF Slot, Statuses
      <3>3. slot' = [slot EXCEPT ![t] = [slot[t] EXCEPT !.status = "deleted"]]
        BY <1>2 DEF SyncDeletion
      <3> QED BY <3>2, <3>3 DEF TypeOK
    <2>2. bucket' \in [Pools \X Modes -> SUBSET Tokens]
      BY <1>2 DEF SyncDeletion, Removed, TypeOK
    <2> QED BY <1>2, <2>1, <2>2 DEF SyncDeletion, TypeOK, requestVars
  <1>3. CASE CoolingEnds(t)
    BY <1>3 DEF CoolingEnds, TypeOK, requestVars
  <1>4. ASSUME NEW m \in Modes, WindowEnds(t, m) PROVE TypeOK'
    <2>1. slot' \in [Tokens -> Slot]
      <3> DEFINE z == [slot[t].reset EXCEPT ![m] = "due"]
      <3>1. slot[t] \in Slot
        BY DEF TypeOK
      <3>2. z \in [Modes -> Resets]
        BY <3>1 DEF Slot, Resets
      <3>3. slot' = [slot EXCEPT ![t] = [slot[t] EXCEPT !.reset = z]]
        BY <1>4, <3>1 DEF WindowEnds, Slot, TypeOK
      <3> HIDE DEF z
      <3>4. [slot[t] EXCEPT !.reset = z] \in Slot
        BY <3>1, <3>2 DEF Slot
      <3> QED BY <3>3, <3>4 DEF TypeOK
    <2> QED BY <1>4, <2>1 DEF WindowEnds, TypeOK, requestVars
  <1> QED BY <1>1, <1>2, <1>3, <1>4

\* What Finish does to the slot it had, with its type.
LEMMA FinishSlot ==
    ASSUME TypeOK, LeaseOK, NEW r \in Requests, NEW kind \in Kinds, NEW retry \in BOOLEAN,
           Finish(r, kind, retry)
    PROVE  /\ slot' \in [Tokens -> Slot]
           /\ \A t \in Tokens :
                 /\ slot'[t].pool = slot[t].pool
                 /\ slot'[t].status =
                      (IF t = lease[r].token /\ Reported(product[r], kind) = "unauthorized"
                       THEN "expired" ELSE slot[t].status)
  <1> DEFINE t == lease[r].token
             m == lease[r].mode
             k == Reported(product[r], kind)
  <1>1. t \in Tokens /\ m \in Modes
    BY Held DEF Finish
  <1>2. slot[t] \in Slot
    BY <1>1 DEF TypeOK
  <1>3. slot' = [slot EXCEPT ![t] = Scored(slot[t], m, k)]
    BY <1>1 DEF Finish, TypeOK
  <1> HIDE DEF k, m
  <1>4. /\ Scored(slot[t], m, k) \in Slot
        /\ Scored(slot[t], m, k).pool = slot[t].pool
        /\ Scored(slot[t], m, k).status = (IF k = "unauthorized" THEN "expired" ELSE slot[t].status)
    BY <1>1, <1>2, ScoredType
  <1> HIDE DEF t
  <1>5. slot' \in [Tokens -> Slot]
    BY <1>1, <1>3, <1>4 DEF TypeOK
  <1>6. \A u \in Tokens : /\ slot'[u].pool = slot[u].pool
                          /\ slot'[u].status = (IF u = t /\ k = "unauthorized"
                                                THEN "expired" ELSE slot[u].status)
    BY <1>1, <1>3, <1>4 DEF TypeOK
  <1> QED BY <1>5, <1>6 DEF t, k

LEMMA RequestTypes ==
    ASSUME DirectoryInv, NEW r \in Requests,
           (\E p \in Products : Begin(r, p)) \/ RequestStep(r) \/ Abandon(r)
    PROVE  TypeOK'
  <1>0. TypeOK /\ LeaseOK
    BY DEF DirectoryInv
  <1>1. ASSUME NEW p \in Products, Begin(r, p) PROVE TypeOK'
    BY <1>0, <1>1, DirectoryAssumption DEF Begin, TypeOK, tableVars
  <1>2. CASE Reserve(r)
    <2>1. PICK i \in DOMAIN Candidates, t \in Tokens :
              /\ Candidates[i].mode \in Modes
              /\ slot' = Refilled(i, r)
              /\ inflight' = [inflight EXCEPT ![t] = @ + 1]
              /\ lease' = [lease EXCEPT ![r] = [token |-> t, mode |-> Candidates[i].mode]]
      BY <1>2, ReserveFacts
    <2>2. slot' \in [Tokens -> Slot]
      BY <1>0, <2>1, RefilledType
    <2>3. inflight' \in [Tokens -> Nat]
      BY <1>0, <2>1 DEF TypeOK
    <2>4. lease' \in [Requests -> [token : Tokens, mode : Modes] \cup {Nothing}]
      BY <1>0, <2>1 DEF TypeOK
    <2>5. pc' \in [Requests -> {"idle", "reserve", "refresh", "again", "opening", "running"}]
      BY <1>0, <1>2 DEF TypeOK, Reserve
    <2> QED BY <1>0, <1>2, <2>2, <2>3, <2>4, <2>5 DEF TypeOK, Reserve
  <1>3. CASE NoAccount(r)
    <2>1. slot' \in [Tokens -> Slot]
      BY <1>0, <1>3, RefilledType DEF NoAccount
    <2>2. CASE Over(r)
      BY <1>0, <1>3, <2>1, <2>2, OverType DEF NoAccount, TypeOK
    <2>3. CASE pc' = [pc EXCEPT ![r] = "refresh"] /\ UNCHANGED <<product, excluded, attempt>>
      BY <1>0, <1>3, <2>1, <2>3 DEF NoAccount, TypeOK
    <2> QED BY <1>3, <2>2, <2>3 DEF NoAccount
  <1>4. CASE RefreshOnDemand(r) \/ StreamStarts(r)
    BY <1>0, <1>4 DEF RefreshOnDemand, StreamStarts, TypeOK, tableVars
  <1>5. CASE SetupFails(r)
    <2>1. lease[r].token \in Tokens
      BY <1>0, <1>5, Held DEF SetupFails
    <2>2. inflight' \in [Tokens -> Nat]
      BY <1>0, <1>5, <2>1, ReleaseType DEF SetupFails
    <2>3. lease' \in [Requests -> [token : Tokens, mode : Modes] \cup {Nothing}]
      BY <1>0, <1>5 DEF SetupFails, TypeOK
    <2> QED BY <1>0, <1>5, <2>2, <2>3, OverType DEF SetupFails, TypeOK
  <1>6. CASE Abandon(r)
    <2>1. lease[r].token \in Tokens
      BY <1>0, <1>6, Held DEF Abandon
    <2>2. abandoned' \in [Tokens -> Nat]
      BY <1>0, <1>6, <2>1 DEF Abandon, TypeOK
    <2>3. lease' \in [Requests -> [token : Tokens, mode : Modes] \cup {Nothing}]
      BY <1>0, <1>6 DEF Abandon, TypeOK
    <2> QED BY <1>0, <1>6, <2>2, <2>3, OverType DEF Abandon, TypeOK, tableVars
  <1>7. ASSUME NEW kind \in Kinds, NEW retry \in BOOLEAN, Finish(r, kind, retry) PROVE TypeOK'
    <2>1. lease[r].token \in Tokens
      BY <1>0, <1>7, Held DEF Finish
    <2>2. slot' \in [Tokens -> Slot]
      BY <1>0, <1>7, FinishSlot
    <2>3. inflight' \in [Tokens -> Nat]
      BY <1>0, <1>7, <2>1, ReleaseType DEF Finish
    <2>4. bucket' \in [Pools \X Modes -> SUBSET Tokens]
      BY <1>0, <1>7 DEF Finish, Removed, TypeOK
    <2>5. cooling' \in [Tokens -> BOOLEAN]
      BY <1>0, <1>7, <2>1 DEF Finish, TypeOK
    <2>6. lease' \in [Requests -> [token : Tokens, mode : Modes] \cup {Nothing}]
      BY <1>0, <1>7 DEF Finish, TypeOK
    <2>7. /\ pc' \in [Requests -> {"idle", "reserve", "refresh", "again", "opening", "running"}]
          /\ product' \in [Requests -> {"none", "chat", "image", "edit", "voice"}]
          /\ excluded' \in [Requests -> SUBSET Tokens]
          /\ attempt' \in [Requests -> 0..MaxRetries]
      <3>1. CASE Over(r)
        BY <1>0, <3>1, OverType
      <3>2. CASE /\ attempt[r] < Retries(product[r])
                 /\ pc' = [pc EXCEPT ![r] = "reserve"]
                 /\ excluded' = [excluded EXCEPT ![r] = @ \cup {lease[r].token}]
                 /\ attempt' = [attempt EXCEPT ![r] = @ + 1]
                 /\ UNCHANGED product
        <4>1. attempt[r] + 1 \in 0..MaxRetries
          BY <1>0, <3>2, DirectoryAssumption DEF TypeOK, Retries
        <4> QED BY <1>0, <3>2, <4>1, <2>1 DEF TypeOK
      <3> QED BY <1>7, <3>1, <3>2 DEF Finish
    <2> QED BY <1>0, <1>7, <2>2, <2>3, <2>4, <2>5, <2>6, <2>7 DEF Finish, TypeOK
  <1> QED BY <1>1, <1>2, <1>3, <1>4, <1>5, <1>6, <1>7 DEF RequestStep

-----------------------------------------------------------------------------
(* Counting: a step takes an account, gives one back, leaves one behind, or   *)
(* counts nothing                                                             *)

Took(r, t, m) ==
    /\ lease[r] = Nothing
    /\ lease' = [lease EXCEPT ![r] = [token |-> t, mode |-> m]]
    /\ inflight' = [inflight EXCEPT ![t] = @ + 1]
    /\ UNCHANGED abandoned
    /\ slot[t].status = "active"
    /\ Capped(r) => inflight[t] < Cap[strategy]

GaveBack(r, t) ==
    /\ lease[r].token = t
    /\ lease' = [lease EXCEPT ![r] = Nothing]
    /\ inflight' = [inflight EXCEPT ![t] = IF @ > 0 THEN @ - 1 ELSE 0]
    /\ UNCHANGED abandoned

LeftBehind(r, t) ==
    /\ lease[r].token = t
    /\ lease' = [lease EXCEPT ![r] = Nothing]
    /\ abandoned' = [abandoned EXCEPT ![t] = @ + 1]
    /\ UNCHANGED inflight

Counts ==
    \/ UNCHANGED <<lease, inflight, abandoned>>
    \/ \E r \in Requests, t \in Tokens, m \in Modes : Took(r, t, m)
    \/ \E r \in Requests, t \in Tokens : GaveBack(r, t) \/ LeftBehind(r, t)

LEMMA SyncCounts ==
    ASSUME DirectoryInv, NEW t \in Tokens,
           \/ \E row \in StoreRows : SyncRow(t, row)
           \/ SyncDeletion(t) \/ CoolingEnds(t) \/ \E m \in Modes : WindowEnds(t, m)
    PROVE  Counts
  <1>1. ASSUME NEW row \in StoreRows, SyncRow(t, row)
        PROVE UNCHANGED <<lease, inflight, abandoned>>
    <2>1. CASE slot[t].status = "absent"
      <3>1. inflight[t] = 0 /\ inflight \in [Tokens -> Nat]
        BY <2>1 DEF DirectoryInv, AbsentIdle, TypeOK
      <3>2. inflight' = [inflight EXCEPT ![t] = 0]
        BY <1>1, <2>1 DEF SyncRow
      <3>3. inflight' = inflight
        BY <3>1, <3>2
      <3> QED BY <1>1, <3>3 DEF SyncRow, requestVars
    <2>2. CASE slot[t].status # "absent"
      BY <1>1, <2>2 DEF SyncRow, requestVars
    <2> QED BY <2>1, <2>2
  <1>2. CASE SyncDeletion(t) \/ CoolingEnds(t) \/ \E m \in Modes : WindowEnds(t, m)
    BY <1>2 DEF SyncDeletion, CoolingEnds, WindowEnds, requestVars, Counts
  <1> QED BY <1>1, <1>2 DEF Counts

LEMMA RequestCounts ==
    ASSUME DirectoryInv, NEW r \in Requests,
           (\E p \in Products : Begin(r, p)) \/ RequestStep(r) \/ Abandon(r)
    PROVE  Counts
  <1>0. TypeOK /\ LeaseOK
    BY DEF DirectoryInv
  <1>1. CASE \/ \E p \in Products : Begin(r, p)
             \/ NoAccount(r) \/ RefreshOnDemand(r) \/ StreamStarts(r)
    BY <1>1 DEF Begin, NoAccount, RefreshOnDemand, StreamStarts, tableVars, Counts
  <1>2. CASE Reserve(r)
    <2>1. PICK i \in DOMAIN Candidates, t \in Tokens :
              /\ t \in Offered(Candidates[i], r)
              /\ Candidates[i].mode \in Modes
              /\ slot[t].status = "active"
              /\ inflight' = [inflight EXCEPT ![t] = @ + 1]
              /\ lease[r] = Nothing
              /\ lease' = [lease EXCEPT ![r] = [token |-> t, mode |-> Candidates[i].mode]]
      BY <1>2, ReserveFacts
    <2>3. Capped(r) => inflight[t] < Cap[strategy]
      BY <1>0, <2>1, OfferedCapped
    <2>4. UNCHANGED abandoned
      BY <1>2 DEF Reserve
    <2>5. Took(r, t, Candidates[i].mode)
      BY <2>1, <2>3, <2>4 DEF Took
    <2> QED BY <2>1, <2>5 DEF Counts
  <1>3. CASE SetupFails(r)
    <2>1. lease[r].token \in Tokens
      BY <1>0, <1>3, Held DEF SetupFails
    <2> QED BY <1>3, <2>1 DEF SetupFails, Counts, GaveBack
  <1>4. CASE Abandon(r)
    <2>1. lease[r].token \in Tokens
      BY <1>0, <1>4, Held DEF Abandon
    <2> QED BY <1>4, <2>1 DEF Abandon, Counts, LeftBehind, tableVars
  <1>5. ASSUME NEW kind \in Kinds, NEW retry \in BOOLEAN, Finish(r, kind, retry) PROVE Counts
    <2>1. lease[r].token \in Tokens
      BY <1>0, <1>5, Held DEF Finish
    <2> QED BY <1>5, <2>1 DEF Finish, Counts, GaveBack
  <1> QED BY <1>1, <1>2, <1>3, <1>4, <1>5 DEF RequestStep

\* Whatever a step counts, the column goes on counting the holders ...
LEMMA CountsExact ==
    ASSUME DirectoryInv, TypeOK', Counts
    PROVE  InflightCounts'
  <1> SUFFICES ASSUME NEW u \in Tokens
               PROVE  inflight'[u] = Cardinality(Holders(u)') + abandoned'[u]
    BY DEF InflightCounts
  <1>1. inflight[u] = Cardinality(Holders(u)) + abandoned[u]
    BY DEF DirectoryInv, InflightCounts
  <1>2. /\ TypeOK
        /\ inflight \in [Tokens -> Nat] /\ abandoned \in [Tokens -> Nat]
        /\ Cardinality(Holders(u)) \in Nat
    BY HoldersFinite DEF DirectoryInv, TypeOK
  <1>3. CASE UNCHANGED <<lease, inflight, abandoned>>
    <2>1. Holders(u)' = Holders(u)
      BY <1>3 DEF Holders
    <2> QED BY <1>1, <1>3, <2>1
  <1>4. ASSUME NEW r \in Requests, NEW t \in Tokens, NEW m \in Modes, Took(r, t, m)
        PROVE inflight'[u] = Cardinality(Holders(u)') + abandoned'[u]
    <2>1. /\ Cardinality(Holders(t)') = Cardinality(Holders(t)) + 1
          /\ u # t => Holders(u)' = Holders(u)
      BY <1>2, <1>4, HoldersTake DEF Took
    <2>2. inflight'[u] = (IF u = t THEN inflight[u] + 1 ELSE inflight[u]) /\ abandoned' = abandoned
      BY <1>2, <1>4 DEF Took
    <2>3. CASE u = t
      BY <1>1, <1>2, <2>1, <2>2, <2>3
    <2>4. CASE u # t
      BY <1>1, <2>1, <2>2, <2>4
    <2> QED BY <2>3, <2>4
  <1>5. ASSUME NEW r \in Requests, NEW t \in Tokens, GaveBack(r, t)
        PROVE inflight'[u] = Cardinality(Holders(u)') + abandoned'[u]
    <2>1. /\ Cardinality(Holders(t)) > 0
          /\ Cardinality(Holders(t)') = Cardinality(Holders(t)) - 1
          /\ u # t => Holders(u)' = Holders(u)
      BY <1>2, <1>5, HoldersDrop DEF GaveBack
    <2>2. /\ u # t => inflight'[u] = inflight[u]
          /\ u = t => inflight'[u] = IF inflight[u] > 0 THEN inflight[u] - 1 ELSE 0
          /\ abandoned' = abandoned
      BY <1>2, <1>5 DEF GaveBack
    <2>3. CASE u = t
      <3>1. abandoned[u] \in Nat
        BY <1>2
      <3> QED BY <1>1, <1>2, <2>1, <2>2, <2>3, <3>1
    <2>4. CASE u # t
      BY <1>1, <2>1, <2>2, <2>4
    <2> QED BY <2>3, <2>4
  <1>6. ASSUME NEW r \in Requests, NEW t \in Tokens, LeftBehind(r, t)
        PROVE inflight'[u] = Cardinality(Holders(u)') + abandoned'[u]
    <2>1. /\ Cardinality(Holders(t)') = Cardinality(Holders(t)) - 1
          /\ u # t => Holders(u)' = Holders(u)
      BY <1>2, <1>6, HoldersDrop DEF LeftBehind
    <2>2. /\ abandoned'[u] = (IF u = t THEN abandoned[u] + 1 ELSE abandoned[u])
          /\ inflight' = inflight
      BY <1>2, <1>6 DEF LeftBehind
    <2>3. CASE u = t
      <3>1. abandoned[u] \in Nat
        BY <1>2
      <3> QED BY <1>1, <1>2, <2>1, <2>2, <2>3, <3>1
    <2>4. CASE u # t
      BY <1>1, <2>1, <2>2, <2>4
    <2> QED BY <2>3, <2>4
  <1> QED BY <1>3, <1>4, <1>5, <1>6 DEF Counts

\* ... and is zero for a token without a slot.
LEMMA CountsIdle ==
    ASSUME DirectoryInv, Counts,
           \A t \in Tokens : slot'[t].status = "absent" => slot[t].status = "absent"
    PROVE  AbsentIdle'
  <1> SUFFICES ASSUME NEW u \in Tokens, slot[u].status = "absent"
               PROVE  inflight'[u] = 0
    BY DEF AbsentIdle
  <1>1. inflight \in [Tokens -> Nat] /\ inflight[u] = 0
    BY DEF DirectoryInv, AbsentIdle, TypeOK
  <1>2. CASE inflight' = inflight
    BY <1>1, <1>2
  <1>3. ASSUME NEW r \in Requests, NEW t \in Tokens, NEW m \in Modes, Took(r, t, m)
        PROVE inflight'[u] = 0
    BY <1>1, <1>3 DEF Took
  <1>4. ASSUME NEW r \in Requests, NEW t \in Tokens, GaveBack(r, t)
        PROVE inflight'[u] = 0
    BY <1>1, <1>4 DEF GaveBack
  <1> QED BY <1>2, <1>3, <1>4 DEF Counts, LeftBehind

\* A request keeps its product as long as it holds an account.
ProductsKept == \A q \in Requests : lease'[q] # Nothing => product'[q] = product[q]

LEMMA RequestProducts ==
    ASSUME DirectoryInv, NEW r \in Requests,
           (\E p \in Products : Begin(r, p)) \/ RequestStep(r) \/ Abandon(r)
    PROVE  ProductsKept
  <1>0. /\ TypeOK /\ LeaseOK
        /\ DOMAIN product = Requests /\ DOMAIN lease = Requests
    BY DEF DirectoryInv, TypeOK
  <1>1. CASE UNCHANGED product
    BY <1>1 DEF ProductsKept
  <1>2. ASSUME NEW p \in Products, Begin(r, p) PROVE ProductsKept
    <2>1. lease[r] = Nothing
      BY <1>0, <1>2, Free DEF Begin
    <2> QED BY <1>0, <1>2, <2>1 DEF Begin, ProductsKept
  <1>3. CASE NoAccount(r) /\ Over(r)
    <2>1. lease[r] = Nothing
      BY <1>0, <1>3, Free DEF NoAccount
    <2> QED BY <1>0, <1>3, <2>1 DEF NoAccount, Over, ProductsKept
  <1>4. CASE lease' = [lease EXCEPT ![r] = Nothing] /\ Over(r)
    BY <1>0, <1>4 DEF Over, ProductsKept
  <1> QED BY <1>1, <1>2, <1>3, <1>4
      DEF RequestStep, Reserve, NoAccount, RefreshOnDemand, StreamStarts, SetupFails, Abandon,
          Finish

LEMMA CappedFinite ==
    ASSUME NEW t, NEW S \in SUBSET CappedHolders(t)
    PROVE  IsFiniteSet(S) /\ Cardinality(S) \in Nat
           /\ Cardinality(S) <= Cardinality(CappedHolders(t))
           /\ Cardinality(CappedHolders(t)) <= Cardinality(Holders(t))
  <1>1. IsFiniteSet(Holders(t)) /\ CappedHolders(t) \subseteq Holders(t)
    BY HoldersFinite DEF CappedHolders
  <1>2. IsFiniteSet(CappedHolders(t))
    BY <1>1, FS_Subset
  <1>3. IsFiniteSet(S)
    BY <1>2, FS_Subset
  <1> QED BY <1>1, <1>2, <1>3, FS_Subset, FS_CardinalityType

LEMMA UnderCapMonotone ==
    ASSUME NEW m \in Nat, NEW n \in Nat, m <= n, UnderCap(n)
    PROVE  UnderCap(m)
  <1>1. PICK s \in Strategies : n <= Cap[s]
    BY DEF UnderCap
  <1>2. Cap[s] \in Nat
    BY DirectoryAssumption
  <1> QED BY <1>1, <1>2 DEF UnderCap

\* Whatever a step counts, the capped requests of an account stay under the cap.
LEMMA CountsCapped ==
    ASSUME DirectoryInv, TypeOK', Counts, ProductsKept
    PROVE  ConcurrencyCap'
  <1> SUFFICES ASSUME NEW u \in Tokens PROVE UnderCap(Cardinality(CappedHolders(u)'))
    BY DEF ConcurrencyCap, UnderCap
  <1>0. /\ TypeOK /\ strategy \in Strategies /\ Cap[strategy] \in Nat
        /\ DOMAIN lease = Requests /\ Nothing.token \notin Tokens
        /\ UnderCap(Cardinality(CappedHolders(u)))
    BY DirectoryAssumption DEF DirectoryInv, TypeOK, ConcurrencyCap, Nothing
  <1>1. CASE CappedHolders(u)' \subseteq CappedHolders(u)
    <2>1. /\ Cardinality(CappedHolders(u)') \in Nat /\ Cardinality(CappedHolders(u)) \in Nat
          /\ Cardinality(CappedHolders(u)') <= Cardinality(CappedHolders(u))
      BY <1>1, CappedFinite
    <2> QED BY <1>0, <2>1, UnderCapMonotone
  <1>2. CASE UNCHANGED <<lease, inflight, abandoned>>
    <2>1. CappedHolders(u)' \subseteq CappedHolders(u)
      BY <1>0, <1>2 DEF CappedHolders, Holders, Capped, ProductsKept
    <2> QED BY <1>1, <2>1
  <1>3. ASSUME NEW r \in Requests, lease' = [lease EXCEPT ![r] = Nothing]
        PROVE UnderCap(Cardinality(CappedHolders(u)'))
    <2>1. CappedHolders(u)' \subseteq CappedHolders(u)
      BY <1>0, <1>3 DEF CappedHolders, Holders, Capped, ProductsKept
    <2> QED BY <1>1, <2>1
  <1>4. ASSUME NEW r \in Requests, NEW t \in Tokens, NEW m \in Modes, Took(r, t, m)
        PROVE UnderCap(Cardinality(CappedHolders(u)'))
    <2>1. CappedHolders(u)' \subseteq CappedHolders(u) \cup (IF u = t THEN {r} ELSE {})
      BY <1>0, <1>4 DEF Took, CappedHolders, Holders, Capped, ProductsKept
    <2>2. CASE u # t \/ r \notin CappedHolders(u)'
      <3>1. CappedHolders(u)' \subseteq CappedHolders(u)
        BY <2>1, <2>2
      <3> QED BY <1>1, <3>1
    <2>3. CASE u = t /\ r \in CappedHolders(u)'
      <3>1. Capped(r)
        BY <1>0, <1>4, <2>3 DEF Took, CappedHolders, Holders, Capped, ProductsKept
      <3>2. inflight[u] < Cap[strategy]
        BY <1>4, <2>3, <3>1 DEF Took
      <3>3. /\ inflight[u] = Cardinality(Holders(u)) + abandoned[u]
            /\ inflight[u] \in Nat /\ abandoned[u] \in Nat
        BY <1>0 DEF DirectoryInv, InflightCounts, TypeOK
      <3>4. r \notin CappedHolders(u)
        BY <1>0, <1>4 DEF Took, CappedHolders, Holders
      <3>5. /\ Cardinality(CappedHolders(u) \cup {r}) = Cardinality(CappedHolders(u)) + 1
            /\ IsFiniteSet(CappedHolders(u) \cup {r})
        BY <3>4, CappedFinite, FS_AddElement
      <3>6. /\ Cardinality(CappedHolders(u)') \in Nat
            /\ Cardinality(CappedHolders(u)') <= Cardinality(CappedHolders(u) \cup {r})
        BY <2>1, <2>3, <3>5, FS_Subset, FS_CardinalityType
      <3>7. /\ Cardinality(CappedHolders(u)) <= Cardinality(Holders(u))
            /\ Cardinality(CappedHolders(u)) \in Nat /\ Cardinality(Holders(u)) \in Nat
        BY CappedFinite, HoldersFinite
      <3> HIDE DEF Took
      <3>8. Cardinality(CappedHolders(u)') <= Cap[strategy]
        BY <1>0, <3>2, <3>3, <3>5, <3>6, <3>7
      <3> QED BY <1>0, <3>8 DEF UnderCap
    <2> QED BY <2>2, <2>3
  <1> QED BY <1>2, <1>3, <1>4 DEF Counts, GaveBack, LeftBehind

-----------------------------------------------------------------------------
(* Leases, and what selection may see *)

LEMMA LeaseStep ==
    ASSUME DirectoryInv, NEW r \in Requests,
           (\E p \in Products : Begin(r, p)) \/ RequestStep(r) \/ Abandon(r)
    PROVE  LeaseOK'
  <1>0. /\ TypeOK /\ LeaseOK
        /\ DOMAIN pc = Requests /\ DOMAIN product = Requests /\ DOMAIN lease = Requests
    BY DEF DirectoryInv, TypeOK
  <1>1. ASSUME NEW p \in Products, Begin(r, p) PROVE LeaseOK'
    BY <1>0, <1>1 DEF Begin, LeaseOK
  <1>2. CASE Reserve(r)
    <2>1. PICK i \in DOMAIN Candidates, t \in Tokens :
              lease' = [lease EXCEPT ![r] = [token |-> t, mode |-> Candidates[i].mode]]
      BY <1>2, ReserveFacts
    <2>2. [token |-> t, mode |-> Candidates[i].mode] # Nothing
      BY DirectoryAssumption DEF Nothing
    <2>3. /\ pc' = [pc EXCEPT ![r] = IF StartsLate(product[r]) THEN "opening" ELSE "running"]
          /\ product' = product /\ pc[r] # "idle"
      BY <1>2 DEF Reserve
    <2> QED BY <1>0, <2>1, <2>2, <2>3 DEF LeaseOK
  <1>3. CASE NoAccount(r)
    <2>1. CASE Over(r)
      BY <1>0, <1>3, <2>1 DEF NoAccount, Over, LeaseOK
    <2>2. CASE pc' = [pc EXCEPT ![r] = "refresh"] /\ UNCHANGED product
      BY <1>0, <1>3, <2>2 DEF NoAccount, LeaseOK
    <2> QED BY <1>3, <2>1, <2>2 DEF NoAccount
  <1>4. CASE RefreshOnDemand(r) \/ StreamStarts(r)
    BY <1>0, <1>4 DEF RefreshOnDemand, StreamStarts, LeaseOK
  <1>5. CASE SetupFails(r) \/ Abandon(r)
    BY <1>0, <1>5 DEF SetupFails, Abandon, Over, LeaseOK
  <1>6. ASSUME NEW kind \in Kinds, NEW retry \in BOOLEAN, Finish(r, kind, retry) PROVE LeaseOK'
    <2>1. lease' = [lease EXCEPT ![r] = Nothing]
      BY <1>6 DEF Finish
    <2>2. CASE Over(r)
      BY <1>0, <2>1, <2>2 DEF Over, LeaseOK
    <2>3. CASE pc' = [pc EXCEPT ![r] = "reserve"] /\ UNCHANGED product
      BY <1>0, <1>6, <2>1, <2>3 DEF Finish, LeaseOK
    <2> QED BY <1>6, <2>2, <2>3 DEF Finish
  <1> QED BY <1>1, <1>2, <1>3, <1>4, <1>5, <1>6 DEF RequestStep

\* The index stays exact when no slot changes its pool or becomes or ceases to
\* be ACTIVE.
LEMMA IndexKept ==
    ASSUME ModeIndexExact, bucket' = bucket,
           \A t \in Tokens : /\ slot'[t].pool = slot[t].pool
                             /\ slot'[t].status = "active" <=> slot[t].status = "active"
    PROVE  ModeIndexExact'
  BY DEF ModeIndexExact

\* A slot that leaves ACTIVE in its pool is taken out of the index.
LEMMA IndexRemoved ==
    ASSUME TypeOK, ModeIndexExact, NEW t \in Tokens, bucket' = Removed(bucket, t),
           slot'[t].status # "active",
           \A u \in Tokens : slot'[u].pool = slot[u].pool,
           \A u \in Tokens \ {t} : slot'[u].status = slot[u].status
    PROVE  ModeIndexExact'
  <1> SUFFICES ASSUME NEW p \in Pools, NEW m \in Modes
               PROVE  bucket'[<<p, m>>] = {u \in Tokens : /\ slot'[u].status = "active"
                                                          /\ slot'[u].pool = p
                                                          /\ m \in Supports[p]}
    BY DEF ModeIndexExact
  <1>1. bucket[<<p, m>>] = {u \in Tokens : /\ slot[u].status = "active"
                                           /\ slot[u].pool = p
                                           /\ m \in Supports[p]}
    BY DEF ModeIndexExact
  <1>2. bucket'[<<p, m>>] = IF p = slot[t].pool THEN bucket[<<p, m>>] \ {t} ELSE bucket[<<p, m>>]
    BY DEF Removed
  <1> QED BY <1>1, <1>2

\* A slot that is rewritten moves to the index of its new pool, if it is ACTIVE.
LEMMA IndexMoved ==
    ASSUME TypeOK, ModeIndexExact, NEW t \in Tokens, NEW row \in Slot,
           bucket' = Added(Removed(bucket, t), t, row), slot' = [slot EXCEPT ![t] = row]
    PROVE  ModeIndexExact'
  <1> SUFFICES ASSUME NEW p \in Pools, NEW m \in Modes
               PROVE  bucket'[<<p, m>>] = {u \in Tokens : /\ slot'[u].status = "active"
                                                          /\ slot'[u].pool = p
                                                          /\ m \in Supports[p]}
    BY DEF ModeIndexExact
  <1>1. bucket[<<p, m>>] = {u \in Tokens : /\ slot[u].status = "active"
                                           /\ slot[u].pool = p
                                           /\ m \in Supports[p]}
    BY DEF ModeIndexExact
  <1>2. DEFINE out == IF p = slot[t].pool THEN bucket[<<p, m>>] \ {t} ELSE bucket[<<p, m>>]
  <1>3. Removed(bucket, t)[<<p, m>>] = out
    BY DEF Removed
  <1>4. bucket'[<<p, m>>] = IF row.status = "active" /\ p = row.pool /\ m \in Supports[p]
                            THEN out \cup {t} ELSE out
    BY <1>3 DEF Added
  <1>5. out = {u \in Tokens \ {t} : /\ slot[u].status = "active"
                                    /\ slot[u].pool = p
                                    /\ m \in Supports[p]}
    BY <1>1
  <1>6. \A u \in Tokens : slot'[u] = IF u = t THEN row ELSE slot[u]
    BY DEF TypeOK
  <1> HIDE DEF out
  <1>7. CASE row.status = "active" /\ p = row.pool /\ m \in Supports[p]
    BY <1>4, <1>5, <1>6, <1>7
  <1>8. CASE ~(row.status = "active" /\ p = row.pool /\ m \in Supports[p])
    BY <1>4, <1>5, <1>6, <1>8
  <1> QED BY <1>7, <1>8

\* No step frees a slot.
NeverFreed == \A t \in Tokens : slot'[t].status = "absent" => slot[t].status = "absent"

LEMMA SyncIndex ==
    ASSUME DirectoryInv, NEW t \in Tokens,
           \/ \E row \in StoreRows : SyncRow(t, row)
           \/ SyncDeletion(t) \/ CoolingEnds(t) \/ \E m \in Modes : WindowEnds(t, m)
    PROVE  ModeIndexExact' /\ NeverFreed
  <1>0. TypeOK /\ ModeIndexExact /\ DOMAIN slot = Tokens
    BY DEF DirectoryInv, TypeOK
  <1>1. ASSUME NEW row \in StoreRows, SyncRow(t, row) PROVE ModeIndexExact' /\ NeverFreed
    <2>1. row \in Slot /\ row.status # "absent"
      BY DirectoryAssumption
    <2>2. ModeIndexExact'
      BY <1>0, <1>1, <2>1, IndexMoved DEF SyncRow
    <2>3. NeverFreed
      BY <1>0, <1>1, <2>1 DEF SyncRow, NeverFreed
    <2> QED BY <2>2, <2>3
  <1>2. CASE SyncDeletion(t)
    <2>1. slot[t] \in Slot
      BY <1>0 DEF TypeOK
    <2>2. \A u \in Tokens : /\ slot'[u].pool = slot[u].pool
                            /\ slot'[u].status = IF u = t THEN "deleted" ELSE slot[u].status
      BY <1>0, <1>2, <2>1 DEF SyncDeletion, Slot
    <2>3. ModeIndexExact'
      BY <1>0, <1>2, <2>2, IndexRemoved DEF SyncDeletion
    <2> QED BY <2>2, <2>3 DEF NeverFreed
  <1>3. CASE CoolingEnds(t)
    BY <1>0, <1>3, IndexKept DEF CoolingEnds, NeverFreed
  <1>4. ASSUME NEW m \in Modes, WindowEnds(t, m) PROVE ModeIndexExact' /\ NeverFreed
    <2>1. \A u \in Tokens : slot'[u].pool = slot[u].pool /\ slot'[u].status = slot[u].status
      <3>1. \A u \in Tokens : slot[u] \in Slot
        BY <1>0 DEF TypeOK
      <3> QED BY <1>0, <1>4, <3>1 DEF WindowEnds, Slot
    <2>2. bucket' = bucket
      BY <1>4 DEF WindowEnds
    <2> QED BY <1>0, <2>1, <2>2, IndexKept DEF NeverFreed
  <1> QED BY <1>1, <1>2, <1>3, <1>4

LEMMA RequestIndex ==
    ASSUME DirectoryInv, NEW r \in Requests,
           (\E p \in Products : Begin(r, p)) \/ RequestStep(r) \/ Abandon(r)
    PROVE  ModeIndexExact' /\ NeverFreed
  <1>0. TypeOK /\ LeaseOK /\ ModeIndexExact
    BY DEF DirectoryInv
  <1>1. CASE UNCHANGED <<slot, bucket>>
    BY <1>0, <1>1, IndexKept DEF NeverFreed
  <1>2. CASE Reserve(r) \/ NoAccount(r)
    <2>1. PICK n : slot' = Refilled(n, r)
      BY <1>2 DEF Reserve, NoAccount
    <2>2. \A t \in Tokens : slot'[t].pool = slot[t].pool /\ slot'[t].status = slot[t].status
      BY <1>0, <2>1, RefilledType
    <2>3. bucket' = bucket
      BY <1>2 DEF Reserve, NoAccount
    <2> QED BY <1>0, <2>2, <2>3, IndexKept DEF NeverFreed
  <1>3. ASSUME NEW kind \in Kinds, NEW retry \in BOOLEAN, Finish(r, kind, retry)
        PROVE ModeIndexExact' /\ NeverFreed
    <2>1. \A t \in Tokens :
             /\ slot'[t].pool = slot[t].pool
             /\ slot'[t].status = (IF t = lease[r].token /\ Reported(product[r], kind) = "unauthorized"
                                   THEN "expired" ELSE slot[t].status)
      BY <1>0, <1>3, FinishSlot
    <2>2. lease[r].token \in Tokens
      BY <1>0, <1>3, Held DEF Finish
    <2>3. CASE Reported(product[r], kind) = "unauthorized"
      <3>1. bucket' = Removed(bucket, lease[r].token)
        BY <1>3, <2>3 DEF Finish
      <3> QED BY <1>0, <2>1, <2>2, <2>3, <3>1, IndexRemoved DEF NeverFreed
    <2>4. CASE Reported(product[r], kind) # "unauthorized"
      <3>1. bucket' = bucket
        BY <1>3, <2>4 DEF Finish
      <3> QED BY <1>0, <2>1, <2>4, <3>1, IndexKept DEF NeverFreed
    <2> QED BY <2>3, <2>4
  <1> QED BY <1>1, <1>2, <1>3
      DEF RequestStep, Begin, RefreshOnDemand, StreamStarts, SetupFails, Abandon, tableVars

-----------------------------------------------------------------------------
(* The invariant and what follows from it *)

LEMMA StepInv == DirectoryInv /\ [Next]_vars => DirectoryInv'
  <1> SUFFICES ASSUME DirectoryInv, [Next]_vars PROVE DirectoryInv'
    OBVIOUS
  <1>1. ASSUME NEW t \in Tokens,
               \/ \E row \in StoreRows : SyncRow(t, row)
               \/ SyncDeletion(t) \/ CoolingEnds(t) \/ \E m \in Modes : WindowEnds(t, m)
        PROVE DirectoryInv'
    <2>1. TypeOK' /\ Counts /\ ModeIndexExact' /\ NeverFreed
      BY <1>1, SyncTypes, SyncCounts, SyncIndex DEF DirectoryInv
    <2>2. UNCHANGED requestVars
      BY <1>1 DEF SyncRow, SyncDeletion, CoolingEnds, WindowEnds
    <2>3. LeaseOK' /\ ProductsKept
      BY <2>2 DEF DirectoryInv, LeaseOK, ProductsKept, requestVars
    <2>4. InflightCounts' /\ AbsentIdle' /\ ConcurrencyCap'
      BY <2>1, <2>3, CountsExact, CountsIdle, CountsCapped DEF NeverFreed
    <2> QED BY <2>1, <2>3, <2>4 DEF DirectoryInv
  <1>2. ASSUME NEW r \in Requests,
               (\E p \in Products : Begin(r, p)) \/ RequestStep(r) \/ Abandon(r)
        PROVE DirectoryInv'
    <2>1. TypeOK' /\ Counts /\ ModeIndexExact' /\ NeverFreed /\ LeaseOK' /\ ProductsKept
      BY <1>2, RequestTypes, RequestCounts, RequestIndex, LeaseStep, RequestProducts
    <2>2. InflightCounts' /\ AbsentIdle' /\ ConcurrencyCap'
      BY <2>1, CountsExact, CountsIdle, CountsCapped DEF NeverFreed
    <2> QED BY <2>1, <2>2 DEF DirectoryInv
  <1>3. CASE UNCHANGED <<tableVars, requestVars, abandoned>> /\ strategy' \in Strategies
    BY <1>3 DEF tableVars, requestVars, DirectoryInv, TypeOK, LeaseOK, AbsentIdle,
                ModeIndexExact, InflightCounts, ConcurrencyCap, CappedHolders, Capped, Holders
  <1>4. CASE UNCHANGED vars
    BY <1>3, <1>4 DEF vars, DirectoryInv, TypeOK
  <1> QED BY <1>1, <1>2, <1>3, <1>4 DEF Next, SetStrategy

\* The table and the requests stay consistent with each other through every
\* interleaving of reserve, release, feedback and sync.
THEOREM DirectoryInvariant == Spec => []DirectoryInv
  <1> QED BY InitInv, StepInv, PTL DEF Spec

\* No release is lost or applied twice: the inflight column is the number of
\* holders plus the requests that went away without releasing.
THEOREM InflightAlwaysCounts == Spec => []InflightCounts
  <1>1. DirectoryInv => InflightCounts
    BY DEF DirectoryInv
  <1> QED BY <1>1, DirectoryInvariant, PTL

\* Selection sees exactly the ACTIVE accounts.
THEOREM IndexAlwaysExact == Spec => []ModeIndexExact
  <1>1. DirectoryInv => ModeIndexExact
    BY DEF DirectoryInv
  <1> QED BY <1>1, DirectoryInvariant, PTL

\* Requests that respect the cap never exceed it on an account, whatever runs
\* there besides and however the strategy changes.
THEOREM CapHolds == Spec => []ConcurrencyCap
  <1>1. DirectoryInv => ConcurrencyCap
    BY DEF DirectoryInv
  <1> QED BY <1>1, DirectoryInvariant, PTL

-----------------------------------------------------------------------------
USE UsageAssumption

-----------------------------------------------------------------------------
(* AccountUsage: the console window *)

LEMMA FullFacts == Full \in Quota /\ Timed(Full)
  BY DEF Full, Quota, Timed

\* A deduction leaves a window of the type whose timer runs at the threshold,
\* whatever copy it was computed from.
LEMMA DeductedFacts ==
    ASSUME NEW q \in Quota
    PROVE  Deducted(q) \in Quota /\ (Timed(q) => Timed(Deducted(q)))
  <1>1. q.left \in 0..ConsoleLimit /\ q.reset \in {None} \cup 0..Window
    BY DEF Quota
  <1>2. \A n \in 0..ConsoleLimit : LeftAfter(n) \in 0..ConsoleLimit
    BY DEF LeftAfter
  <1>3. LeftAfter(ConsoleLimit) = ConsoleLimit - 1
    BY DEF LeftAfter
  <1>4. CASE Expired(q)
    BY <1>1, <1>2, <1>3, <1>4 DEF Deducted, Quota, Timed
  <1>5. CASE ~Expired(q)
    <2> DEFINE r == IF q.reset = None /\ LeftAfter(q.left) <= Threshold
                    THEN Window ELSE q.reset
    <2>1. Deducted(q) = [left |-> LeftAfter(q.left), reset |-> r]
      BY <1>5 DEF Deducted
    <2>2. r \in {None} \cup 0..Window
      BY <1>1
    <2>3. LeftAfter(q.left) <= Threshold => r # None
      BY <1>1
    <2> QED
      BY <1>1, <1>2, <2>1, <2>2, <2>3 DEF Quota, Timed
  <1> QED
    BY <1>4, <1>5

LEMMA SoonerFacts ==
    ASSUME NEW q \in Quota
    PROVE  Sooner(q) \in Quota /\ (Timed(q) => Timed(Sooner(q)))
  <1> DEFINE r == IF q.reset = None \/ q.reset = 0 THEN q.reset ELSE q.reset - 1
  <1>1. q.left \in 0..ConsoleLimit /\ q.reset \in {None} \cup 0..Window
    BY DEF Quota
  <1>2. q = [left |-> q.left, reset |-> q.reset]
    BY DEF Quota
  <1>3. Sooner(q) = [left |-> q.left, reset |-> r]
    BY <1>2 DEF Sooner
  <1>4. r \in {None} \cup 0..Window /\ (q.reset # None => r # None)
    BY <1>1
  <1> HIDE DEF r
  <1> QED
    BY <1>1, <1>3, <1>4 DEF Quota, Timed

-----------------------------------------------------------------------------
(* AccountUsage: the invariant *)

LEMMA InitUsage == UsageInit => UsageInv
  <1> SUFFICES ASSUME UsageInit PROVE UsageInv
    OBVIOUS
  <1>1. console \in Quota /\ Timed(console)
    <2>1. \A k \in 0..Window : [left |-> 0, reset |-> k] \in Quota
      BY DEF Quota
    <2>2. \A k \in 0..Window : Timed([left |-> 0, reset |-> k])
      BY DEF Timed
    <2>3. console = Full \/ \E k \in 0..Window : console = [left |-> 0, reset |-> k]
      BY DEF UsageInit
    <2> QED
      BY <2>1, <2>2, <2>3, FullFacts
  <1>2. UsageTypeOK
    <2>1. usePc \in [Tasks -> {"idle", "write"}] /\ useCopy \in [Tasks -> Quota]
      BY FullFacts DEF UsageInit
    <2>2. loopPc \in [Loops -> {"idle", "clear", "follow"}] /\ loopLimited \in [Loops -> BOOLEAN]
      BY DEF UsageInit
    <2>3. fetchPc \in {"idle", "write"} /\ fetchCopy \in Quota
      BY FullFacts DEF UsageInit
    <2>4. /\ status \in {"active", "cooling", "expired", "disabled"}
          /\ reason \in {"none", "legacy", "invalid", "operator"}
          /\ barred \in BOOLEAN /\ marked \in BOOLEAN
      BY DEF UsageInit
    <2>5. crashes \in 0..MaxCrashes
      BY DEF UsageInit
    <2> QED
      BY <1>1, <2>1, <2>2, <2>3, <2>4, <2>5 DEF UsageTypeOK
  <1>3. TimerRuns
    BY <1>1, FullFacts DEF UsageInit, TimerRuns
  <1>4. Unmarked /\ UnmarkedStays
    BY DEF UsageInit, Unmarked, UnmarkedStays, DisabledStays
  <1> QED
    BY <1>2, <1>3, <1>4 DEF UsageInv

\* The record and its copies: each action leaves windows of the type, with
\* their timers set.
LEMMA StepWindows ==
    ASSUME UsageInv, [UsageNext]_usageVars
    PROVE  UsageTypeOK' /\ TimerRuns'
  <1> USE FullFacts
  <1>0. UsageTypeOK /\ TimerRuns
    BY DEF UsageInv
  <1>1. CASE Tick
    BY <1>0, <1>1, SoonerFacts DEF Tick, UsageTypeOK, TimerRuns, loops
  <1>2. ASSUME NEW t \in Tasks, UseRead(t) PROVE UsageTypeOK' /\ TimerRuns'
    BY <1>0, <1>2 DEF UseRead, UsageTypeOK, TimerRuns, record, fetch, loops
  <1>3. ASSUME NEW t \in Tasks, UseWrite(t) PROVE UsageTypeOK' /\ TimerRuns'
    <2>1. Deducted(useCopy[t]) \in Quota /\ Timed(Deducted(useCopy[t]))
      BY <1>0, DeductedFacts DEF UsageTypeOK, TimerRuns
    <2> QED
      BY <1>0, <1>3, <2>1 DEF UseWrite, UsageTypeOK, TimerRuns, fetch, loops
  <1>4. CASE MarkInvalidCredentials
    BY <1>0, <1>4 DEF MarkInvalidCredentials, UsageTypeOK, TimerRuns, use, fetch, loops
  <1>5. CASE FetchRead
    BY <1>0, <1>5 DEF FetchRead, UsageTypeOK, TimerRuns, record, use, loops
  <1>6. CASE FetchWrite
    BY <1>0, <1>6 DEF FetchWrite, UsageTypeOK, TimerRuns, use, loops
  <1>7. CASE ResetExpiredConsoleWindows
    BY <1>0, <1>7 DEF ResetExpiredConsoleWindows, UsageTypeOK, TimerRuns, use, fetch, loops
  <1>8. ASSUME NEW l \in Loops, RecoverStep(l) PROVE UsageTypeOK' /\ TimerRuns'
    <2>1. CASE RecoverRead(l)
      BY <1>0, <2>1 DEF RecoverRead, UsageTypeOK, TimerRuns, record, use, fetch
    <2>2. CASE RecoverClear(l)
      BY <1>0, <2>2 DEF RecoverClear, UsageTypeOK, TimerRuns, use, fetch
    <2>3. CASE RecoverFollow(l)
      BY <1>0, <2>3 DEF RecoverFollow, UsageTypeOK, TimerRuns, use, fetch
    <2> QED
      BY <1>8, <2>1, <2>2, <2>3 DEF RecoverStep
  <1>9. CASE Disable
    BY <1>0, <1>9 DEF Disable, UsageTypeOK, TimerRuns, use, fetch, loops
  <1>10. CASE Restore
    BY <1>0, <1>10 DEF Restore, UsageTypeOK, TimerRuns, use, fetch, loops
  <1>11. CASE Crash
    BY <1>0, <1>11 DEF Crash, UsageTypeOK, TimerRuns, record
  <1>13. CASE Upsert
    BY <1>0, <1>13 DEF Upsert, UsageTypeOK, TimerRuns, use, fetch, loops
  <1>12. CASE UNCHANGED usageVars
    BY <1>0, <1>12 DEF usageVars, record, use, fetch, loops, UsageTypeOK, TimerRuns
  <1> QED
    BY <1>1, <1>2, <1>3, <1>4, <1>5, <1>6, <1>7, <1>8, <1>9, <1>10, <1>11, <1>12, <1>13 DEF UsageNext

\* Status and marker: besides the operator only a recovery can undo a
\* disabling, and it never starts on a record without the marker.
LEMMA StepStatus ==
    ASSUME UsageInv, [UsageNext]_usageVars
    PROVE  Unmarked' /\ UnmarkedStays'
  <1> USE DEF Unmarked, UnmarkedStays, DisabledStays
  <1>0. UsageTypeOK /\ Unmarked /\ UnmarkedStays
    BY DEF UsageInv
  <1>1. CASE Tick \/ (\E t \in Tasks : UseRead(t) \/ UseWrite(t)) \/ FetchRead \/ FetchWrite
              \/ ResetExpiredConsoleWindows
    BY <1>0, <1>1 DEF Tick, UseRead, UseWrite, FetchRead, FetchWrite,
         ResetExpiredConsoleWindows, record, loops
  <1>2. CASE MarkInvalidCredentials \/ Disable \/ Restore \/ Upsert
    BY <1>0, <1>2 DEF MarkInvalidCredentials, Disable, Restore, Upsert, loops
  <1>3. ASSUME NEW l \in Loops, RecoverStep(l) PROVE Unmarked' /\ UnmarkedStays'
    <2>1. CASE RecoverRead(l)
      BY <1>0, <2>1 DEF RecoverRead, record
    <2>2. CASE RecoverClear(l)
      BY <1>0, <2>2 DEF RecoverClear
    <2>3. CASE RecoverFollow(l)
      BY <1>0, <2>3 DEF RecoverFollow
    <2> QED
      BY <1>3, <2>1, <2>2, <2>3 DEF RecoverStep
  <1>4. CASE Crash
    BY <1>0, <1>4 DEF Crash, record
  <1>5. CASE UNCHANGED usageVars
    BY <1>0, <1>5 DEF usageVars, record, loops
  <1> QED
    BY <1>1, <1>2, <1>3, <1>4, <1>5 DEF UsageNext

\* No interleaving of tasks, loops, operator and restarts leaves an exhausted
\* console window without the timer that ends it, or a loop at work on a record
\* without the marker (refresh._apply_single_mode,
\* refresh.recover_console_expired_accounts).
THEOREM UsageInvariant == UsageSpec => []UsageInv
  <1>1. UsageInv /\ [UsageNext]_usageVars => UsageInv'
    BY StepWindows, StepStatus DEF UsageInv
  <1> QED
    BY InitUsage, <1>1, PTL DEF UsageSpec

\* An account that never had the marker of the retired 429 policy stays out of
\* service once the operator has disabled it, until the operator restores it or
\* uploads its token again: no refresh, late call, sweep or recovery does it.
THEOREM UnmarkedSafe == UsageSpec => []UnmarkedStays
  <1>1. UsageInv => UnmarkedStays
    BY DEF UsageInv
  <1> QED
    BY UsageInvariant, <1>1, PTL
=============================================================================
