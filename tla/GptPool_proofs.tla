--------------------------- MODULE GptPool_proofs ---------------------------
(***************************************************************************)
(* Proofs about the GPT account pool.  ImageSlots: for any number of       *)
(* tokens, accounts, image threads, rotations and removals, and any limit  *)
(* per account.  SurvivalLease: for any number of processes, any length of *)
(* the lease and any number of probes and faults.  The two share no        *)
(* variable.                                                               *)
(***************************************************************************)
EXTENDS ImageSlots, SurvivalLease, FiniteSetTheorems, TLAPS

-----------------------------------------------------------------------------
(* ImageSlots: the inductive invariant *)

\* No alias leads back to where it came from: a rotation gives a token that was
\* never seen.
Acyclic == \A S \in SUBSET Tokens : S # {} => \E x \in S : aliases[x] \notin S

\* Only tokens that were issued have an account, an alias or a count.
Issued ==
    /\ \A t \in Tokens : Present(t) \/ aliases[t] # NoToken \/ inflight[t] # 0 => t \in seen
    /\ \A t \in Tokens : aliases[t] \in seen \cup {NoToken}

\* What a request holds or goes on with was issued, and is there when needed.
AskedBy(r) ==
    /\ held[r] \in seen \cup {NoToken} /\ using[r] \in seen \cup {NoToken}
    /\ Holds(r) \/ pc[r] \in {"mark", "blame"} => held[r] # NoToken
    /\ pc[r] = "verify" => using[r] # NoToken
    /\ r \in retrying => pc[r] = "top"

Asked == \A r \in Requests : AskedBy(r)

\* Where the aliases of each token end, and the requests whose release reaches
\* a token.
Ends  == [t \in Tokens |-> Resolve(t)]
Users == [t \in Tokens |-> {r \in Requests : Holds(r) /\ Ends[held[r]] = t}]

\* Two names of a request: of one account, or of accounts that are gone and owe
\* nothing.
Paired(a, b) ==
    \/ Ends[a] = Ends[b]
    \/ status[Ends[a]] = "absent" /\ status[Ends[b]] = "absent" /\ inflight[Ends[b]] = 0

\* A token that was replaced has no account and no count.
Replaced == \A t \in Tokens : aliases[t] # NoToken => status[t] = "absent" /\ inflight[t] = 0

\* A preflight goes on with a name paired with the one of the slot.
NamesPaired == \A r \in Requests : pc[r] = "verify" => Paired(using[r], held[r])

\* SlotsCounted, without its exception.
Counted ==
    \A t \in Tokens : /\ inflight[t] <= Cardinality(Users[t])
                      /\ status[t] # "absent" => inflight[t] = Cardinality(Users[t])

Orderly == Replaced /\ NamesPaired /\ Counted

Inv == TypeOK /\ Acyclic /\ Issued /\ Asked /\ (mishaps = {} => Orderly)

\* TypeOK in three parts.
PoolTypes ==
    /\ status \in [Tokens -> {"absent", "normal", "limited", "bad"}]
    /\ aliases \in [Tokens -> Tokens \cup {NoToken}]
    /\ inflight \in [Tokens -> 0..MaxConcurrency]
    /\ seen \subseteq Tokens

Labels == {"top", "wait", "verify", "drop", "generate", "mark", "blame", "done"}

RequestTypes ==
    /\ pc \in [Requests -> Labels]
    /\ held \in [Requests -> Tokens \cup {NoToken}]
    /\ using \in [Requests -> Tokens \cup {NoToken}]
    /\ attempted \in [Requests -> SUBSET Tokens]
    /\ retrying \subseteq Requests /\ retried \subseteq Requests

HistoryTypes == mishaps \subseteq {"reimported", "cancelled"} /\ changes \in 0..MaxChanges

LEMMA Parts == TypeOK <=> PoolTypes /\ RequestTypes /\ HistoryTypes
  BY DEF TypeOK, PoolTypes, RequestTypes, HistoryTypes, Labels

LEMMA PartsNext == TypeOK' <=> PoolTypes' /\ RequestTypes' /\ HistoryTypes'
  BY DEF TypeOK, PoolTypes, RequestTypes, HistoryTypes, Labels

LEMMA Bounds == MaxConcurrency \in Nat /\ MaxConcurrency >= 1 /\ 0 \in 0..MaxConcurrency /\ NoToken \notin Tokens
  BY SlotsAssumption

-----------------------------------------------------------------------------
(* ImageSlots: where aliases lead *)

Linked == aliases \in [Tokens -> Tokens \cup {NoToken}] /\ Acyclic

\* The tokens passed through: one token where the search stops, one more than
\* from the alias where it goes on.
LEMMA NamesOf ==
    ASSUME Linked, NEW t \in Tokens
    PROVE  /\ Stops(t) => Names(t) = {t}
           /\ ~Stops(t) => aliases[t] \in Tokens /\ Names(t) = {t} \cup Names(aliases[t])
  <1> DEFINE Closed(S) == \A x \in S : Stops(x) \/ aliases[x] \in S
  <1>1. \A s \in Tokens : Names(s) = {u \in Tokens : \A S \in SUBSET Tokens : s \in S /\ Closed(S) => u \in S}
    BY DEF Names
  <1>2. \A s \in Tokens : s \in Names(s)
    BY <1>1
  <1>3. CASE Stops(t)
    <2>1. Closed({t}) /\ {t} \in SUBSET Tokens
      BY <1>3
    <2> HIDE DEF Closed
    <2>2. \A u \in Names(t) : u \in {t}
      BY <1>1, <2>1
    <2> QED BY <1>2, <1>3, <2>2
  <1>4. CASE ~Stops(t)
    <2> DEFINE a == aliases[t]
    <2>1. a \in Tokens
      BY <1>4 DEF Stops, Linked
    <2>2. Closed(Names(a)) /\ Names(a) \in SUBSET Tokens
      <3>1. ASSUME NEW x \in Names(a), ~Stops(x) PROVE aliases[x] \in Names(a)
        <4>1. x \in Tokens /\ aliases[x] \in Tokens
          BY <1>1, <2>1, <3>1 DEF Stops, Linked
        <4>2. \A S \in SUBSET Tokens : a \in S /\ Closed(S) => aliases[x] \in S
          BY <1>1, <2>1, <3>1
        <4> HIDE DEF Closed
        <4> QED BY <1>1, <2>1, <4>1, <4>2
      <3> QED BY <1>1, <2>1, <3>1
    <2>3. Closed({t} \cup Names(a)) /\ {t} \cup Names(a) \in SUBSET Tokens
      BY <1>2, <2>1, <2>2
    <2>4. Names(t) \subseteq {t} \cup Names(a)
      <3> HIDE DEF Closed, a
      <3> QED BY <1>1, <2>3
    <2>5. Names(a) \subseteq Names(t)
      <3>1. \A S \in SUBSET Tokens : t \in S /\ Closed(S) => a \in S
        BY <1>4
      <3> HIDE DEF Closed, a
      <3> QED BY <1>1, <2>1, <3>1
    <2> QED BY <1>2, <1>4, <2>1, <2>4, <2>5
  <1> QED BY <1>3, <1>4

\* A set of tokens that every stop is in, and every token whose alias is in, is
\* all of them.
LEMMA AlongAliases ==
    ASSUME Linked, NEW D \in SUBSET Tokens,
           \A t \in D : ~Stops(t) /\ aliases[t] \in D
    PROVE  D = {}
  BY DEF Linked, Acyclic

\* The search ends at exactly one of the tokens it passes through.
LEMMA OneEnd ==
    ASSUME Linked, NEW t \in Tokens
    PROVE  \E u \in Names(t) : Stops(u) /\ \A v \in Names(t) : Stops(v) => v = u
  <1> DEFINE Single(s) == \E u \in Names(s) : Stops(u) /\ \A v \in Names(s) : Stops(v) => v = u
  <1> DEFINE D == {s \in Tokens : ~Single(s)}
  <1>1. ASSUME NEW s \in D PROVE ~Stops(s) /\ aliases[s] \in D
    <2>1. ~Stops(s)
      BY <1>1, NamesOf
    <2>2. aliases[s] \in Tokens /\ Names(s) = {s} \cup Names(aliases[s])
      BY <1>1, <2>1, NamesOf
    <2>3. Single(aliases[s]) => Single(s)
      BY <2>1, <2>2
    <2> QED BY <1>1, <2>1, <2>2, <2>3
  <1>2. D = {}
    <2> HIDE DEF Single
    <2>1. D \in SUBSET Tokens
      OBVIOUS
    <2> HIDE DEF D
    <2> QED BY <1>1, <2>1, AlongAliases
  <1> QED BY <1>2

\* The search as the code's loop runs it.
Follows ==
    /\ Ends \in [Tokens -> Tokens]
    /\ \A t \in Tokens : Stops(t) => Ends[t] = t
    /\ \A t \in Tokens : ~Stops(t) => aliases[t] \in Tokens /\ Ends[t] = Ends[aliases[t]]
    /\ \A t \in Tokens : Stops(Ends[t]) /\ Ends[t] \in Names(t)

LEMMA EndsFollow == Linked => Follows
  <1> SUFFICES ASSUME Linked PROVE Follows
    OBVIOUS
  <1>1. ASSUME NEW t \in Tokens
        PROVE  /\ Resolve(t) \in Names(t) /\ Stops(Resolve(t)) /\ Resolve(t) \in Tokens
               /\ \A v \in Names(t) : Stops(v) => v = Resolve(t)
    <2>1. PICK u \in Names(t) : Stops(u) /\ \A v \in Names(t) : Stops(v) => v = u
      BY OneEnd
    <2>2. CASE Stops(t)
      <3>1. Resolve(t) = t /\ Names(t) = {t}
        BY <2>2, NamesOf DEF Resolve
      <3> QED BY <2>2, <3>1
    <2>3. CASE ~Stops(t)
      <3>1. Resolve(t) = CHOOSE v \in Names(t) : Stops(v)
        BY <2>3 DEF Resolve
      <3>2. Resolve(t) \in Names(t) /\ Stops(Resolve(t))
        BY <2>1, <3>1
      <3> QED BY <2>1, <3>2 DEF Names
    <2> QED BY <2>2, <2>3
  <1>2. \A t \in Tokens : Ends[t] = Resolve(t)
    BY DEF Ends
  <1>3. Ends \in [Tokens -> Tokens]
    BY <1>1 DEF Ends
  <1>4. \A t \in Tokens : Stops(t) => Ends[t] = t
    BY <1>2 DEF Resolve
  <1>5. ASSUME NEW t \in Tokens, ~Stops(t)
        PROVE  aliases[t] \in Tokens /\ Ends[t] = Ends[aliases[t]]
    <2>1. aliases[t] \in Tokens /\ Names(t) = {t} \cup Names(aliases[t])
      BY <1>5, NamesOf
    <2>2. Resolve(t) \in Names(aliases[t])
      BY <1>1, <1>5, <2>1
    <2> QED BY <1>1, <1>2, <2>1, <2>2
  <1> QED BY <1>1, <1>2, <1>3, <1>4, <1>5 DEF Follows

LEMMA EndsFollowNext == Linked' => Follows'
  BY EndsFollow, PTL

\* Aliases of issued tokens end at issued tokens.
LEMMA EndsIssued ==
    ASSUME Linked, Issued, seen \subseteq Tokens
    PROVE  \A t \in seen : Ends[t] \in seen
  <1> DEFINE D == {t \in seen : Ends[t] \notin seen}
  <1>1. Follows
    BY EndsFollow
  <1>2. \A t \in D : ~Stops(t) /\ aliases[t] \in D
    BY <1>1 DEF Follows, Issued, Stops
  <1>3. D \in SUBSET Tokens
    OBVIOUS
  <1>4. D = {}
    <2> HIDE DEF D
    <2> QED BY <1>2, <1>3, AlongAliases
  <1> QED BY <1>4

-----------------------------------------------------------------------------
(* ImageSlots: what becomes of the pool *)

LEMMA PoolFacts ==
    ASSUME Inv
    PROVE  /\ PoolTypes /\ RequestTypes /\ HistoryTypes /\ Linked /\ Follows
           /\ \A t \in seen : t \in Tokens /\ Ends[t] \in seen
           /\ \A r \in Requests : Holds(r) => held[r] \in seen
           /\ \A r \in Requests : pc[r] = "verify" => using[r] \in seen /\ held[r] \in seen
  <1>1. PoolTypes /\ RequestTypes /\ HistoryTypes /\ Linked
    BY Parts DEF Inv, Linked, PoolTypes
  <1>2. Follows /\ \A t \in seen : t \in Tokens /\ Ends[t] \in seen
    BY <1>1, EndsFollow, EndsIssued DEF Inv, PoolTypes
  <1>3. \A r \in Requests : Holds(r) => held[r] \in seen
    BY DEF Inv, Asked, AskedBy
  <1>4. \A r \in Requests : pc[r] = "verify" => Holds(r)
    BY DEF Holds
  <1> QED BY <1>1, <1>2, <1>3, <1>4 DEF Inv, Asked, AskedBy

\* Requests that hold what they held.
Steady ==
    \A r \in Requests : (Holds(r)' <=> Holds(r)) /\ (Holds(r) => held'[r] = held[r])

\* The users of a token are finitely many.
LEMMA UsersFinite ==
    ASSUME NEW S \in SUBSET Requests
    PROVE  IsFiniteSet(S) /\ Cardinality(S) \in Nat
  BY SlotsAssumption, FS_Subset, FS_CardinalityType

\* A rotation moves the names of the old token, and its count, to the new one.
LEMMA RotatedMoves ==
    ASSUME Inv, NEW t \in Tokens, Present(t), NEW n \in Tokens \ seen, Rotated(t, n)
    PROVE  /\ PoolTypes' /\ Acyclic' /\ Issued' /\ seen' = seen \cup {n}
           /\ Ends'[n] = n /\ \A x \in seen : Ends'[x] = IF Ends[x] = t THEN n ELSE Ends[x]
           /\ Replaced => Replaced'
           /\ \A a, b \in seen : Paired(a, b) => Paired(a, b)'
           /\ Counted /\ Steady => Counted'
  <1>1. /\ PoolTypes /\ Follows
        /\ \A x \in seen : x \in Tokens /\ Ends[x] \in seen
        /\ \A r \in Requests : Holds(r) => held[r] \in seen
    BY PoolFacts
  <1>2. /\ t \in seen /\ n \in Tokens /\ n # t /\ n # NoToken /\ status[t] # "absent"
        /\ status[n] = "absent" /\ aliases[n] = NoToken /\ inflight[n] = 0
    BY <1>1, Bounds DEF Inv, Issued, Present
  <1>3. /\ status' \in [Tokens -> {"absent", "normal", "limited", "bad"}]
        /\ status'[t] = "absent" /\ status'[n] # "absent"
        /\ \A x \in Tokens : x \notin {t, n} => status'[x] = status[x]
    BY <1>1, <1>2 DEF Rotated, PoolTypes
  <1>4. /\ aliases' \in [Tokens -> Tokens \cup {NoToken}] /\ aliases'[t] = n
        /\ \A x \in Tokens : x # t => aliases'[x] = aliases[x]
    BY <1>1, <1>2 DEF Rotated, PoolTypes
  <1>5. /\ inflight' \in [Tokens -> 0..MaxConcurrency] /\ inflight'[t] = 0 /\ inflight'[n] = inflight[t]
        /\ \A x \in Tokens : x \notin {t, n} => inflight'[x] = inflight[x]
    <2>1. inflight[t] \in 0..MaxConcurrency /\ 0 + inflight[t] = inflight[t]
      BY <1>1, Bounds DEF PoolTypes
    <2>2. inflight' = [inflight EXCEPT ![t] = 0, ![n] = inflight[n] + inflight[t]]
      BY <1>1, <1>2 DEF Rotated, PoolTypes
    <2> QED BY <1>1, <1>2, <2>1, <2>2, Bounds DEF PoolTypes
  <1>6. seen' = seen \cup {n} /\ seen' \subseteq Tokens
    BY <1>1, <1>2 DEF Rotated, PoolTypes
  <1>7. PoolTypes'
    BY <1>3, <1>4, <1>5, <1>6 DEF PoolTypes
  <1>8. Issued'
    <2>1. \A x \in Tokens : status'[x] # "absent" \/ aliases'[x] # NoToken \/ inflight'[x] # 0 => x \in seen'
      <3>1. SUFFICES ASSUME NEW x \in Tokens, x \notin {t, n},
                            status[x] # "absent" \/ aliases[x] # NoToken \/ inflight[x] # 0
                     PROVE  x \in seen
        BY <1>2, <1>3, <1>4, <1>5, <1>6
      <3> QED BY <3>1 DEF Inv, Issued, Present
    <2>2. \A x \in Tokens : aliases'[x] \in seen' \cup {NoToken}
      BY <1>2, <1>4, <1>6 DEF Inv, Issued
    <2> QED BY <2>1, <2>2 DEF Issued, Present
  <1>9. Acyclic'
    <2>1. SUFFICES ASSUME NEW S \in SUBSET Tokens, S # {} PROVE \E x \in S : aliases'[x] \notin S
      BY DEF Acyclic
    <2>2. CASE n \in S
      BY <1>2, <1>4, <2>2, Bounds
    <2>3. CASE n \notin S /\ t \in S
      BY <1>4, <2>3
    <2>4. CASE t \notin S
      BY <1>4, <2>1, <2>4 DEF Inv, Acyclic
    <2> QED BY <2>2, <2>3, <2>4
  <1>10. Linked' /\ Follows'
    BY <1>4, <1>9, EndsFollowNext DEF Linked
  <1>11. Ends'[n] = n
    BY <1>2, <1>3, <1>10 DEF Follows, Stops, Present
  <1>12. \A x \in seen : Ends'[x] = IF Ends[x] = t THEN n ELSE Ends[x]
    <2> DEFINE D == {x \in seen : Ends'[x] # IF Ends[x] = t THEN n ELSE Ends[x]}
    <2>1. ASSUME NEW x \in D PROVE ~Stops(x) /\ aliases[x] \in D
      <3>1. x \in Tokens /\ x # n /\ x \in seen
        BY <1>1, <2>1
      <3>2. x # t
        <4>1. Ends[t] = t /\ Ends'[t] = Ends'[n]
          BY <1>2, <1>1, <1>3, <1>4, <1>10 DEF Follows, Stops, Present
        <4> QED BY <1>11, <2>1, <4>1
      <3>3. status'[x] = status[x] /\ aliases'[x] = aliases[x]
        BY <1>3, <1>4, <3>1, <3>2
      <3>4. ~Stops(x)
        <4>1. Stops(x) => Ends[x] = x /\ Ends'[x] = x
          BY <1>1, <1>10, <3>1, <3>3 DEF Follows, Stops, Present
        <4> QED BY <2>1, <3>2, <4>1
      <3>5. aliases[x] \in Tokens /\ Ends[x] = Ends[aliases[x]] /\ Ends'[x] = Ends'[aliases[x]]
        BY <1>1, <1>10, <3>1, <3>3, <3>4 DEF Follows, Stops, Present
      <3>6. aliases[x] \in seen
        BY <3>1, <3>5, Bounds DEF Inv, Issued
      <3> QED BY <2>1, <3>4, <3>5, <3>6
    <2>2. D \in SUBSET Tokens
      BY <1>1
    <2>3. D = {}
      <3> HIDE DEF D
      <3> QED BY <2>1, <2>2, AlongAliases, PoolFacts
    <2> QED BY <2>3
  <1>13. ASSUME Replaced PROVE Replaced'
    <2>1. SUFFICES ASSUME NEW x \in Tokens, aliases'[x] # NoToken
                   PROVE  status'[x] = "absent" /\ inflight'[x] = 0
      BY DEF Replaced
    <2>2. x # n
      BY <1>2, <1>4, <2>1
    <2> QED BY <1>3, <1>4, <1>5, <1>13, <2>1, <2>2 DEF Replaced
  <1>14. ASSUME NEW a \in seen, NEW b \in seen, Paired(a, b) PROVE Paired(a, b)'
    <2>1. CASE Ends[a] = Ends[b]
      <3>1. Ends'[a] = Ends'[b]
        BY <1>12, <2>1
      <3> QED BY <3>1 DEF Paired
    <2>2. CASE status[Ends[a]] = "absent" /\ status[Ends[b]] = "absent" /\ inflight[Ends[b]] = 0
      <3>1. Ends[a] \notin {t, n} /\ Ends[b] \notin {t, n} /\ Ends[a] \in Tokens /\ Ends[b] \in Tokens
        BY <1>1, <1>2, <2>2
      <3>2. Ends'[a] = Ends[a] /\ Ends'[b] = Ends[b]
        BY <1>12, <3>1
      <3>3. status'[Ends'[a]] = "absent" /\ status'[Ends'[b]] = "absent" /\ inflight'[Ends'[b]] = 0
        BY <1>3, <1>5, <2>2, <3>1, <3>2
      <3> QED BY <3>3 DEF Paired
    <2> QED BY <1>14, <2>1, <2>2 DEF Paired
  <1>15. ASSUME Counted, Steady PROVE Counted'
    <2>1. \A x \in Tokens : Users'[x] = {r \in Requests : Holds(r)' /\ Ends'[held'[r]] = x}
      BY DEF Users
    <2>2. \A x \in Tokens : Users'[x] = {r \in Requests : Holds(r) /\ Ends'[held[r]] = x}
      BY <1>15, <2>1 DEF Steady
    <2>3. \A x \in Tokens : Users[x] = {r \in Requests : Holds(r) /\ Ends[held[r]] = x}
      BY DEF Users
    <2>4. ASSUME NEW r \in Requests, Holds(r)
          PROVE  Ends[held[r]] # n /\ Ends'[held[r]] = IF Ends[held[r]] = t THEN n ELSE Ends[held[r]]
      BY <1>1, <1>12, <2>4
    <2>5. Users'[n] = Users[t] /\ Users'[t] = {}
      <3>1. \A r \in Requests : Holds(r) => (Ends'[held[r]] = n <=> Ends[held[r]] = t) /\ Ends'[held[r]] # t
        BY <1>2, <2>4
      <3>2. {r \in Requests : Holds(r) /\ Ends'[held[r]] = n} = {r \in Requests : Holds(r) /\ Ends[held[r]] = t}
        BY <3>1
      <3>3. {r \in Requests : Holds(r) /\ Ends'[held[r]] = t} = {}
        BY <3>1
      <3> QED BY <1>2, <2>2, <2>3, <3>2, <3>3
    <2>6. \A x \in Tokens : x \notin {t, n} => Users'[x] = Users[x]
      <3>1. \A x \in Tokens : x \notin {t, n} =>
              \A r \in Requests : Holds(r) => (Ends'[held[r]] = x <=> Ends[held[r]] = x)
        BY <2>4
      <3>2. \A x \in Tokens : x \notin {t, n} =>
              {r \in Requests : Holds(r) /\ Ends'[held[r]] = x} = {r \in Requests : Holds(r) /\ Ends[held[r]] = x}
        BY <3>1
      <3> QED BY <2>2, <2>3, <3>2
    <2>7. Cardinality({}) = 0
      BY FS_EmptySet
    <2>8. inflight[t] = Cardinality(Users[t]) /\ inflight[t] <= Cardinality(Users[t])
      BY <1>2, <1>15 DEF Counted
    <2>9. SUFFICES ASSUME NEW x \in Tokens
                   PROVE  /\ inflight'[x] <= Cardinality(Users'[x])
                          /\ status'[x] # "absent" => inflight'[x] = Cardinality(Users'[x])
      BY DEF Counted
    <2>10. CASE x = n
      BY <1>5, <2>5, <2>8, <2>10
    <2>11. CASE x = t
      BY <1>3, <1>5, <2>5, <2>7, <2>11
    <2>12. CASE x \notin {t, n}
      BY <1>3, <1>5, <1>15, <2>6, <2>12 DEF Counted
    <2> QED BY <2>10, <2>11, <2>12
  <1> QED BY <1>6, <1>7, <1>8, <1>9, <1>11, <1>12, <1>13, <1>14, <1>15

\* A removal clears the count, and leaves names of the account, old ones among
\* them, with no account and no count.
LEMMA DeleteMoves ==
    ASSUME Inv, NEW z \in Tokens, Delete(z)
    PROVE  /\ PoolTypes' /\ Acyclic' /\ Issued' /\ seen' = seen
           /\ Replaced => Replaced' /\ (\A a, b \in seen : Paired(a, b) => Paired(a, b)')
           /\ Replaced /\ Counted /\ Steady => Counted'
           /\ \A x \in Tokens : x # Ends[z] => status'[x] = status[x]
           /\ status'[Ends[z]] = "absent"
           /\ \A x \in Tokens : /\ Ends[x] # Ends[z] => Ends'[x] = Ends[x]
                                /\ Replaced /\ Ends[x] = Ends[z] => status'[Ends'[x]] = "absent"
  <1> DEFINE u == Ends[z]
  <1>1. /\ PoolTypes /\ Follows /\ Linked
        /\ \A x \in seen : x \in Tokens /\ Ends[x] \in seen
        /\ \A r \in Requests : Holds(r) => held[r] \in seen
    BY PoolFacts
  <1>2. u \in Tokens /\ Resolve(z) = u /\ Stops(u)
    BY <1>1 DEF Follows, Ends
  <1> HIDE DEF u
  <1>3. /\ status' \in [Tokens -> {"absent", "normal", "limited", "bad"}]
        /\ status'[u] = "absent" /\ \A x \in Tokens : x # u => status'[x] = status[x]
    BY <1>1, <1>2 DEF Delete, PoolTypes
  <1>4. /\ inflight' \in [Tokens -> 0..MaxConcurrency]
        /\ inflight'[u] = 0 /\ \A x \in Tokens : x # u => inflight'[x] = inflight[x]
    BY <1>1, <1>2, Bounds DEF Delete, PoolTypes
  <1>5. /\ aliases' \in [Tokens -> Tokens \cup {NoToken}]
        /\ \A x \in Tokens : aliases'[x] = IF x = u \/ aliases[x] = u THEN NoToken ELSE aliases[x]
    <2>1. aliases' = [x \in Tokens |-> IF x = u \/ aliases[x] = u THEN NoToken ELSE aliases[x]]
      BY <1>2 DEF Delete
    <2> QED BY <1>1, <2>1 DEF PoolTypes
  <1>6. seen' = seen
    BY DEF Delete
  <1>7. PoolTypes'
    BY <1>1, <1>3, <1>4, <1>5, <1>6 DEF PoolTypes
  <1>8. Issued'
    <2>1. \A x \in Tokens : status'[x] # "absent" \/ aliases'[x] # NoToken \/ inflight'[x] # 0 => x \in seen'
      BY <1>3, <1>4, <1>5, <1>6 DEF Inv, Issued, Present
    <2>2. \A x \in Tokens : aliases'[x] \in seen' \cup {NoToken}
      BY <1>5, <1>6 DEF Inv, Issued
    <2> QED BY <2>1, <2>2 DEF Issued, Present
  <1>9. Acyclic'
    <2>1. SUFFICES ASSUME NEW S \in SUBSET Tokens, S # {} PROVE \E x \in S : aliases'[x] \notin S
      BY DEF Acyclic
    <2>2. PICK x \in S : aliases[x] \notin S
      BY <2>1 DEF Inv, Acyclic
    <2> QED BY <1>5, <2>1, <2>2, Bounds
  <1>10. Linked' /\ Follows'
    BY <1>5, <1>9, EndsFollowNext DEF Linked
  <1>11. ASSUME NEW x \in Tokens
         PROVE  /\ Ends[x] # u => Ends'[x] = Ends[x]
                /\ Ends[x] = u => Ends'[x] = u \/ (Ends'[x] \in Tokens /\ aliases[Ends'[x]] = u)
    <2> DEFINE Good(y) == /\ Ends[y] # u => Ends'[y] = Ends[y]
                          /\ Ends[y] = u => Ends'[y] = u \/ (Ends'[y] \in Tokens /\ aliases[Ends'[y]] = u)
    <2> DEFINE D == {y \in Tokens : ~Good(y)}
    <2>1. ASSUME NEW y \in D PROVE ~Stops(y) /\ aliases[y] \in D
      <3>1. y \in Tokens /\ ~Good(y)
        OBVIOUS
      <3>2. Stops(y) => Stops(y)' /\ Ends[y] = y
        BY <1>1, <1>3, <1>5, <3>1 DEF Follows, Stops, Present
      <3>3. Stops(y)' => Ends'[y] = y
        BY <1>10, <3>1 DEF Follows, Stops, Present
      <3>4. ~Stops(y)
        BY <3>1, <3>2, <3>3
      <3>5. y # u /\ aliases[y] \in Tokens /\ Ends[y] = Ends[aliases[y]] /\ Ends[u] = u
        BY <1>1, <1>2, <3>1, <3>4 DEF Follows
      <3>6. aliases[y] # u
        <4>1. aliases[y] = u => Stops(y)' /\ Ends[y] = u
          BY <1>5, <3>1, <3>5 DEF Stops, Present
        <4> QED BY <3>1, <3>3, <4>1
      <3>7. status'[y] = status[y] /\ aliases'[y] = aliases[y]
        BY <1>3, <1>5, <3>1, <3>5, <3>6
      <3>8. Ends'[y] = Ends'[aliases[y]]
        BY <1>10, <3>1, <3>4, <3>7 DEF Follows, Stops, Present
      <3> QED BY <3>1, <3>4, <3>5, <3>8
    <2>2. D = {}
      <3>1. D \in SUBSET Tokens
        OBVIOUS
      <3> HIDE DEF D
      <3> QED BY <1>1, <2>1, <3>1, AlongAliases
    <2> QED BY <2>2
  <1>12. ASSUME Replaced PROVE Replaced'
    BY <1>3, <1>4, <1>5, <1>12 DEF Replaced
  <1>13. ASSUME Replaced, NEW x \in Tokens, Ends[x] = u
         PROVE  status'[Ends'[x]] = "absent" /\ inflight'[Ends'[x]] = 0
    <2>1. CASE Ends'[x] = u
      BY <1>3, <1>4, <2>1
    <2>2. CASE Ends'[x] # u
      <3>1. Ends'[x] \in Tokens /\ aliases[Ends'[x]] = u /\ u # NoToken
        BY <1>2, <1>11, <1>13, <2>2, Bounds
      <3> QED BY <1>3, <1>4, <1>13, <2>2, <3>1 DEF Replaced
    <2> QED BY <2>1, <2>2
  <1>14. ASSUME Replaced, NEW a \in seen, NEW b \in seen, Paired(a, b) PROVE Paired(a, b)'
    <2>1. a \in Tokens /\ b \in Tokens /\ Ends[a] \in Tokens /\ Ends[b] \in Tokens
      BY <1>1
    <2>2. ASSUME NEW x \in Tokens, status[Ends[x]] = "absent", Ends[x] \in Tokens
          PROVE  status'[Ends'[x]] = "absent" /\ (inflight[Ends[x]] = 0 => inflight'[Ends'[x]] = 0)
      BY <1>3, <1>4, <1>11, <1>13, <1>14, <2>2
    <2>3. CASE Ends[a] = Ends[b] /\ Ends[a] # u
      BY <1>11, <2>1, <2>3 DEF Paired
    <2>4. CASE Ends[a] = u /\ Ends[b] = u
      <3>1. status'[Ends'[a]] = "absent" /\ status'[Ends'[b]] = "absent" /\ inflight'[Ends'[b]] = 0
        BY <1>13, <1>14, <2>1, <2>4
      <3> QED BY <3>1 DEF Paired
    <2>5. CASE status[Ends[a]] = "absent" /\ status[Ends[b]] = "absent" /\ inflight[Ends[b]] = 0
      <3>1. status'[Ends'[a]] = "absent" /\ status'[Ends'[b]] = "absent" /\ inflight'[Ends'[b]] = 0
        BY <2>1, <2>2, <2>5
      <3> QED BY <3>1 DEF Paired
    <2> QED BY <1>14, <2>3, <2>4, <2>5 DEF Paired
  <1>15. ASSUME Replaced, Counted, Steady PROVE Counted'
    <2>1. \A x \in Tokens : Users'[x] = {r \in Requests : Holds(r) /\ Ends'[held[r]] = x}
      <3>1. \A x \in Tokens : Users'[x] = {r \in Requests : Holds(r)' /\ Ends'[held'[r]] = x}
        BY DEF Users
      <3> QED BY <1>15, <3>1 DEF Steady
    <2>2. \A x \in Tokens : Users[x] = {r \in Requests : Holds(r) /\ Ends[held[r]] = x}
      BY DEF Users
    <2>3. SUFFICES ASSUME NEW x \in Tokens
                   PROVE  /\ inflight'[x] <= Cardinality(Users'[x])
                          /\ status'[x] # "absent" => inflight'[x] = Cardinality(Users'[x])
      BY DEF Counted
    <2>4. Users'[x] \in SUBSET Requests /\ Users[x] \in SUBSET Requests
      BY <2>1, <2>2
    <2>5. Cardinality(Users'[x]) \in Nat /\ Cardinality(Users[x]) \in Nat /\ inflight[x] \in Nat
      BY <1>1, <2>4, UsersFinite DEF PoolTypes
    <2>6. CASE x = u
      BY <1>3, <1>4, <2>5, <2>6
    <2>7. CASE x # u
      <3>1. Users[x] \subseteq Users'[x]
        BY <1>1, <1>11, <2>1, <2>2, <2>7
      <3>2. Cardinality(Users[x]) <= Cardinality(Users'[x])
        BY <2>4, <3>1, UsersFinite, FS_Subset
      <3>3. inflight[x] <= Cardinality(Users[x]) /\ (status[x] # "absent" => inflight[x] = Cardinality(Users[x]))
        BY <1>15 DEF Counted
      <3>4. ASSUME status'[x] # "absent" PROVE Users'[x] = Users[x]
        <4>1. ASSUME NEW r \in Users'[x] PROVE r \in Users[x]
          <5>1. Holds(r) /\ Ends'[held[r]] = x /\ held[r] \in Tokens
            BY <1>1, <2>1, <4>1
          <5>2. Ends[held[r]] # u
            BY <1>13, <1>15, <3>4, <5>1
          <5> QED BY <1>11, <2>2, <2>4, <4>1, <5>1, <5>2
        <4> QED BY <3>1, <4>1
      <3> QED BY <1>3, <1>4, <2>5, <2>7, <3>2, <3>3, <3>4
    <2> QED BY <2>6, <2>7
  <1>16. /\ \A x \in Tokens : x # Ends[z] => status'[x] = status[x]
         /\ status'[Ends[z]] = "absent"
         /\ \A x \in Tokens : /\ Ends[x] # Ends[z] => Ends'[x] = Ends[x]
                              /\ Replaced /\ Ends[x] = Ends[z] => status'[Ends'[x]] = "absent"
    BY <1>3, <1>11, <1>13 DEF u
  <1> QED BY <1>6, <1>7, <1>8, <1>9, <1>12, <1>14, <1>15, <1>16

\* Where accounts change their status or go, and nothing else changes, aliases
\* end where they did.
LEMMA StatusMoves ==
    ASSUME Inv, status' \in [Tokens -> {"absent", "normal", "limited", "bad"}],
           UNCHANGED <<aliases, inflight, seen>>,
           \A x \in Tokens : status'[x] # "absent" => status[x] # "absent"
    PROVE  /\ PoolTypes' /\ Acyclic' /\ Issued'
           /\ Replaced => Replaced' /\ Ends' = Ends /\ (\A a, b \in seen : Paired(a, b) => Paired(a, b)')
           /\ Replaced /\ Counted /\ Steady => Counted'
  <1>1. /\ PoolTypes /\ Follows /\ Linked
        /\ \A x \in seen : x \in Tokens /\ Ends[x] \in seen
    BY PoolFacts
  <1>2. PoolTypes' /\ Acyclic'
    BY <1>1 DEF PoolTypes, Inv, Acyclic
  <1>3. Issued'
    BY DEF Inv, Issued, Present
  <1>4. Linked' /\ Follows'
    BY <1>1, <1>2, EndsFollowNext DEF Linked
  <1>5. ASSUME Replaced PROVE Ends' = Ends
    <2>1. \A x \in Tokens : Stops(x)' <=> Stops(x)
      BY <1>5 DEF Replaced, Stops, Present
    <2> DEFINE D == {x \in Tokens : Ends'[x] # Ends[x]}
    <2>2. ASSUME NEW x \in D PROVE ~Stops(x) /\ aliases[x] \in D
      <3>1. Stops(x) => Ends[x] = x /\ Ends'[x] = x
        BY <1>1, <1>4, <2>1 DEF Follows
      <3>2. ~Stops(x) => aliases[x] \in Tokens /\ Ends[x] = Ends[aliases[x]] /\ Ends'[x] = Ends'[aliases[x]]
        BY <1>1, <1>4, <2>1 DEF Follows
      <3> QED BY <3>1, <3>2
    <2>3. D = {}
      <3>1. D \in SUBSET Tokens
        OBVIOUS
      <3> HIDE DEF D
      <3> QED BY <1>1, <2>2, <3>1, AlongAliases
    <2>4. Ends \in [Tokens -> Tokens] /\ Ends' \in [Tokens -> Tokens]
      BY <1>1, <1>4 DEF Follows
    <2> QED BY <2>3, <2>4
  <1>6. ASSUME Replaced PROVE Replaced'
    BY <1>6 DEF Replaced
  <1>7. ASSUME Replaced, NEW a \in seen, NEW b \in seen, Paired(a, b) PROVE Paired(a, b)'
    <2>1. Ends[a] \in Tokens /\ Ends[b] \in Tokens /\ Ends' = Ends
      BY <1>1, <1>5, <1>7
    <2>2. Ends'[a] = Ends[a] /\ Ends'[b] = Ends[b] /\ inflight'[Ends[b]] = inflight[Ends[b]]
      BY <2>1
    <2>3. CASE Ends[a] = Ends[b]
      BY <2>2, <2>3 DEF Paired
    <2>4. CASE status[Ends[a]] = "absent" /\ status[Ends[b]] = "absent" /\ inflight[Ends[b]] = 0
      <3>1. status'[Ends'[a]] = "absent" /\ status'[Ends'[b]] = "absent" /\ inflight'[Ends'[b]] = 0
        BY <2>1, <2>2, <2>4
      <3> QED BY <3>1 DEF Paired
    <2> QED BY <1>7, <2>3, <2>4 DEF Paired
  <1>8. ASSUME Replaced, Counted, Steady PROVE Counted'
    <2>1. \A x \in Tokens : Users'[x] = {r \in Requests : Holds(r)' /\ Ends'[held'[r]] = x}
      BY DEF Users
    <2>2. \A x \in Tokens : Users[x] = {r \in Requests : Holds(r) /\ Ends[held[r]] = x}
      BY DEF Users
    <2>3. \A x \in Tokens : {r \in Requests : Holds(r)' /\ Ends'[held'[r]] = x}
                          = {r \in Requests : Holds(r) /\ Ends[held[r]] = x}
      BY <1>5, <1>8 DEF Steady
    <2>4. \A x \in Tokens : Users'[x] = Users[x]
      BY <2>1, <2>2, <2>3
    <2> QED BY <1>8, <2>4 DEF Counted
  <1> QED BY <1>2, <1>3, <1>5, <1>6, <1>7, <1>8

\* What an update or a 401 does, as far as slots are concerned.
LEMMA UpdateMoves ==
    ASSUME Inv, NEW z \in Tokens, NEW s \in {"normal", "limited", "bad"},
           Update(z, s) \/ HandleInvalid(z) \/ UNCHANGED pool
    PROVE  /\ PoolTypes' /\ Acyclic' /\ Issued' /\ seen' = seen
           /\ Replaced => Replaced' /\ (\A a, b \in seen : Paired(a, b) => Paired(a, b)')
           /\ Replaced /\ Counted /\ Steady => Counted'
  <1>1. PoolTypes /\ Follows
    BY PoolFacts
  <1>2. ASSUME NEW k \in {"normal", "limited", "bad"}, Update(z, k)
        PROVE  /\ status' \in [Tokens -> {"absent", "normal", "limited", "bad"}]
               /\ UNCHANGED <<aliases, inflight, seen>>
               /\ \A x \in Tokens : status'[x] # "absent" => status[x] # "absent"
    <2>1. Resolve(z) \in Tokens
      BY <1>1 DEF Follows, Ends
    <2> QED BY <1>1, <1>2, <2>1 DEF Update, PoolTypes, Present
  <1>3. CASE Update(z, s) \/ Update(z, "bad")
    BY <1>2, <1>3, StatusMoves
  <1>4. CASE Delete(z)
    BY <1>4, DeleteMoves
  <1>5. CASE UNCHANGED pool
    BY <1>1, <1>5, StatusMoves DEF pool, PoolTypes
  <1> QED BY <1>3, <1>4, <1>5 DEF HandleInvalid

-----------------------------------------------------------------------------
(* ImageSlots: steps *)

\* A step in which only the requests of a set move.
LEMMA SomeMove ==
    ASSUME Inv, NEW M \in SUBSET Requests,
           PoolTypes', RequestTypes', HistoryTypes', Acyclic', Issued', seen \subseteq seen',
           mishaps' = {} => mishaps = {},
           \A q \in Requests \ M : /\ pc'[q] = pc[q] /\ held'[q] = held[q] /\ using'[q] = using[q]
                                   /\ q \in retrying' <=> q \in retrying,
           \A q \in M : AskedBy(q)' /\ (mishaps' = {} /\ Orderly /\ pc'[q] = "verify" => Paired(using[q], held[q])'),
           mishaps' = {} /\ Orderly =>
               Replaced' /\ Counted' /\ (\A a, b \in seen : Paired(a, b) => Paired(a, b)')
    PROVE  Inv'
  <1>1. TypeOK'
    BY PartsNext
  <1>2. Asked'
    <2>1. ASSUME NEW q \in Requests \ M PROVE AskedBy(q)'
      BY DEF Inv, Asked, AskedBy, Holds
    <2> QED BY <2>1 DEF Asked
  <1>3. ASSUME mishaps' = {} PROVE NamesPaired'
    <2>1. Orderly
      BY <1>3 DEF Inv
    <2>2. ASSUME NEW q \in Requests \ M, pc'[q] = "verify" PROVE Paired(using[q], held[q])'
      <3>1. pc[q] = "verify" /\ using[q] \in seen /\ held[q] \in seen
        BY <2>2, PoolFacts
      <3>2. \A a, b \in seen : Paired(a, b) => Paired(a, b)'
        BY <1>3, <2>1
      <3>3. Paired(using[q], held[q])
        BY <2>1, <3>1 DEF Orderly, NamesPaired
      <3>4. using'[q] = using[q] /\ held'[q] = held[q]
        OBVIOUS
      <3> QED BY <3>1, <3>2, <3>3, <3>4 DEF Paired
    <2> QED BY <1>3, <2>1, <2>2 DEF NamesPaired
  <1> QED BY <1>1, <1>2, <1>3 DEF Inv, Orderly

\* An import without a mishap changes no name's account, and is of no account
\* that a request has a slot of.
LEMMA AddLeads ==
    ASSUME Inv, NEW t \in Tokens, AddAccounts(t), mishaps' = {}
    PROVE  /\ \A x \in Tokens : Ends'[x] = Ends[x]
           /\ \A r \in Requests : Holds(r) => held[r] \in Tokens /\ Ends[held[r]] # t
  <1>1. /\ PoolTypes /\ Linked /\ Follows
        /\ \A x \in seen : x \in Tokens
        /\ \A r \in Requests : Holds(r) => held[r] \in seen
    BY PoolFacts
  <1>2. /\ status[t] = "absent" /\ status' = [status EXCEPT ![t] = "normal"]
        /\ UNCHANGED aliases
        /\ aliases[t] = NoToken /\ \A r \in Requests : t \notin Answers(r)
    BY DEF AddAccounts, Present
  <1>3. status'[t] = "normal" /\ \A x \in Tokens : x # t => status'[x] = status[x]
    BY <1>1, <1>2 DEF PoolTypes
  <1>4. Linked' /\ Follows'
    BY <1>1, <1>2, EndsFollowNext DEF Linked, Acyclic
  <1>5. \A x \in Tokens : Stops(x)' <=> Stops(x)
    BY <1>2, <1>3 DEF Stops, Present
  <1>6. \A x \in Tokens : Ends'[x] = Ends[x]
    <2> DEFINE D == {x \in Tokens : Ends'[x] # Ends[x]}
    <2>1. ASSUME NEW x \in D PROVE ~Stops(x) /\ aliases[x] \in D
      <3>1. Stops(x) => Ends[x] = x /\ Ends'[x] = x
        BY <1>1, <1>4, <1>5 DEF Follows
      <3>2. ~Stops(x) => aliases[x] \in Tokens /\ Ends[x] = Ends[aliases[x]] /\ Ends'[x] = Ends'[aliases[x]]
        BY <1>1, <1>2, <1>4, <1>5 DEF Follows
      <3> QED BY <3>1, <3>2
    <2>2. D = {}
      <3>1. D \in SUBSET Tokens
        OBVIOUS
      <3> HIDE DEF D
      <3> QED BY <1>1, <2>1, <3>1, AlongAliases
    <2> QED BY <2>2
  <1>7. ASSUME NEW r \in Requests, Holds(r) PROVE held[r] \in Tokens /\ Ends[held[r]] # t
    <2>1. held[r] \in Tokens /\ held[r] # NoToken
      BY <1>1, <1>7, Bounds
    <2>2. Ends[held[r]] \in Names(held[r])
      BY <1>1, <2>1 DEF Follows
    <2>3. Names(held[r]) \subseteq Answers(r)
      BY <2>1 DEF Answers
    <2> QED BY <1>2, <2>1, <2>2, <2>3
  <1> QED BY <1>6, <1>7

LEMMA EnvironmentMoves ==
    ASSUME Inv, Environment
    PROVE  Inv'
  <1>1. /\ PoolTypes /\ RequestTypes /\ HistoryTypes /\ Linked /\ Follows
        /\ \A x \in seen : x \in Tokens /\ Ends[x] \in seen
        /\ \A r \in Requests : Holds(r) => held[r] \in seen
        /\ \A r \in Requests : pc[r] = "verify" => using[r] \in seen /\ held[r] \in seen
    BY PoolFacts
  <1>2. ASSUME Change, UNCHANGED <<request, mishaps>>,
               PoolTypes', Acyclic', Issued', seen \subseteq seen',
               Replaced => Replaced' /\ (\A a, b \in seen : Paired(a, b) => Paired(a, b)'),
               Replaced /\ Counted /\ Steady => Counted'
        PROVE  Inv'
    <2>1. UNCHANGED <<pc, held, using, attempted, retrying, retried, mishaps>>
      BY <1>2 DEF request
    <2>2. RequestTypes' /\ HistoryTypes'
      BY <1>1, <1>2, <2>1, SlotsAssumption DEF RequestTypes, HistoryTypes, Change
    <2>3. Steady
      BY <2>1 DEF Steady, Holds
    <2>4. {} \in SUBSET Requests
      OBVIOUS
    <2> QED BY <1>2, <2>1, <2>2, <2>3, <2>4, SomeMove DEF Orderly
  <1>3. ASSUME NEW t \in Tokens, NEW n \in Tokens, Rotate(t, n) PROVE Inv'
    BY <1>2, <1>3, RotatedMoves DEF Rotate
  <1>4. ASSUME NEW t \in Tokens, DeleteAccounts(t) PROVE Inv'
    BY <1>2, <1>4, DeleteMoves DEF DeleteAccounts
  <1>5. ASSUME NEW t \in Tokens, NEW s \in {"normal", "limited", "bad"}, UpdateAccount(t, s) PROVE Inv'
    BY <1>2, <1>5, UpdateMoves DEF UpdateAccount
  <1>6. ASSUME NEW t \in Tokens, WatcherInvalid(t) PROVE Inv'
    BY <1>2, <1>6, UpdateMoves DEF WatcherInvalid
  <1>7. ASSUME NEW t \in Tokens, AddAccounts(t) PROVE Inv'
    <2>1. /\ status[t] = "absent" /\ status' = [status EXCEPT ![t] = "normal"] /\ seen' = seen \cup {t}
          /\ UNCHANGED <<aliases, inflight, pc, held, using, attempted, retrying, retried>>
          /\ Change
          /\ mishaps' = IF \/ aliases[t] # NoToken
                           \/ \E r \in Requests : t \in Answers(r)
                        THEN mishaps \cup {"reimported"} ELSE mishaps
      BY <1>7 DEF AddAccounts, Present, request
    <2>2. status' \in [Tokens -> {"absent", "normal", "limited", "bad"}] /\ status'[t] = "normal"
          /\ \A x \in Tokens : x # t => status'[x] = status[x]
      BY <1>1, <2>1 DEF PoolTypes
    <2>3. PoolTypes' /\ Acyclic'
      BY <1>1, <2>1, <2>2 DEF PoolTypes, Inv, Acyclic
    <2>4. Issued'
      BY <2>1, <2>2 DEF Inv, Issued, Present
    <2>5. RequestTypes' /\ HistoryTypes'
      BY <1>1, <2>1, SlotsAssumption DEF RequestTypes, HistoryTypes, Change
    <2>6. Linked' /\ Follows'
      BY <2>1, <2>3, EndsFollowNext DEF Linked, PoolTypes
    <2>7. ASSUME mishaps' = {}, Orderly
          PROVE  Replaced' /\ Counted' /\ (\A a, b \in seen : Paired(a, b) => Paired(a, b)' \/ Ends[a] = t \/ Ends[b] = t)
      <3>1. aliases[t] = NoToken /\ \A r \in Requests : t \notin Answers(r)
        BY <2>1, <2>7
      <3>2. Replaced'
        BY <2>1, <2>2, <2>7, <3>1 DEF Orderly, Replaced
      <3>4. \A x \in Tokens : Ends'[x] = Ends[x]
        BY <1>7, <2>7, AddLeads
      <3>5. \A r \in Requests : Holds(r) => held[r] \in Tokens /\ Ends[held[r]] # t
        BY <1>7, <2>7, AddLeads
      <3>6. Counted'
        <4>1. \A x \in Tokens : Users'[x] = {r \in Requests : Holds(r)' /\ Ends'[held'[r]] = x}
          BY DEF Users
        <4>2. \A x \in Tokens : Users[x] = {r \in Requests : Holds(r) /\ Ends[held[r]] = x}
          BY DEF Users
        <4>3. \A r \in Requests : (Holds(r)' <=> Holds(r)) /\ held'[r] = held[r]
          BY <2>1 DEF Holds
        <4>4. \A x \in Tokens : {r \in Requests : Holds(r)' /\ Ends'[held'[r]] = x}
                              = {r \in Requests : Holds(r) /\ Ends[held[r]] = x}
          BY <3>4, <3>5, <4>3
        <4>5. \A x \in Tokens : Users'[x] = Users[x]
          BY <4>1, <4>2, <4>4
        <4>6. Users[t] = {}
          <5>1. {r \in Requests : Holds(r) /\ Ends[held[r]] = t} = {}
            BY <3>5
          <5> QED BY <4>2, <5>1
        <4>7. Cardinality(Users[t]) = 0
          BY <4>6, FS_EmptySet
        <4>8. inflight[t] = 0
          <5>1. inflight[t] \in Nat /\ inflight[t] <= Cardinality(Users[t])
            BY <1>1, <2>7, Bounds DEF PoolTypes, Orderly, Counted
          <5> QED BY <4>7, <5>1
        <4> QED BY <2>1, <2>2, <2>7, <4>5, <4>7, <4>8 DEF Orderly, Counted
      <3>7. ASSUME NEW a \in seen, NEW b \in seen, Paired(a, b), Ends[a] # t, Ends[b] # t
            PROVE  Paired(a, b)'
        <4>1. Ends[a] \in Tokens /\ Ends[b] \in Tokens /\ Ends'[a] = Ends[a] /\ Ends'[b] = Ends[b]
          BY <1>1, <3>4
        <4>2. status'[Ends[a]] = status[Ends[a]] /\ status'[Ends[b]] = status[Ends[b]]
              /\ inflight'[Ends[b]] = inflight[Ends[b]]
          BY <2>1, <2>2, <3>7, <4>1
        <4> QED BY <3>7, <4>1, <4>2 DEF Paired
      <3> QED BY <3>2, <3>6, <3>7
    <2>8. ASSUME mishaps' = {}, Orderly, NEW q \in Requests, pc'[q] = "verify"
          PROVE  Paired(using[q], held[q])'
      <3>1. pc[q] = "verify" /\ using[q] \in seen /\ held[q] \in seen /\ using'[q] = using[q] /\ held'[q] = held[q]
        BY <1>1, <2>1, <2>8
      <3>2. Ends[using[q]] # t /\ Ends[held[q]] # t
        <4>1. using[q] \in Tokens /\ held[q] \in Tokens /\ using[q] # NoToken /\ held[q] # NoToken
          BY <1>1, <3>1, Bounds
        <4>2. Ends[using[q]] \in Names(using[q]) /\ Ends[held[q]] \in Names(held[q])
          BY <1>1, <4>1 DEF Follows
        <4>3. Names(using[q]) \subseteq Answers(q) /\ Names(held[q]) \subseteq Answers(q)
          BY <4>1 DEF Answers
        <4>4. t \notin Answers(q)
          BY <2>1, <2>8
        <4> QED BY <4>2, <4>3, <4>4
      <3>3. Paired(using[q], held[q])
        BY <2>8, <3>1 DEF Orderly, NamesPaired
      <3>4. \A a, b \in seen : Paired(a, b) => Paired(a, b)' \/ Ends[a] = t \/ Ends[b] = t
        BY <2>7, <2>8
      <3> QED BY <3>1, <3>2, <3>3, <3>4 DEF Paired
    <2>9. TypeOK' /\ (mishaps' = {} => mishaps = {})
      BY <2>1, <2>3, <2>5, PartsNext
    <2>10. Asked'
      BY <2>1 DEF Inv, Asked, AskedBy, Holds
    <2>11. ASSUME mishaps' = {} PROVE Orderly'
      BY <2>7, <2>8, <2>9, <2>11 DEF Inv, Orderly, NamesPaired
    <2> QED BY <2>3, <2>4, <2>9, <2>10, <2>11 DEF Inv
  <1> QED BY <1>3, <1>4, <1>5, <1>6, <1>7 DEF Environment

\* A request moves, and holds what it held or nothing before and after.
LEMMA RequestMoves ==
    ASSUME Inv, NEW r \in Requests,
           PoolTypes', RequestTypes', HistoryTypes', Acyclic', Issued', seen \subseteq seen',
           mishaps' = {} => mishaps = {},
           \A q \in Requests : q # r => /\ pc'[q] = pc[q] /\ held'[q] = held[q] /\ using'[q] = using[q]
                                        /\ q \in retrying' <=> q \in retrying,
           AskedBy(r)', pc'[r] # "verify",
           mishaps' = {} => (Holds(r)' <=> Holds(r)) /\ (Holds(r) => held'[r] = held[r]),
           Replaced => Replaced' /\ (\A a, b \in seen : Paired(a, b) => Paired(a, b)'),
           Replaced /\ Counted /\ Steady => Counted'
    PROVE  Inv'
  <1>1. {r} \in SUBSET Requests
    OBVIOUS
  <1>2. ASSUME mishaps' = {} PROVE Steady
    BY <1>2 DEF Steady, Holds
  <1>3. \A q \in {r} : AskedBy(q)' /\ (mishaps' = {} /\ Orderly /\ pc'[q] = "verify" => Paired(using[q], held[q])')
    OBVIOUS
  <1>4. mishaps' = {} /\ Orderly => Replaced' /\ Counted' /\ (\A a, b \in seen : Paired(a, b) => Paired(a, b)')
    BY <1>2 DEF Orderly
  <1> QED BY <1>1, <1>3, <1>4, SomeMove

\* The same where the pool stays as it is.
LEMMA StillMoves ==
    ASSUME Inv, UNCHANGED pool
    PROVE  /\ PoolTypes' /\ Acyclic' /\ Issued' /\ seen' = seen
           /\ Replaced => Replaced' /\ (\A a, b \in seen : Paired(a, b) => Paired(a, b)')
           /\ Replaced /\ Counted /\ Steady => Counted'
  BY PoolFacts, StatusMoves DEF pool, PoolTypes

LEMMA GoesTo ==
    ASSUME RequestTypes, NEW r \in Requests, NEW label \in Labels, Goto(r, label)
    PROVE  /\ pc' \in [Requests -> Labels] /\ pc'[r] = label
           /\ \A q \in Requests : q # r => pc'[q] = pc[q]
  BY DEF RequestTypes, Goto

\* Aliases end where they did while statuses and aliases stay.
LEMMA SameEnds ==
    ASSUME Inv, UNCHANGED <<status, aliases>>
    PROVE  Ends' = Ends
  <1>1. Linked /\ Follows
    BY PoolFacts
  <1>2. Linked' /\ Follows'
    BY <1>1, EndsFollowNext DEF Linked, Acyclic
  <1> DEFINE D == {x \in Tokens : Ends'[x] # Ends[x]}
  <1>3. ASSUME NEW x \in D PROVE ~Stops(x) /\ aliases[x] \in D
    BY <1>1, <1>2 DEF Follows, Stops, Present
  <1>4. D = {}
    <2>1. D \in SUBSET Tokens
      OBVIOUS
    <2> HIDE DEF D
    <2> QED BY <1>1, <1>3, <2>1, AlongAliases
  <1>5. Ends \in [Tokens -> Tokens] /\ Ends' \in [Tokens -> Tokens]
    BY <1>1, <1>2 DEF Follows
  <1> QED BY <1>4, <1>5

\* A release reaches the account that the slot is counted for.
LEMMA ReleaseMoves ==
    ASSUME Inv, NEW r \in Requests, Holds(r), ~Holds(r)',
           inflight' = Released(held[r]), UNCHANGED <<status, aliases, seen>>,
           \A q \in Requests : q # r => (Holds(q)' <=> Holds(q)) /\ held'[q] = held[q]
    PROVE  /\ PoolTypes' /\ Acyclic' /\ Issued'
           /\ Replaced => Replaced'
           /\ \A a, b \in seen : Paired(a, b) => Paired(a, b)'
           /\ Counted => Counted'
  <1> DEFINE u == Ends[held[r]]
  <1>1. /\ PoolTypes /\ Follows
        /\ \A x \in seen : x \in Tokens /\ Ends[x] \in seen
        /\ \A q \in Requests : Holds(q) => held[q] \in seen
    BY PoolFacts
  <1>2. u \in Tokens /\ u \in seen /\ held[r] \in Tokens /\ Resolve(held[r]) = u
    BY <1>1 DEF Ends
  <1>3. Ends' = Ends
    BY SameEnds
  <1> HIDE DEF u
  <1>4. inflight \in [Tokens -> 0..MaxConcurrency] /\ inflight[u] \in Nat
    BY <1>1, <1>2, Bounds DEF PoolTypes
  <1>5. (IF inflight[u] <= 1 THEN 0 ELSE inflight[u] - 1) \in 0..MaxConcurrency
    BY <1>2, <1>4, Bounds
  <1>6. inflight' = [inflight EXCEPT ![u] = IF inflight[u] <= 1 THEN 0 ELSE inflight[u] - 1]
    BY <1>2, <1>4 DEF Released
  <1>7. /\ inflight' \in [Tokens -> 0..MaxConcurrency]
        /\ inflight'[u] = IF inflight[u] <= 1 THEN 0 ELSE inflight[u] - 1
        /\ \A x \in Tokens : x # u => inflight'[x] = inflight[x]
    BY <1>2, <1>4, <1>5, <1>6
  <1>8. \A x \in Tokens : inflight[x] = 0 => inflight'[x] = 0
    BY <1>2, <1>7
  <1>9. PoolTypes' /\ Acyclic'
    BY <1>1, <1>7 DEF PoolTypes, Inv, Acyclic
  <1>10. Issued'
    BY <1>8 DEF Inv, Issued, Present
  <1>11. Replaced => Replaced'
    BY <1>8 DEF Replaced
  <1>12. ASSUME NEW a \in seen, NEW b \in seen, Paired(a, b) PROVE Paired(a, b)'
    <2>1. Ends[a] \in Tokens /\ Ends[b] \in Tokens
      BY <1>1
    <2>2. Ends'[a] = Ends[a] /\ Ends'[b] = Ends[b]
      BY <1>3
    <2> QED BY <1>8, <1>12, <2>1, <2>2 DEF Paired
  <1>13. ASSUME Counted PROVE Counted'
    <2>1. \A x \in Tokens : Users'[x] = {q \in Requests : Holds(q)' /\ Ends'[held'[q]] = x}
      BY DEF Users
    <2>2. \A x \in Tokens : Users[x] = {q \in Requests : Holds(q) /\ Ends[held[q]] = x}
      BY DEF Users
    <2>3. r \in Users[u]
      BY <1>2, <2>2 DEF u
    <2>4. \A x \in Tokens : {q \in Requests : Holds(q)' /\ Ends'[held'[q]] = x}
                          = {q \in Requests : Holds(q) /\ Ends[held[q]] = x} \ {r}
      BY <1>3
    <2>5. \A x \in Tokens : Users'[x] = Users[x] \ {r}
      BY <2>1, <2>2, <2>4
    <2>6. SUFFICES ASSUME NEW x \in Tokens
                   PROVE  /\ inflight'[x] <= Cardinality(Users'[x])
                          /\ status'[x] # "absent" => inflight'[x] = Cardinality(Users'[x])
      BY DEF Counted
    <2>7. Users[x] \in SUBSET Requests
      BY <2>2
    <2>8. IsFiniteSet(Users[x]) /\ Cardinality(Users[x]) \in Nat
      BY <2>7, UsersFinite
    <2>9. CASE x # u
      <3>1. r \notin Users[x]
        BY <2>2, <2>9 DEF u
      <3>2. Users'[x] = Users[x]
        BY <2>5, <3>1
      <3> QED BY <1>7, <1>13, <2>9, <3>2 DEF Counted
    <2>10. CASE x = u
      <3>1. Cardinality(Users'[x]) = Cardinality(Users[x]) - 1
        <4>1. Cardinality(Users[x] \ {r}) = Cardinality(Users[x]) - 1
          BY <2>3, <2>8, <2>10, FS_RemoveElement
        <4> QED BY <2>5, <4>1
      <3>2. Cardinality(Users[x]) >= 1
        <4>1. Cardinality(Users[x]) # 0
          BY <2>3, <2>8, <2>10, FS_EmptySet
        <4> QED BY <2>8, <4>1
      <3>3. inflight[x] <= Cardinality(Users[x]) /\ (status[x] # "absent" => inflight[x] = Cardinality(Users[x]))
        BY <1>13 DEF Counted
      <3> QED BY <1>4, <1>7, <2>8, <2>10, <3>1, <3>2, <3>3
    <2> QED BY <2>9, <2>10
  <1> QED BY <1>9, <1>10, <1>11, <1>12, <1>13

LEMMA AcquireMoves ==
    ASSUME Inv, NEW r \in Requests, Acquire(r)
    PROVE  Inv'
  <1>1. /\ PoolTypes /\ RequestTypes /\ HistoryTypes /\ Follows
        /\ \A x \in seen : x \in Tokens /\ Ends[x] \in seen
        /\ \A q \in Requests : Holds(q) => held[q] \in seen
    BY PoolFacts
  <1>2. PICK t \in Available(attempted[r]) :
          /\ inflight' = [inflight EXCEPT ![t] = @ + 1]
          /\ held' = [held EXCEPT ![r] = t]
          /\ using' = [using EXCEPT ![r] = t]
          /\ attempted' = [attempted EXCEPT ![r] = @ \cup {t}]
    BY DEF Acquire
  <1>3. /\ t \in Tokens /\ status[t] = "normal" /\ inflight[t] < MaxConcurrency /\ t \in seen
        /\ pc[r] = "wait" /\ Goto(r, "verify")
        /\ UNCHANGED <<status, aliases, seen, retrying, retried, mishaps, changes>>
    BY <1>2 DEF Acquire, Available, Ready, Inv, Issued, Present
  <1>4. inflight[t] + 1 \in 0..MaxConcurrency /\ inflight[t] \in Nat
    <2>1. inflight[t] \in 0..MaxConcurrency
      BY <1>1, <1>3 DEF PoolTypes
    <2> QED BY <1>3, <2>1, Bounds
  <1>5. inflight' \in [Tokens -> 0..MaxConcurrency] /\ inflight'[t] = inflight[t] + 1
        /\ \A x \in Tokens : x # t => inflight'[x] = inflight[x]
    BY <1>1, <1>2, <1>3, <1>4 DEF PoolTypes
  <1>6. /\ pc' \in [Requests -> Labels] /\ pc'[r] = "verify"
        /\ \A q \in Requests : q # r => pc'[q] = pc[q]
    BY <1>1, <1>3, GoesTo DEF Labels
  <1>7. RequestTypes' /\ held'[r] = t /\ using'[r] = t
        /\ \A q \in Requests : q # r => held'[q] = held[q] /\ using'[q] = using[q]
    BY <1>1, <1>2, <1>3, <1>6 DEF RequestTypes
  <1>8. PoolTypes' /\ HistoryTypes' /\ Acyclic'
    BY <1>1, <1>3, <1>5 DEF PoolTypes, HistoryTypes, Inv, Acyclic
  <1>9. Issued'
    BY <1>3, <1>5 DEF Inv, Issued, Present
  <1>10. ~Holds(r) /\ Holds(r)' /\ \A q \in Requests : q # r => (Holds(q)' <=> Holds(q))
    BY <1>3, <1>6 DEF Holds, Inv, Asked, AskedBy
  <1>11. AskedBy(r)'
    BY <1>3, <1>6, <1>7, <1>10, Bounds, <1>1 DEF AskedBy, Inv, Asked
  <1>12. Ends' = Ends /\ Ends[t] = t
    BY <1>1, <1>3, SameEnds DEF Follows, Stops, Present
  <1>13. ASSUME Orderly PROVE Replaced' /\ Counted' /\ (\A a, b \in seen : Paired(a, b) => Paired(a, b)')
    <2>1. Replaced'
      BY <1>3, <1>5, <1>13 DEF Orderly, Replaced
    <2>2. ASSUME NEW a \in seen, NEW b \in seen, Paired(a, b) PROVE Paired(a, b)'
      <3>1. Ends[a] \in Tokens /\ Ends[b] \in Tokens /\ Ends'[a] = Ends[a] /\ Ends'[b] = Ends[b]
        BY <1>1, <1>12
      <3> QED BY <1>3, <1>5, <2>2, <3>1 DEF Paired
    <2>3. \A x \in Tokens : Users'[x] = {q \in Requests : Holds(q)' /\ Ends'[held'[q]] = x}
      BY DEF Users
    <2>4. \A x \in Tokens : Users[x] = {q \in Requests : Holds(q) /\ Ends[held[q]] = x}
      BY DEF Users
    <2>5. {q \in Requests : Holds(q)' /\ Ends'[held'[q]] = t} = {q \in Requests : Holds(q) /\ Ends[held[q]] = t} \cup {r}
      BY <1>7, <1>10, <1>12
    <2>6. \A x \in Tokens : x # t => {q \in Requests : Holds(q)' /\ Ends'[held'[q]] = x}
                                   = {q \in Requests : Holds(q) /\ Ends[held[q]] = x}
      BY <1>7, <1>10, <1>12
    <2>7. Users'[t] = Users[t] \cup {r} /\ \A x \in Tokens : x # t => Users'[x] = Users[x]
      BY <1>3, <2>3, <2>4, <2>5, <2>6
    <2>8. Users[t] \in SUBSET Requests /\ r \notin Users[t]
      BY <1>3, <1>10, <2>4
    <2>9. Cardinality(Users[t] \cup {r}) = Cardinality(Users[t]) + 1 /\ Cardinality(Users[t]) \in Nat
      BY <2>8, UsersFinite, FS_AddElement
    <2>10. inflight[t] = Cardinality(Users[t])
      BY <1>3, <1>13 DEF Orderly, Counted
    <2>11. inflight'[t] = Cardinality(Users'[t])
      BY <1>5, <2>7, <2>9, <2>10
    <2>12. Counted'
      <3>1. SUFFICES ASSUME NEW x \in Tokens
                     PROVE  /\ inflight'[x] <= Cardinality(Users'[x])
                            /\ status'[x] # "absent" => inflight'[x] = Cardinality(Users'[x])
        BY DEF Counted
      <3>2. CASE x = t
        BY <1>4, <1>5, <2>11, <3>2
      <3>3. CASE x # t
        BY <1>3, <1>5, <1>13, <2>7, <3>3 DEF Orderly, Counted
      <3> QED BY <3>2, <3>3
    <2> QED BY <2>1, <2>2, <2>12
  <1>14. Paired(using[r], held[r])'
    BY <1>7 DEF Paired
  <1>15. {r} \in SUBSET Requests
    OBVIOUS
  <1> QED BY <1>3, <1>6, <1>7, <1>8, <1>9, <1>11, <1>13, <1>14, <1>15, SomeMove

\* Steps of a request that touch no count and no alias.
LEMMA QuietMoves ==
    ASSUME Inv, NEW r \in Requests,
           Top(r) \/ CancelAtTop(r) \/ NoCandidate(r) \/ FallbackRetry(r) \/ Mark(r)
    PROVE  Inv'
  <1>1. PoolTypes /\ RequestTypes /\ HistoryTypes /\ Follows /\ AskedBy(r)
    BY PoolFacts DEF Inv, Asked
  <1>2. CASE Top(r)
    <2>1. /\ pc[r] = "top" /\ Goto(r, IF r \in retrying THEN "generate" ELSE "wait")
          /\ retrying' = retrying \ {r}
          /\ UNCHANGED pool /\ UNCHANGED <<held, using, attempted, retried, mishaps, changes>>
      BY <1>2 DEF Top
    <2>2. /\ pc' \in [Requests -> Labels] /\ pc'[r] = IF r \in retrying THEN "generate" ELSE "wait"
          /\ \A q \in Requests : q # r => pc'[q] = pc[q]
      BY <1>1, <2>1, GoesTo DEF Labels
    <2>3. RequestTypes' /\ HistoryTypes'
      BY <1>1, <2>1, <2>2 DEF RequestTypes, HistoryTypes
    <2>4. Holds(r)' <=> Holds(r)
      BY <2>1, <2>2 DEF Holds
    <2>5. AskedBy(r)'
      BY <1>1, <2>1, <2>2, <2>4 DEF AskedBy, pool
    <2> QED BY <2>1, <2>2, <2>3, <2>4, <2>5, StillMoves, RequestMoves
  <1>3. CASE CancelAtTop(r)
    <2>1. /\ pc[r] = "top" /\ Goto(r, "done")
          /\ mishaps' = IF r \in retrying THEN mishaps \cup {"cancelled"} ELSE mishaps
          /\ retrying' = retrying \ {r} /\ held' = [held EXCEPT ![r] = NoToken]
          /\ retried' = retried \ {r}
          /\ UNCHANGED pool /\ UNCHANGED <<using, attempted, changes>>
      BY <1>3 DEF CancelAtTop
    <2>2. pc' \in [Requests -> Labels] /\ pc'[r] = "done" /\ \A q \in Requests : q # r => pc'[q] = pc[q]
      BY <1>1, <2>1, GoesTo DEF Labels
    <2>3. RequestTypes' /\ HistoryTypes' /\ held'[r] = NoToken /\ \A q \in Requests : q # r => held'[q] = held[q]
      BY <1>1, <2>1, <2>2 DEF RequestTypes, HistoryTypes
    <2>4. ~Holds(r)' /\ (mishaps' = {} => mishaps = {} /\ ~Holds(r))
      BY <2>1, <2>2 DEF Holds
    <2>5. AskedBy(r)'
      BY <1>1, <2>1, <2>2, <2>3, <2>4 DEF AskedBy, pool
    <2> QED BY <2>1, <2>2, <2>3, <2>4, <2>5, StillMoves, RequestMoves
  <1>4. CASE NoCandidate(r)
    <2>1. /\ pc[r] = "wait" /\ Goto(r, "done") /\ attempted' = [attempted EXCEPT ![r] = {}]
          /\ retried' = retried \ {r}
          /\ UNCHANGED pool /\ UNCHANGED <<held, using, retrying, mishaps, changes>>
      BY <1>4 DEF NoCandidate
    <2>2. pc' \in [Requests -> Labels] /\ pc'[r] = "done" /\ \A q \in Requests : q # r => pc'[q] = pc[q]
      BY <1>1, <2>1, GoesTo DEF Labels
    <2>3. RequestTypes' /\ HistoryTypes'
      BY <1>1, <2>1, <2>2 DEF RequestTypes, HistoryTypes
    <2>4. ~Holds(r)' /\ ~Holds(r)
      BY <1>1, <2>1, <2>2 DEF Holds, AskedBy
    <2>5. AskedBy(r)'
      BY <1>1, <2>1, <2>2, <2>4 DEF AskedBy, pool
    <2> QED BY <2>1, <2>2, <2>3, <2>4, <2>5, StillMoves, RequestMoves
  <1>5. CASE FallbackRetry(r)
    <2>1. /\ pc[r] = "generate" /\ Goto(r, "top")
          /\ retrying' = retrying \cup {r} /\ retried' = retried \cup {r}
          /\ UNCHANGED pool /\ UNCHANGED <<held, using, attempted, mishaps, changes>>
      BY <1>5 DEF FallbackRetry
    <2>2. pc' \in [Requests -> Labels] /\ pc'[r] = "top" /\ \A q \in Requests : q # r => pc'[q] = pc[q]
      BY <1>1, <2>1, GoesTo DEF Labels
    <2>3. RequestTypes' /\ HistoryTypes'
      BY <1>1, <2>1, <2>2 DEF RequestTypes, HistoryTypes
    <2>4. Holds(r)' /\ Holds(r)
      BY <2>1, <2>2 DEF Holds
    <2>5. AskedBy(r)'
      BY <1>1, <2>1, <2>2, <2>4 DEF AskedBy, pool
    <2> QED BY <2>1, <2>2, <2>3, <2>4, <2>5, StillMoves, RequestMoves
  <1>6. CASE Mark(r)
    <2>1. /\ pc[r] = "mark" /\ Goto(r, "done") /\ held' = [held EXCEPT ![r] = NoToken]
          /\ status' = [status EXCEPT ![Resolve(held[r])] = IF @ = "limited" THEN "normal" ELSE @]
          /\ UNCHANGED <<aliases, inflight, seen, using, attempted, retrying, retried, mishaps, changes>>
      BY <1>6 DEF Mark
    <2>2. pc' \in [Requests -> Labels] /\ pc'[r] = "done" /\ \A q \in Requests : q # r => pc'[q] = pc[q]
      BY <1>1, <2>1, GoesTo DEF Labels
    <2>3. RequestTypes' /\ HistoryTypes' /\ held'[r] = NoToken /\ \A q \in Requests : q # r => held'[q] = held[q]
      BY <1>1, <2>1, <2>2 DEF RequestTypes, HistoryTypes
    <2>4. ~Holds(r)' /\ ~Holds(r)
      BY <1>1, <2>1, <2>2 DEF Holds, AskedBy
    <2>5. AskedBy(r)'
      BY <1>1, <2>1, <2>2, <2>3, <2>4 DEF AskedBy
    <2>6. /\ status' \in [Tokens -> {"absent", "normal", "limited", "bad"}]
          /\ \A x \in Tokens : status'[x] # "absent" => status[x] # "absent"
      BY <1>1, <2>1 DEF PoolTypes
    <2>7. UNCHANGED <<aliases, inflight, seen>>
      BY <2>1
    <2> QED BY <2>1, <2>2, <2>3, <2>4, <2>5, <2>6, <2>7, StatusMoves, RequestMoves
  <1> QED BY <1>2, <1>3, <1>4, <1>5, <1>6

\* The preflight fails: whatever it told about the account, the slot is still
\* to be released.
LEMMA FailMoves ==
    ASSUME Inv, NEW r \in Requests, PreflightFails(r)
    PROVE  Inv'
  <1>1. /\ PoolTypes /\ RequestTypes /\ HistoryTypes /\ Follows /\ AskedBy(r)
        /\ \A x \in seen : x \in Tokens /\ Ends[x] \in seen
    BY PoolFacts DEF Inv, Asked
  <1>2. /\ pc[r] = "verify" /\ Goto(r, "drop") /\ using' = [using EXCEPT ![r] = NoToken]
        /\ UNCHANGED <<held, retrying, retried, mishaps, changes>>
    BY DEF PreflightFails
  <1>3. using[r] \in Tokens /\ held[r] \in seen /\ Resolve(using[r]) \in Tokens
    <2>1. using[r] \in seen /\ held[r] \in seen
      BY <1>2, PoolFacts
    <2>2. Resolve(using[r]) = Ends[using[r]]
      BY <1>1, <2>1 DEF Ends
    <2> QED BY <1>1, <2>1, <2>2
  <1>4. Update(using[r], "limited") \/ HandleInvalid(using[r]) \/ UNCHANGED pool
    BY DEF PreflightFails
  <1>5. attempted' \in [Requests -> SUBSET Tokens]
    <2>1. Told(using[r], "limited") \in Tokens
      BY <1>3 DEF Told
    <2> QED BY <1>1, <2>1 DEF PreflightFails, RequestTypes
  <1>6. pc' \in [Requests -> Labels] /\ pc'[r] = "drop" /\ \A q \in Requests : q # r => pc'[q] = pc[q]
    BY <1>1, <1>2, GoesTo DEF Labels
  <1>7. RequestTypes' /\ HistoryTypes' /\ using'[r] = NoToken /\ \A q \in Requests : q # r => using'[q] = using[q]
    BY <1>1, <1>2, <1>5, <1>6 DEF RequestTypes, HistoryTypes
  <1>8. Holds(r)' /\ Holds(r)
    BY <1>2, <1>6 DEF Holds
  <1>9. /\ PoolTypes' /\ Acyclic' /\ Issued' /\ seen' = seen
        /\ Replaced => Replaced' /\ (\A a, b \in seen : Paired(a, b) => Paired(a, b)')
        /\ Replaced /\ Counted /\ Steady => Counted'
    BY <1>3, <1>4, UpdateMoves
  <1>10. AskedBy(r)'
    BY <1>1, <1>2, <1>6, <1>7, <1>8, <1>9 DEF AskedBy
  <1> QED BY <1>2, <1>6, <1>7, <1>8, <1>9, <1>10, RequestMoves

\* A token that was refused once its slot is released.
LEMMA BlameMoves ==
    ASSUME Inv, NEW r \in Requests, Blame(r)
    PROVE  Inv'
  <1>1. /\ PoolTypes /\ RequestTypes /\ HistoryTypes /\ Follows /\ AskedBy(r)
        /\ \A x \in seen : x \in Tokens /\ Ends[x] \in seen
    BY PoolFacts DEF Inv, Asked
  <1>2. /\ pc[r] = "blame" /\ Goto(r, "top") /\ held' = [held EXCEPT ![r] = NoToken]
        /\ UNCHANGED <<using, attempted, retrying, retried, mishaps, changes>>
    BY DEF Blame
  <1>3. held[r] \in Tokens /\ held[r] \in seen /\ Resolve(held[r]) \in Tokens
    <2>1. held[r] \in seen
      BY <1>1, <1>2 DEF AskedBy
    <2>2. Resolve(held[r]) = Ends[held[r]]
      BY <1>1, <2>1 DEF Ends
    <2> QED BY <1>1, <2>1, <2>2
  <1>4. pc' \in [Requests -> Labels] /\ pc'[r] = "top" /\ \A q \in Requests : q # r => pc'[q] = pc[q]
    BY <1>1, <1>2, GoesTo DEF Labels
  <1>5. RequestTypes' /\ HistoryTypes' /\ held'[r] = NoToken /\ \A q \in Requests : q # r => held'[q] = held[q]
    BY <1>1, <1>2, <1>4 DEF RequestTypes, HistoryTypes
  <1>6. ~Holds(r)' /\ ~Holds(r) /\ r \notin retrying'
    BY <1>1, <1>2, <1>4 DEF Holds, AskedBy
  <1>7. /\ PoolTypes' /\ Acyclic' /\ Issued' /\ seen \subseteq seen'
        /\ Replaced => Replaced' /\ (\A a, b \in seen : Paired(a, b) => Paired(a, b)')
        /\ Replaced /\ Counted /\ Steady => Counted'
    <2>1. CASE HandleInvalid(held[r])
      BY <1>3, <2>1, UpdateMoves
    <2>2. CASE Present(Resolve(held[r])) /\ \E n \in Tokens \ seen : Rotated(Resolve(held[r]), n)
      <3>1. PICK n \in Tokens \ seen : Rotated(Resolve(held[r]), n)
        BY <2>2
      <3> DEFINE z == Resolve(held[r])
      <3>2. z \in Tokens /\ Present(z) /\ Rotated(z, n)
        BY <1>3, <2>2, <3>1
      <3> HIDE DEF z
      <3> QED BY <3>1, <3>2, RotatedMoves
    <2>3. CASE UNCHANGED pool
      <3>1. Steady
        BY <1>5, <1>2, <1>4, <1>6 DEF Steady, Holds
      <3> QED BY <2>3, <3>1, StillMoves
    <2> QED BY <2>1, <2>2, <2>3 DEF Blame
  <1>8. AskedBy(r)'
    BY <1>1, <1>2, <1>4, <1>5, <1>6, <1>7 DEF AskedBy
  <1> QED BY <1>2, <1>4, <1>5, <1>6, <1>7, <1>8, RequestMoves

\* A slot is given back after a failed preflight or at the end of an image.
LEMMA GiveBackMoves ==
    ASSUME Inv, NEW r \in Requests, Drop(r) \/ Finish(r)
    PROVE  Inv'
  <1>1. /\ PoolTypes /\ RequestTypes /\ HistoryTypes /\ Follows /\ AskedBy(r)
        /\ \A x \in seen : x \in Tokens /\ Ends[x] \in seen
    BY PoolFacts DEF Inv, Asked
  <1>2. /\ pc[r] \in {"drop", "generate"} /\ inflight' = Released(held[r])
        /\ UNCHANGED <<status, aliases, seen>> /\ UNCHANGED <<using, attempted, retrying, mishaps>>
        /\ retried' \subseteq retried
        /\ changes' = changes \/ Change
        /\ \E label \in {"wait", "mark", "blame", "done"} : Goto(r, label)
    BY DEF Drop, Finish
  <1>3. PICK label \in {"wait", "mark", "blame", "done"} : Goto(r, label)
    BY <1>2
  <1>4. held' = [held EXCEPT ![r] = NoToken] \/ (held' = held /\ (Goto(r, "mark") \/ Goto(r, "blame")))
    BY DEF Drop, Finish
  <1>5. pc' \in [Requests -> Labels] /\ pc'[r] = label /\ \A q \in Requests : q # r => pc'[q] = pc[q]
    BY <1>1, <1>3, GoesTo DEF Labels
  <1>6. RequestTypes' /\ HistoryTypes' /\ \A q \in Requests : q # r => held'[q] = held[q]
    BY <1>1, <1>2, <1>4, <1>5, SlotsAssumption DEF RequestTypes, HistoryTypes, Change
  <1>7. Holds(r) /\ ~Holds(r)' /\ r \notin retrying'
    BY <1>1, <1>2, <1>5 DEF Holds, AskedBy
  <1>8. \A q \in Requests : q # r => (Holds(q)' <=> Holds(q)) /\ held'[q] = held[q]
    BY <1>2, <1>5, <1>6 DEF Holds
  <1>9. held'[r] = NoToken \/ held'[r] = held[r]
    BY <1>1, <1>4 DEF RequestTypes
  <1>10. held'[r] = NoToken => pc'[r] \notin {"mark", "blame"}
    <2>1. held[r] # NoToken
      BY <1>1, <1>7 DEF AskedBy
    <2>2. Finish(r) \/ pc'[r] = "wait"
      <3>1. Drop(r) => Goto(r, "wait")
        BY DEF Drop
      <3> QED BY <1>1, <3>1, GoesTo DEF Labels
    <2>3. CASE Finish(r)
      <3>1. \/ UNCHANGED held
            \/ Goto(r, "done")
        BY <2>3 DEF Finish
      <3>2. Goto(r, "done") => pc'[r] = "done"
        BY <1>1, GoesTo DEF Labels
      <3> QED BY <2>1, <3>1, <3>2
    <2> QED BY <2>2, <2>3
  <1>11. AskedBy(r)'
    BY <1>1, <1>2, <1>5, <1>7, <1>9, <1>10 DEF AskedBy
  <1>12. /\ PoolTypes' /\ Acyclic' /\ Issued'
         /\ Replaced => Replaced'
         /\ \A a, b \in seen : Paired(a, b) => Paired(a, b)'
         /\ Counted => Counted'
    BY <1>2, <1>7, <1>8, ReleaseMoves
  <1>13. {r} \in SUBSET Requests /\ pc'[r] # "verify"
    BY <1>5
  <1> QED BY <1>2, <1>5, <1>6, <1>8, <1>11, <1>12, <1>13, SomeMove DEF Orderly

\* The preflight's forced refresh rotates the account of the slot: the request
\* goes on with the new token, and its slot is found with the old one.
LEMMA RotateMoves ==
    ASSUME Inv, NEW r \in Requests, NEW n \in Tokens, PreflightRotates(r, n)
    PROVE  Inv'
  <1> DEFINE z == Ends[using[r]]
  <1>1. /\ PoolTypes /\ RequestTypes /\ HistoryTypes /\ Follows /\ AskedBy(r)
        /\ \A x \in seen : x \in Tokens /\ Ends[x] \in seen
        /\ pc[r] = "verify" => using[r] \in seen /\ held[r] \in seen
    BY PoolFacts DEF Inv, Asked
  <1>2. /\ pc[r] = "verify" /\ Change /\ n \in Tokens \ seen
        /\ using' = [using EXCEPT ![r] = n]
        /\ UNCHANGED <<pc, held, attempted, retrying, retried, mishaps>>
    BY DEF PreflightRotates
  <1>3. using[r] \in seen /\ held[r] \in seen /\ z \in Tokens /\ Resolve(using[r]) = z
    BY <1>1, <1>2 DEF Ends
  <1>4. Present(z) /\ Rotated(z, n)
    BY <1>3 DEF PreflightRotates
  <1> HIDE DEF z
  <1>5. /\ PoolTypes' /\ Acyclic' /\ Issued' /\ seen' = seen \cup {n}
        /\ Ends'[n] = n /\ \A x \in seen : Ends'[x] = IF Ends[x] = z THEN n ELSE Ends[x]
        /\ Replaced => Replaced'
        /\ \A a, b \in seen : Paired(a, b) => Paired(a, b)'
        /\ Counted /\ Steady => Counted'
    BY <1>2, <1>3, <1>4, RotatedMoves
  <1>6. RequestTypes' /\ HistoryTypes' /\ using'[r] = n /\ \A q \in Requests : q # r => using'[q] = using[q]
    BY <1>1, <1>2, SlotsAssumption DEF RequestTypes, HistoryTypes, Change
  <1>7. Steady
    BY <1>2 DEF Steady, Holds
  <1>8. AskedBy(r)'
    BY <1>1, <1>2, <1>3, <1>5, <1>6, Bounds DEF AskedBy, Holds
  <1>9. ASSUME Orderly PROVE Paired(using[r], held[r])'
    <2>1. Paired(using[r], held[r])
      BY <1>2, <1>9 DEF Orderly, NamesPaired
    <2>2. Ends[held[r]] = z
      BY <1>4, <2>1 DEF Paired, Present, z
    <2>3. Ends'[held'[r]] = n /\ Ends'[using'[r]] = n
      BY <1>2, <1>3, <1>5, <1>6, <2>2
    <2> QED BY <2>3 DEF Paired
  <1>10. {r} \in SUBSET Requests
    OBVIOUS
  <1> QED BY <1>2, <1>5, <1>6, <1>7, <1>8, <1>9, <1>10, SomeMove DEF Orderly

\* The preflight goes on with the name its token leads to.
LEMMA ResolveMoves ==
    ASSUME Inv, NEW r \in Requests, PreflightResolves(r)
    PROVE  Inv'
  <1>1. /\ PoolTypes /\ RequestTypes /\ HistoryTypes /\ Linked /\ Follows /\ AskedBy(r)
        /\ \A x \in seen : x \in Tokens /\ Ends[x] \in seen
        /\ pc[r] = "verify" => using[r] \in seen /\ held[r] \in seen
    BY PoolFacts DEF Inv, Asked
  <1>2. /\ pc[r] = "verify" /\ using' = [using EXCEPT ![r] = Resolve(using[r])]
        /\ UNCHANGED pool /\ UNCHANGED <<pc, held, attempted, retrying, retried, mishaps, changes>>
    BY DEF PreflightResolves
  <1>3. PICK z \in seen : z = Resolve(using[r]) /\ z = Ends[using[r]]
    BY <1>1, <1>2 DEF Ends
  <1>4. z \in Tokens /\ Ends[z] = z
    <2>1. using[r] \in Tokens /\ z \in Tokens
      BY <1>1, <1>2
    <2>2. Stops(z)
      BY <1>1, <1>3, <2>1 DEF Follows
    <2> QED BY <1>1, <2>1, <2>2 DEF Follows
  <1>5. RequestTypes' /\ HistoryTypes' /\ using'[r] = z /\ \A q \in Requests : q # r => using'[q] = using[q]
    BY <1>1, <1>2, <1>3, <1>4 DEF RequestTypes, HistoryTypes
  <1>6. Steady
    BY <1>2 DEF Steady, Holds
  <1>7. AskedBy(r)'
    BY <1>1, <1>2, <1>3, <1>4, <1>5, Bounds DEF AskedBy, Holds, pool
  <1>8. Ends' = Ends
    BY <1>1, <1>2, SameEnds DEF pool
  <1>9. ASSUME Orderly PROVE Paired(using[r], held[r])'
    <2>1. Paired(using[r], held[r])
      BY <1>2, <1>9 DEF Orderly, NamesPaired
    <2>2. Paired(z, held[r])
      BY <1>3, <1>4, <2>1 DEF Paired
    <2> QED BY <1>2, <1>5, <1>8, <2>2 DEF Paired, pool
  <1>10. {r} \in SUBSET Requests
    OBVIOUS
  <1> QED BY <1>2, <1>5, <1>6, <1>7, <1>9, <1>10, StillMoves, SomeMove DEF Orderly

\* The preflight passes: the request goes on with the account's present token,
\* which is where its slot is counted; or there is no account and no count.
LEMMA PassMoves ==
    ASSUME Inv, NEW r \in Requests, PreflightPasses(r)
    PROVE  Inv'
  <1> DEFINE z == Ends[using[r]]
  <1> DEFINE h == Ends[held[r]]
  <1>1. /\ PoolTypes /\ RequestTypes /\ HistoryTypes /\ Follows /\ AskedBy(r)
        /\ \A x \in seen : x \in Tokens /\ Ends[x] \in seen
        /\ \A q \in Requests : Holds(q) => held[q] \in seen
        /\ pc[r] = "verify" => using[r] \in seen /\ held[r] \in seen
    BY PoolFacts DEF Inv, Asked
  <1>2. /\ pc[r] = "verify" /\ Goto(r, "generate") /\ Update(using[r], "normal")
        /\ held' = [held EXCEPT ![r] = Told(using[r], "normal")]
        /\ using' = [using EXCEPT ![r] = NoToken] /\ attempted' = [attempted EXCEPT ![r] = {}]
        /\ UNCHANGED <<retrying, retried, mishaps, changes>>
    BY DEF PreflightPasses
  <1>3. /\ using[r] \in seen /\ held[r] \in seen /\ using[r] \in Tokens /\ held[r] \in Tokens
        /\ z \in Tokens /\ z \in seen /\ h \in Tokens /\ Resolve(using[r]) = z /\ Stops(z)
    BY <1>1, <1>2 DEF Ends, Follows
  <1>4. Ends[z] = z
    BY <1>1, <1>3 DEF Follows
  <1>5. Told(using[r], "normal") \in seen /\ Ends[Told(using[r], "normal")] = z
    BY <1>3, <1>4 DEF Told
  <1> HIDE DEF z, h
  <1>6. /\ status' \in [Tokens -> {"absent", "normal", "limited", "bad"}]
        /\ \A x \in Tokens : status'[x] # "absent" <=> status[x] # "absent"
        /\ UNCHANGED <<aliases, inflight, seen>>
    BY <1>1, <1>2, <1>3 DEF Update, Present, PoolTypes
  <1>7. /\ PoolTypes' /\ Acyclic' /\ Issued'
        /\ Replaced => Replaced' /\ Ends' = Ends /\ (\A a, b \in seen : Paired(a, b) => Paired(a, b)')
    BY <1>6, StatusMoves
  <1>8. pc' \in [Requests -> Labels] /\ pc'[r] = "generate" /\ \A q \in Requests : q # r => pc'[q] = pc[q]
    BY <1>1, <1>2, GoesTo DEF Labels
  <1>9. /\ RequestTypes' /\ HistoryTypes'
        /\ held'[r] = Told(using[r], "normal") /\ using'[r] = NoToken
        /\ \A q \in Requests : q # r => held'[q] = held[q] /\ using'[q] = using[q]
    BY <1>1, <1>2, <1>5, <1>8 DEF RequestTypes, HistoryTypes
  <1>10. Holds(r) /\ Holds(r)' /\ \A q \in Requests : q # r => (Holds(q)' <=> Holds(q))
    BY <1>2, <1>8 DEF Holds
  <1>11. AskedBy(r)'
    BY <1>1, <1>2, <1>5, <1>6, <1>8, <1>9, Bounds DEF AskedBy
  <1>12. ASSUME Orderly PROVE Counted'
    <2>1. Ends' = Ends /\ Paired(using[r], held[r])
      BY <1>2, <1>7, <1>12 DEF Orderly, NamesPaired
    <2>2. \A x \in Tokens : Users'[x] = {q \in Requests : Holds(q)' /\ Ends'[held'[q]] = x}
      BY DEF Users
    <2>3. \A x \in Tokens : Users[x] = {q \in Requests : Holds(q) /\ Ends[held[q]] = x}
      BY DEF Users
    <2>4. Ends'[held'[r]] = z /\ Ends[held[r]] = h
      BY <1>5, <1>9, <2>1 DEF h
    <2>5. \A q \in Requests : q # r => (Holds(q)' <=> Holds(q)) /\ Ends'[held'[q]] = Ends[held[q]]
      BY <1>9, <1>10, <2>1
    <2>6. \A x \in Tokens \ {z, h} : {q \in Requests : Holds(q)' /\ Ends'[held'[q]] = x}
                                   = {q \in Requests : Holds(q) /\ Ends[held[q]] = x}
      BY <2>4, <2>5
    <2>7. SUFFICES ASSUME NEW x \in Tokens
                   PROVE  /\ inflight'[x] <= Cardinality(Users'[x])
                          /\ status'[x] # "absent" => inflight'[x] = Cardinality(Users'[x])
      BY DEF Counted
    <2>8. inflight'[x] = inflight[x] /\ (status'[x] # "absent" <=> status[x] # "absent")
      BY <1>6
    <2>9. /\ inflight[x] <= Cardinality(Users[x])
          /\ status[x] # "absent" => inflight[x] = Cardinality(Users[x])
      BY <1>12 DEF Orderly, Counted
    <2>10. CASE z = h
      <3>1. {q \in Requests : Holds(q)' /\ Ends'[held'[q]] = x} = {q \in Requests : Holds(q) /\ Ends[held[q]] = x}
        BY <1>10, <2>4, <2>5, <2>10
      <3>2. Users'[x] = Users[x]
        BY <2>2, <2>3, <3>1
      <3> QED BY <2>8, <2>9, <3>2
    <2>11. CASE z # h
      <3>1. status[z] = "absent" /\ status[h] = "absent" /\ inflight[h] = 0
        BY <2>1, <2>11 DEF Paired, z, h
      <3>2. Users[x] \in SUBSET Requests /\ Users'[x] \in SUBSET Requests
        BY <2>2, <2>3
      <3>3. IsFiniteSet(Users'[x]) /\ Cardinality(Users[x]) \in Nat /\ Cardinality(Users'[x]) \in Nat
        BY <3>2, UsersFinite
      <3>4. CASE x = h
        BY <2>8, <3>1, <3>3, <3>4
      <3>5. CASE x = z
        <4>1. {q \in Requests : Holds(q) /\ Ends[held[q]] = z} \subseteq {q \in Requests : Holds(q)' /\ Ends'[held'[q]] = z}
          BY <2>4, <2>5, <2>11
        <4>2. Users[x] \subseteq Users'[x]
          BY <1>3, <2>2, <2>3, <3>5, <4>1
        <4>3. Cardinality(Users[x]) <= Cardinality(Users'[x])
          BY <3>3, <4>2, FS_Subset
        <4>4. inflight[x] \in Nat
          BY <1>1, <1>3, Bounds, <3>5 DEF PoolTypes
        <4> QED BY <2>8, <2>9, <3>1, <3>3, <3>5, <4>3, <4>4
      <3>6. CASE x \notin {z, h}
        <4>1. Users'[x] = Users[x]
          BY <2>2, <2>3, <2>6, <3>6
        <4> QED BY <2>8, <2>9, <4>1
      <3> QED BY <3>4, <3>5, <3>6
    <2> QED BY <2>10, <2>11
  <1>13. {r} \in SUBSET Requests /\ seen' = seen
    BY <1>6
  <1> QED BY <1>2, <1>7, <1>8, <1>9, <1>11, <1>12, <1>13, SomeMove DEF Orderly

-----------------------------------------------------------------------------
(* ImageSlots: the theorems *)

LEMMA InitInv == Init => Inv
  <1> SUFFICES ASSUME Init PROVE Inv
    OBVIOUS
  <1>1. TypeOK
    BY SlotsAssumption DEF Init, TypeOK
  <1>2. Acyclic
    BY Bounds DEF Init, Acyclic
  <1>3. Issued /\ Asked
    BY Bounds, SlotsAssumption DEF Init, Issued, Asked, AskedBy, Holds, Present
  <1>4. Replaced /\ NamesPaired
    BY DEF Init, Replaced, NamesPaired
  <1>5. Counted
    <2>1. \A t \in Tokens : Users[t] = {}
      BY DEF Init, Users, Holds
    <2> QED BY <2>1, FS_EmptySet DEF Init, Counted
  <1> QED BY <1>1, <1>2, <1>3, <1>4, <1>5 DEF Inv, Orderly

LEMMA StepInv == Inv /\ [Next]_vars => Inv'
  <1> SUFFICES ASSUME Inv, [Next]_vars PROVE Inv'
    OBVIOUS
  <1>1. CASE Environment
    BY <1>1, EnvironmentMoves
  <1>2. ASSUME NEW r \in Requests, Step(r) PROVE Inv'
    BY <1>2, QuietMoves, AcquireMoves, PassMoves, FailMoves, GiveBackMoves, BlameMoves DEF Step
  <1>3. ASSUME NEW r \in Requests, CancelAtTop(r) \/ FallbackRetry(r) PROVE Inv'
    BY <1>3, QuietMoves
  <1>4. ASSUME NEW r \in Requests, NEW n \in Tokens, PreflightRotates(r, n) PROVE Inv'
    BY <1>4, RotateMoves
  <1>6. ASSUME NEW r \in Requests, PreflightResolves(r) PROVE Inv'
    BY <1>6, ResolveMoves
  <1>5. CASE UNCHANGED vars
    <2>1. UNCHANGED pool /\ UNCHANGED request /\ UNCHANGED <<mishaps, changes>>
      BY <1>5 DEF vars
    <2>2. UNCHANGED <<pc, held, using, attempted, retrying, retried>>
      BY <2>1 DEF request
    <2>3. RequestTypes' /\ HistoryTypes'
      BY <2>1, <2>2, PoolFacts DEF RequestTypes, HistoryTypes
    <2>4. Steady
      BY <2>2 DEF Steady, Holds
    <2>5. {} \in SUBSET Requests
      OBVIOUS
    <2> QED BY <2>1, <2>2, <2>3, <2>4, <2>5, StillMoves, SomeMove DEF Orderly
  <1> QED BY <1>1, <1>2, <1>3, <1>4, <1>5, <1>6 DEF Next, Done

LEMMA InvHolds == Spec => []Inv
  BY InitInv, StepInv, PTL DEF Spec

\* The requests counted are those whose release reaches the token.
LEMMA HoldersAreUsers ==
    ASSUME Inv, NEW t \in Tokens
    PROVE  Holders(t) = Users[t]
  <1>1. \A r \in Requests : Holds(r) => held[r] \in Tokens
    BY PoolFacts
  <1>2. \A r \in Requests : Holds(r) => Ends[held[r]] = Resolve(held[r])
    BY <1>1 DEF Ends
  <1>3. Users[t] = {r \in Requests : Holds(r) /\ Ends[held[r]] = t}
    BY DEF Users
  <1>4. {r \in Requests : Holds(r) /\ Resolve(held[r]) = t} = {r \in Requests : Holds(r) /\ Ends[held[r]] = t}
    BY <1>2
  <1> QED BY <1>3, <1>4 DEF Holders

\* Whatever is rotated, removed and imported again, following the aliases of a
\* token ends, and at one token only: the guard of _resolve_access_token_locked
\* against a cycle never stops it anywhere else.
THEOREM ResolutionEnds ==
    Spec => [](\A t \in Tokens : \E u \in Names(t) :
                  Stops(u) /\ \A v \in Names(t) : Stops(v) => v = u)
  <1>1. Inv => \A t \in Tokens : \E u \in Names(t) :
                  Stops(u) /\ \A v \in Names(t) : Stops(v) => v = u
    BY PoolFacts, OneEnd
  <1> QED BY <1>1, InvHolds, PTL

LEMMA InvBounds ==
    ASSUME Inv
    PROVE  SlotsCounted /\ ConcurrencyRespected
  <1> SUFFICES ASSUME mishaps = {}, NEW t \in Tokens
               PROVE  /\ inflight[t] <= Cardinality(Holders(t))
                      /\ Present(t) => inflight[t] = Cardinality(Holders(t))
                      /\ Present(t) => Cardinality(Holders(t)) <= MaxConcurrency
    BY DEF SlotsCounted, InflightIsGenerating, ConcurrencyRespected
  <1>1. /\ inflight[t] <= Cardinality(Holders(t))
        /\ Present(t) => inflight[t] = Cardinality(Holders(t))
    BY HoldersAreUsers DEF Inv, Orderly, Counted, Present
  <1>2. inflight[t] \in 0..MaxConcurrency
    BY PoolFacts DEF PoolTypes
  <1> QED BY <1>1, <1>2, Bounds

\* Apart from a retry cancelled at the top of the loop and from an import of a
\* token that still leads somewhere, every account's count is the number of
\* images it is generating, for any number of accounts, requests and rotations,
\* and at most what the administrator allows; and an account that is gone owes
\* no more than its requests will give back.
THEOREM SlotsAccounted == Spec => []SlotsInv
  <1>1. Inv => SlotsInv
    BY InvBounds DEF SlotsInv, Inv
  <1> QED BY <1>1, InvHolds, PTL

-----------------------------------------------------------------------------
(* ImageSlots: the pool of slots it implements *)

\* Slot, said of where aliases end.
Places ==
    [r \in Requests |->
        IF Holds(r) /\ status[Ends[held[r]]] # "absent" THEN Ends[held[r]] ELSE NoToken]

SlotStep == [Slots!Next]_(Slots!vars)

LEMMA PlacesFit == Inv => Slot = Places
  <1> SUFFICES ASSUME Inv PROVE Slot = Places
    OBVIOUS
  <1>1. \A r \in Requests : Holds(r) => Ends[held[r]] = Resolve(held[r])
    BY PoolFacts DEF Ends
  <1>2. \A r \in Requests : Slot[r] = Places[r]
    BY <1>1 DEF Slot, Places, Present
  <1> QED BY <1>2 DEF Slot, Places

LEMMA PlacesFitNext == Inv' => (Slot = Places)'
  BY PlacesFit, PTL

\* What the steps of the pool of slots have to show.
Settled == Inv /\ Inv' /\ mishaps = {} /\ mishaps' = {}

LEMMA SettledFacts ==
    ASSUME Settled
    PROVE  /\ Inv /\ Inv' /\ Slot = Places /\ Slot' = Places'
           /\ Replaced /\ NamesPaired /\ Counted /\ Follows
           /\ (mishaps # {}) = FALSE /\ (mishaps # {})' = FALSE
           /\ \A r \in Requests : Places[r] =
                IF Holds(r) /\ status[Ends[held[r]]] # "absent" THEN Ends[held[r]] ELSE NoToken
           /\ \A r \in Requests : Places'[r] =
                IF Holds(r)' /\ status'[Ends'[held'[r]]] # "absent" THEN Ends'[held'[r]] ELSE NoToken
           /\ \A r \in Requests : Places[r] = NoToken \/ (Places[r] \in Tokens /\ Present(Places[r]))
  <1>1. Inv /\ Inv' /\ mishaps = {} /\ mishaps' = {}
    BY DEF Settled
  <1>2. Slot = Places /\ Slot' = Places'
    BY <1>1, PlacesFit, PlacesFitNext
  <1>3. Replaced /\ NamesPaired /\ Counted
    BY <1>1 DEF Inv, Orderly
  <1>4. /\ Follows /\ \A x \in seen : x \in Tokens /\ Ends[x] \in seen
        /\ \A r \in Requests : Holds(r) => held[r] \in seen
    BY <1>1, PoolFacts
  <1>5. \A r \in Requests : Places[r] =
          IF Holds(r) /\ status[Ends[held[r]]] # "absent" THEN Ends[held[r]] ELSE NoToken
    BY DEF Places
  <1>6. \A r \in Requests : Places'[r] =
          IF Holds(r)' /\ status'[Ends'[held'[r]]] # "absent" THEN Ends'[held'[r]] ELSE NoToken
    BY DEF Places
  <1>7. \A r \in Requests : Places[r] = NoToken \/ (Places[r] \in Tokens /\ Present(Places[r]))
    BY <1>4, <1>5 DEF Follows, Present
  <1> QED BY <1>1, <1>2, <1>3, <1>4, <1>5, <1>6, <1>7

\* Nothing happens to any slot.
LEMMA KeepStep ==
    ASSUME Settled, \A x \in Tokens : Present(x)' <=> Present(x),
           \A r \in Requests : Places'[r] = Places[r]
    PROVE  SlotStep
  <1>1. Places' = Places
    BY DEF Places
  <1>2. Slot' = Slot
    BY <1>1, SettledFacts
  <1>3. {t \in Tokens : Present(t)}' = {t \in Tokens : Present(t)}
    OBVIOUS
  <1> QED BY <1>2, <1>3, SettledFacts DEF SlotStep, Slots!vars

\* An account goes, if it was there, and the slots of it; nothing else does.
LEMMA CloseStep ==
    ASSUME Settled, NEW u \in Tokens, ~Present(u)',
           \A x \in Tokens : x # u => (Present(x)' <=> Present(x)),
           \A r \in Requests : Places'[r] = IF Places[r] = u THEN NoToken ELSE Places[r]
    PROVE  SlotStep
  <1>1. CASE Present(u)
    <2>1. {t \in Tokens : Present(t)}' = {t \in Tokens : Present(t)} \ {u} /\ u \in {t \in Tokens : Present(t)}
      BY <1>1
    <2>2. Places' = [r \in Requests |-> IF Places[r] = u THEN NoToken ELSE Places[r]]
      BY DEF Places
    <2>3. Slots!Close(u)
      BY <2>1, <2>2, SettledFacts DEF Slots!Close
    <2> QED BY <2>3, SettledFacts DEF SlotStep, Slots!Next
  <1>2. CASE ~Present(u)
    <2>1. \A r \in Requests : Places[r] # u
      BY <1>2, SettledFacts, Bounds
    <2> QED BY <1>2, <2>1, KeepStep
  <1> QED BY <1>1, <1>2

\* Requests stay, aliases end where they did, and one account at most is gone.
LEMMA FadeStep ==
    ASSUME Settled, Steady, NEW u \in Tokens,
           \A x \in Tokens : x # u => (Present(x)' <=> Present(x)),
           Present(u)' => Present(u), Ends' = Ends
    PROVE  SlotStep
  <1>1. \A r \in Requests : Holds(r) => Ends'[held'[r]] = Ends[held[r]] /\ Ends[held[r]] \in Tokens
    <2>1. \A r \in Requests : Holds(r) => Ends[held[r]] \in Tokens
      BY PoolFacts DEF Settled
    <2> QED BY <2>1 DEF Steady
  <1>2. \A r \in Requests : Holds(r)' <=> Holds(r)
    BY DEF Steady
  <1>3. CASE Present(u)'
    <2>1. \A x \in Tokens : Present(x)' <=> Present(x)
      BY <1>3
    <2>2. \A x \in Tokens : status'[x] # "absent" <=> status[x] # "absent"
      BY <2>1 DEF Present
    <2>3. \A r \in Requests : Places'[r] = Places[r]
      BY <1>1, <1>2, <2>2, SettledFacts
    <2> QED BY <2>1, <2>3, KeepStep
  <1>4. CASE ~Present(u)'
    <2>1. status'[u] = "absent" /\ \A x \in Tokens : x # u => (status'[x] # "absent" <=> status[x] # "absent")
      BY <1>4 DEF Present
    <2>2. \A r \in Requests : Places'[r] = IF Places[r] = u THEN NoToken ELSE Places[r]
      BY <1>1, <1>2, <2>1, SettledFacts, Bounds
    <2> QED BY <1>4, <2>2, CloseStep
  <1> QED BY <1>3, <1>4

LEMMA UpdateStep ==
    ASSUME Settled, Steady, NEW z \in Tokens, NEW s \in {"normal", "limited", "bad"},
           Update(z, s) \/ HandleInvalid(z) \/ Delete(z) \/ UNCHANGED pool
    PROVE  SlotStep
  <1>1. Inv /\ PoolTypes /\ Follows /\ Replaced /\ \A r \in Requests : Holds(r) => held[r] \in Tokens
    BY PoolFacts, SettledFacts
  <1>2. PICK u \in Tokens : Ends[z] = u /\ Resolve(z) = u
    BY <1>1 DEF Follows, Ends
  <1>3. ASSUME NEW k \in {"normal", "limited", "bad"}, Update(z, k) PROVE SlotStep
    <2>1. /\ status' \in [Tokens -> {"absent", "normal", "limited", "bad"}]
          /\ UNCHANGED <<aliases, inflight, seen>>
          /\ \A x \in Tokens : x # u => status'[x] = status[x]
          /\ status'[u] # "absent" => status[u] # "absent"
      BY <1>1, <1>2, <1>3 DEF Update, PoolTypes, Present
    <2>2. Ends' = Ends
      BY <1>1, <2>1, StatusMoves
    <2> QED BY <1>2, <2>1, <2>2, FadeStep DEF Present
  <1>4. CASE UNCHANGED pool
    <2>1. /\ status' \in [Tokens -> {"absent", "normal", "limited", "bad"}]
          /\ UNCHANGED <<aliases, inflight, seen>> /\ status' = status
      BY <1>1, <1>4 DEF pool, PoolTypes
    <2>2. Ends' = Ends
      BY <1>1, <2>1, StatusMoves
    <2> QED BY <2>1, <2>2, FadeStep DEF Present
  <1>5. CASE Delete(z)
    <2>1. /\ \A x \in Tokens : x # u => status'[x] = status[x]
          /\ status'[u] = "absent"
          /\ \A x \in Tokens : /\ Ends[x] # u => Ends'[x] = Ends[x]
                               /\ Ends[x] = u => status'[Ends'[x]] = "absent"
      BY <1>1, <1>2, <1>5, DeleteMoves
    <2>2. ASSUME NEW r \in Requests PROVE Places'[r] = IF Places[r] = u THEN NoToken ELSE Places[r]
      <3>1. CASE Holds(r)
        <4>1. Holds(r)' /\ held'[r] = held[r] /\ held[r] \in Tokens /\ Ends[held[r]] \in Tokens
          BY <1>1, <3>1 DEF Steady, Follows
        <4>2. CASE Ends[held[r]] = u
          <5>1. status'[Ends'[held'[r]]] = "absent"
            BY <2>1, <4>1, <4>2
          <5> QED BY <3>1, <4>2, <5>1, SettledFacts
        <4>3. CASE Ends[held[r]] # u
          <5>1. Ends'[held[r]] = Ends[held[r]]
            BY <2>1, <4>1, <4>3
          <5>2. Ends'[held'[r]] = Ends[held[r]]
            BY <4>1, <5>1
          <5>3. status'[Ends[held[r]]] = status[Ends[held[r]]]
            BY <2>1, <4>1, <4>3
          <5> QED BY <1>2, <5>2, <5>3, <3>1, <4>1, <4>3, SettledFacts, Bounds
        <4> QED BY <4>2, <4>3
      <3>2. CASE ~Holds(r)
        BY <3>2, SettledFacts DEF Steady
      <3> QED BY <3>1, <3>2
    <2>3. ~Present(u)' /\ \A x \in Tokens : x # u => (Present(x)' <=> Present(x))
      BY <2>1 DEF Present
    <2> QED BY <1>2, <2>2, <2>3, CloseStep
  <1> QED BY <1>3, <1>4, <1>5 DEF HandleInvalid

\* A rotation: the account and its slots have another name.
LEMMA RenameStep ==
    ASSUME Settled, Steady, NEW t \in Tokens, Present(t), NEW n \in Tokens \ seen, Rotated(t, n)
    PROVE  SlotStep
  <1>1. /\ Inv /\ PoolTypes /\ Follows
        /\ \A x \in seen : x \in Tokens /\ Ends[x] \in seen
        /\ \A r \in Requests : Holds(r) => held[r] \in seen
    BY PoolFacts, SettledFacts
  <1>2. Ends'[n] = n /\ \A x \in seen : Ends'[x] = IF Ends[x] = t THEN n ELSE Ends[x]
    BY <1>1, RotatedMoves
  <1>3. t # n /\ status[n] = "absent" /\ status[t] # "absent"
    BY <1>1 DEF Inv, Issued, Present
  <1>4. /\ status'[t] = "absent" /\ status'[n] # "absent"
        /\ \A x \in Tokens : x \notin {t, n} => status'[x] = status[x]
    BY <1>1, <1>3 DEF Rotated, PoolTypes
  <1>5. ASSUME NEW r \in Requests PROVE Places'[r] = IF Places[r] = t THEN n ELSE Places[r]
    <2>1. CASE Holds(r)
      <3>1. /\ Holds(r)' /\ held'[r] = held[r] /\ held[r] \in seen
            /\ Ends[held[r]] \in Tokens /\ Ends[held[r]] # n
        BY <1>1, <2>1 DEF Steady
      <3>2. Ends'[held'[r]] = IF Ends[held[r]] = t THEN n ELSE Ends[held[r]]
        BY <1>2, <3>1
      <3> QED BY <1>3, <1>4, <2>1, <3>1, <3>2, SettledFacts, Bounds
    <2>2. CASE ~Holds(r)
      BY <2>2, SettledFacts, Bounds DEF Steady
    <2> QED BY <2>1, <2>2
  <1>6. Places' = [r \in Requests |-> IF Places[r] = t THEN n ELSE Places[r]]
    BY <1>5 DEF Places
  <1>7. {x \in Tokens : Present(x)}' = ({x \in Tokens : Present(x)} \ {t}) \cup {n}
        /\ t \in {x \in Tokens : Present(x)} /\ n \notin {x \in Tokens : Present(x)}
    BY <1>3, <1>4 DEF Present
  <1>8. Slots!Rename(t, n)
    BY <1>6, <1>7, SettledFacts DEF Slots!Rename
  <1> QED BY <1>8, SettledFacts DEF SlotStep, Slots!Next

\* A slot is given back, if the account is still there.
LEMMA GiveStep ==
    ASSUME Settled, NEW r \in Requests, Holds(r), ~Holds(r)', UNCHANGED <<status, aliases>>,
           \A q \in Requests : q # r => (Holds(q)' <=> Holds(q)) /\ held'[q] = held[q]
    PROVE  SlotStep
  <1>1. Ends' = Ends
    BY SameEnds DEF Settled
  <1>2. Places'[r] = NoToken /\ \A q \in Requests : q # r => Places'[q] = Places[q]
    BY <1>1, SettledFacts
  <1>3. \A x \in Tokens : Present(x)' <=> Present(x)
    BY DEF Present
  <1>4. CASE Places[r] = NoToken
    BY <1>2, <1>3, <1>4, KeepStep
  <1>5. CASE Places[r] # NoToken
    <2>1. Places' = [Places EXCEPT ![r] = NoToken]
      BY <1>2 DEF Places
    <2>2. {x \in Tokens : Present(x)}' = {x \in Tokens : Present(x)}
      BY <1>3
    <2>3. Slots!Give(r)
      BY <1>5, <2>1, <2>2, SettledFacts DEF Slots!Give
    <2> QED BY <2>3, SettledFacts DEF SlotStep, Slots!Next
  <1> QED BY <1>4, <1>5

LEMMA SameCount ==
    ASSUME NEW S
    PROVE  Slots!Cardinality(S) = Cardinality(S)
  BY Zenon DEF Slots!Cardinality, Cardinality

\* A slot is acquired of an account that has one left.
LEMMA TakeStep ==
    ASSUME Settled, NEW r \in Requests, Acquire(r)
    PROVE  SlotStep
  <1>1. /\ Inv /\ PoolTypes /\ RequestTypes /\ Follows /\ AskedBy(r)
        /\ \A q \in Requests : Holds(q) => held[q] \in seen
    BY PoolFacts, SettledFacts DEF Inv, Asked
  <1>2. PICK t \in Available(attempted[r]) : held' = [held EXCEPT ![r] = t]
    BY DEF Acquire
  <1>3. /\ t \in Tokens /\ status[t] = "normal" /\ inflight[t] < MaxConcurrency
        /\ pc[r] = "wait" /\ Goto(r, "verify")
        /\ UNCHANGED <<status, aliases, retrying>>
    BY <1>2 DEF Acquire, Available, Ready
  <1>4. /\ pc'[r] = "verify" /\ \A q \in Requests : q # r => pc'[q] = pc[q]
        /\ held'[r] = t /\ \A q \in Requests : q # r => held'[q] = held[q]
    BY <1>1, <1>2, <1>3, GoesTo DEF Labels, RequestTypes
  <1>5. ~Holds(r) /\ Holds(r)' /\ \A q \in Requests : q # r => (Holds(q)' <=> Holds(q))
    BY <1>1, <1>3, <1>4 DEF Holds, AskedBy
  <1>6. Ends' = Ends /\ Ends[t] = t
    BY <1>1, <1>3, SameEnds DEF Follows, Stops, Present
  <1>7. Places[r] = NoToken /\ Places'[r] = t /\ \A q \in Requests : q # r => Places'[q] = Places[q]
    BY <1>3, <1>4, <1>5, <1>6, SettledFacts
  <1>8. Places' = [Places EXCEPT ![r] = t]
    BY <1>7 DEF Places
  <1>9. {q \in Requests : Places[q] = t} = Users[t]
    <2>1. \A q \in Requests : Places[q] = t <=> Holds(q) /\ Ends[held[q]] = t
      BY <1>3, SettledFacts, Bounds
    <2>2. Users[t] = {q \in Requests : Holds(q) /\ Ends[held[q]] = t}
      BY <1>3 DEF Users
    <2> QED BY <2>1, <2>2
  <1>10. Cardinality(Users[t]) < MaxConcurrency
    BY <1>3, SettledFacts DEF Counted
  <1>11. {x \in Tokens : Present(x)}' = {x \in Tokens : Present(x)} /\ t \in {x \in Tokens : Present(x)}
    BY <1>3 DEF Present
  <1>12. Slot[r] = NoToken /\ Slot' = [Slot EXCEPT ![r] = t] /\ {q \in Requests : Slot[q] = t} = Users[t]
    BY <1>7, <1>8, <1>9, SettledFacts
  <1>13. Cardinality({q \in Requests : Slot[q] = t}) < MaxConcurrency
    BY <1>10, <1>12
  <1>14. Slots!Take(r)
    <2>1. \E a \in {x \in Tokens : Present(x)} :
            /\ Slots!Cardinality({d \in Requests : Slot[d] = a}) < MaxConcurrency
            /\ Slot' = [Slot EXCEPT ![r] = a]
      BY <1>11, <1>12, <1>13, SameCount, Zenon
    <2> QED BY <1>11, <1>12, <2>1, Zenon DEF Slots!Take
  <1> QED BY <1>14, SettledFacts DEF SlotStep, Slots!Next

\* An import that is no mishap opens an account nobody has a slot of.
LEMMA OpenStep ==
    ASSUME Settled, NEW t \in Tokens, AddAccounts(t)
    PROVE  SlotStep
  <1>1. /\ Inv /\ PoolTypes /\ \A x \in Tokens : Ends'[x] = Ends[x]
        /\ \A r \in Requests : Holds(r) => held[r] \in Tokens /\ Ends[held[r]] # t
    BY PoolFacts, SettledFacts, AddLeads DEF Settled
  <1>2. /\ status[t] = "absent" /\ status' = [status EXCEPT ![t] = "normal"]
        /\ UNCHANGED <<pc, held, retrying>>
    BY DEF AddAccounts, Present, request
  <1>3. status'[t] = "normal" /\ \A x \in Tokens : x # t => status'[x] = status[x]
    BY <1>1, <1>2 DEF PoolTypes
  <1>4. ASSUME NEW r \in Requests PROVE Places'[r] = Places[r]
    <2>1. Holds(r)' <=> Holds(r)
      BY <1>2 DEF Holds
    <2>2. Holds(r) => Ends'[held'[r]] = Ends[held[r]] /\ Ends[held[r]] \in Tokens /\ Ends[held[r]] # t
      BY <1>1, <1>2, SettledFacts DEF Follows
    <2> QED BY <1>3, <2>1, <2>2, SettledFacts
  <1>5. Places' = Places
    BY <1>4 DEF Places
  <1>6. {x \in Tokens : Present(x)}' = {x \in Tokens : Present(x)} \cup {t}
        /\ t \notin {x \in Tokens : Present(x)}
    BY <1>2, <1>3 DEF Present
  <1>7. Slots!Open(t)
    BY <1>5, <1>6, SettledFacts DEF Slots!Open
  <1> QED BY <1>7, SettledFacts DEF SlotStep, Slots!Next

\* A request goes on with the account's present token: its slot is where it was.
LEMMA PassStep ==
    ASSUME Settled, NEW r \in Requests, PreflightPasses(r)
    PROVE  SlotStep
  <1> DEFINE z == Ends[using[r]]
  <1>1. /\ Inv /\ PoolTypes /\ RequestTypes /\ Follows /\ Replaced /\ NamesPaired
        /\ \A x \in seen : x \in Tokens
        /\ pc[r] = "verify" => using[r] \in seen /\ held[r] \in seen
    BY PoolFacts, SettledFacts
  <1>2. /\ pc[r] = "verify" /\ Goto(r, "generate") /\ Update(using[r], "normal")
        /\ held' = [held EXCEPT ![r] = Told(using[r], "normal")]
        /\ UNCHANGED retrying
    BY DEF PreflightPasses
  <1>3. using[r] \in Tokens /\ held[r] \in Tokens /\ z \in Tokens /\ Resolve(using[r]) = z /\ Ends[z] = z
    BY <1>1, <1>2 DEF Ends, Follows
  <1>4. Ends[Told(using[r], "normal")] = z
    BY <1>3 DEF Told
  <1> HIDE DEF z
  <1>5. /\ status' \in [Tokens -> {"absent", "normal", "limited", "bad"}]
        /\ \A x \in Tokens : status'[x] # "absent" <=> status[x] # "absent"
        /\ UNCHANGED <<aliases, inflight, seen>>
    BY <1>1, <1>2, <1>3 DEF Update, Present, PoolTypes
  <1>6. Ends' = Ends
    BY <1>1, <1>5, StatusMoves
  <1>7. /\ pc'[r] = "generate" /\ \A q \in Requests : q # r => pc'[q] = pc[q]
        /\ held'[r] = Told(using[r], "normal") /\ \A q \in Requests : q # r => held'[q] = held[q]
    BY <1>1, <1>2, GoesTo DEF Labels, RequestTypes
  <1>8. Holds(r) /\ Holds(r)' /\ \A q \in Requests : q # r => (Holds(q)' <=> Holds(q))
    BY <1>2, <1>7 DEF Holds
  <1>9. Paired(using[r], held[r])
    BY <1>1, <1>2 DEF NamesPaired
  <1>10. Ends[held[r]] = z \/ (status[Ends[held[r]]] = "absent" /\ status[z] = "absent")
    BY <1>9 DEF Paired, z
  <1>11. Places'[r] = Places[r]
    BY <1>3, <1>4, <1>5, <1>6, <1>7, <1>8, <1>10, SettledFacts
  <1>12. ASSUME NEW q \in Requests, q # r PROVE Places'[q] = Places[q]
    <2>1. Holds(q) => Ends[held[q]] \in Tokens /\ Ends'[held'[q]] = Ends[held[q]]
      BY <1>6, <1>7, <1>12, PoolFacts, SettledFacts
    <2> QED BY <1>5, <1>8, <1>12, <2>1, SettledFacts
  <1> QED BY <1>5, <1>11, <1>12, KeepStep DEF Present

\* The pool stays as it is and requests hold what they held.
LEMMA StillStep ==
    ASSUME Settled, Steady, UNCHANGED pool
    PROVE  SlotStep
  <1>1. UNCHANGED <<status, aliases>>
    BY DEF pool
  <1>2. Ends' = Ends
    BY <1>1, SameEnds DEF Settled
  <1>3. ASSUME NEW r \in Requests PROVE Places'[r] = Places[r]
    BY <1>1, <1>2, SettledFacts DEF Steady
  <1> QED BY <1>1, <1>3, KeepStep DEF Present

\* A request that goes somewhere else with what it held.
LEMMA KeepsHold ==
    ASSUME Settled, NEW r \in Requests, NEW label \in Labels, Goto(r, label),
           Holds(r)' <=> Holds(r), Holds(r) => held'[r] = held[r],
           \A q \in Requests : q # r => held'[q] = held[q] /\ (q \in retrying' <=> q \in retrying)
    PROVE  Steady
  <1>1. RequestTypes
    BY PoolFacts DEF Settled
  <1>2. \A q \in Requests : q # r => pc'[q] = pc[q]
    BY <1>1, GoesTo
  <1> QED BY <1>2 DEF Steady, Holds

\* The steps of a request that keep its slot.
LEMMA QuietStep ==
    ASSUME Settled, NEW r \in Requests,
           Top(r) \/ CancelAtTop(r) \/ NoCandidate(r) \/ FallbackRetry(r)
    PROVE  SlotStep
  <1>1. RequestTypes /\ AskedBy(r) /\ mishaps' = {}
    BY PoolFacts DEF Inv, Asked, Settled
  <1>2. UNCHANGED pool
    BY DEF Top, CancelAtTop, NoCandidate, FallbackRetry
  <1>3. CASE Top(r)
    <2>1. /\ pc[r] = "top" /\ Goto(r, IF r \in retrying THEN "generate" ELSE "wait")
          /\ retrying' = retrying \ {r} /\ held' = held
      BY <1>3 DEF Top
    <2>2. pc'[r] = IF r \in retrying THEN "generate" ELSE "wait"
      BY <1>1, <2>1, GoesTo DEF Labels
    <2>3. Holds(r)' <=> Holds(r)
      BY <2>1, <2>2 DEF Holds
    <2>4. Steady
      BY <2>1, <2>3, KeepsHold DEF Labels
    <2> QED BY <1>2, <2>4, StillStep
  <1>4. CASE CancelAtTop(r)
    <2>1. /\ pc[r] = "top" /\ Goto(r, "done") /\ r \notin retrying
          /\ retrying' = retrying \ {r} /\ held' = [held EXCEPT ![r] = NoToken]
      BY <1>1, <1>4 DEF CancelAtTop
    <2>2. pc'[r] = "done" /\ \A q \in Requests : q # r => held'[q] = held[q]
      BY <1>1, <2>1, GoesTo DEF Labels, RequestTypes
    <2>3. ~Holds(r)' /\ ~Holds(r)
      BY <2>1, <2>2 DEF Holds
    <2>4. Steady
      BY <2>1, <2>2, <2>3, KeepsHold DEF Labels
    <2> QED BY <1>2, <2>4, StillStep
  <1>5. CASE NoCandidate(r)
    <2>1. pc[r] = "wait" /\ Goto(r, "done") /\ UNCHANGED <<held, retrying>>
      BY <1>5 DEF NoCandidate
    <2>2. pc'[r] = "done"
      BY <1>1, <2>1, GoesTo DEF Labels
    <2>3. ~Holds(r)' /\ ~Holds(r)
      BY <1>1, <2>1, <2>2 DEF Holds, AskedBy
    <2>4. Steady
      BY <2>1, <2>3, KeepsHold DEF Labels
    <2> QED BY <1>2, <2>4, StillStep
  <1>6. CASE FallbackRetry(r)
    <2>1. pc[r] = "generate" /\ Goto(r, "top") /\ retrying' = retrying \cup {r} /\ held' = held
      BY <1>6 DEF FallbackRetry
    <2>2. Holds(r)' /\ Holds(r)
      BY <2>1 DEF Holds
    <2>3. Steady
      BY <2>1, <2>2, KeepsHold DEF Labels
    <2> QED BY <1>2, <2>3, StillStep
  <1> QED BY <1>3, <1>4, <1>5, <1>6

\* A failed preflight: the slot is kept until it is dropped, or lost with the
\* account.
LEMMA FailStep ==
    ASSUME Settled, NEW r \in Requests, PreflightFails(r)
    PROVE  SlotStep
  <1>1. RequestTypes /\ (\A x \in seen : x \in Tokens) /\ (pc[r] = "verify" => using[r] \in seen)
    BY PoolFacts DEF Settled
  <1>2. pc[r] = "verify" /\ Goto(r, "drop") /\ UNCHANGED <<held, retrying>>
    BY DEF PreflightFails
  <1>3. pc'[r] = "drop"
    BY <1>1, <1>2, GoesTo DEF Labels
  <1>4. Holds(r)' /\ Holds(r)
    BY <1>2, <1>3 DEF Holds
  <1>5. Steady
    BY <1>2, <1>4, KeepsHold DEF Labels
  <1>6. Update(using[r], "limited") \/ HandleInvalid(using[r]) \/ UNCHANGED pool
    BY DEF PreflightFails
  <1> QED BY <1>1, <1>2, <1>5, <1>6, UpdateStep

\* A result is booked: an account is not limited any more, or refused, or has
\* another token; the slot was given back before.
LEMMA BookStep ==
    ASSUME Settled, NEW r \in Requests, Mark(r) \/ Blame(r)
    PROVE  SlotStep
  <1>1. /\ PoolTypes /\ RequestTypes /\ Follows /\ AskedBy(r) /\ Inv /\ Replaced
        /\ \A x \in seen : x \in Tokens /\ Ends[x] \in seen
    BY PoolFacts, SettledFacts DEF Inv, Asked
  <1>2. /\ pc[r] \in {"mark", "blame"} /\ held' = [held EXCEPT ![r] = NoToken] /\ UNCHANGED retrying
        /\ \E label \in {"done", "top"} : Goto(r, label)
    BY DEF Mark, Blame
  <1>3. PICK label \in {"done", "top"} : Goto(r, label)
    BY <1>2
  <1>4. held[r] \in Tokens /\ Resolve(held[r]) \in Tokens
    <2>1. held[r] \in seen
      BY <1>1, <1>2 DEF AskedBy
    <2>2. Resolve(held[r]) = Ends[held[r]]
      BY <1>1, <2>1 DEF Ends
    <2> QED BY <1>1, <2>1, <2>2
  <1>5. pc'[r] = label /\ \A q \in Requests : q # r => held'[q] = held[q]
    BY <1>1, <1>2, <1>3, GoesTo DEF Labels, RequestTypes
  <1>6. ~Holds(r)' /\ ~Holds(r)
    BY <1>1, <1>2, <1>5 DEF Holds, AskedBy
  <1>7. Steady
    BY <1>2, <1>3, <1>5, <1>6, KeepsHold DEF Labels
  <1>8. CASE Mark(r)
    <2>1. /\ status' \in [Tokens -> {"absent", "normal", "limited", "bad"}]
          /\ \A x \in Tokens : status'[x] # "absent" <=> status[x] # "absent"
          /\ UNCHANGED <<aliases, inflight, seen>>
      BY <1>1, <1>4, <1>8 DEF Mark, PoolTypes
    <2>2. Ends' = Ends
      BY <1>1, <2>1, StatusMoves
    <2> QED BY <1>4, <1>7, <2>1, <2>2, FadeStep DEF Present
  <1>9. CASE Blame(r)
    <2>1. CASE HandleInvalid(held[r])
      BY <1>4, <1>7, <2>1, UpdateStep
    <2>2. CASE Present(Resolve(held[r])) /\ \E n \in Tokens \ seen : Rotated(Resolve(held[r]), n)
      <3>1. PICK t \in Tokens : t = Resolve(held[r])
        BY <1>4
      <3>2. PICK n \in Tokens \ seen : Rotated(t, n)
        BY <2>2, <3>1
      <3> QED BY <1>7, <2>2, <3>1, <3>2, RenameStep
    <2>3. CASE UNCHANGED pool
      BY <1>7, <2>3, StillStep
    <2> QED BY <1>9, <2>1, <2>2, <2>3 DEF Blame
  <1> QED BY <1>8, <1>9

\* The slot is released, at the end of an image or of a failed attempt.
LEMMA ReleaseStep ==
    ASSUME Settled, NEW r \in Requests, Drop(r) \/ Finish(r)
    PROVE  SlotStep
  <1>1. RequestTypes /\ AskedBy(r)
    BY PoolFacts DEF Inv, Asked, Settled
  <1>2. /\ pc[r] \in {"drop", "generate"} /\ UNCHANGED <<status, aliases, retrying>>
        /\ \E label \in {"wait", "mark", "blame", "done"} : Goto(r, label)
        /\ held' = [held EXCEPT ![r] = NoToken] \/ held' = held
    BY DEF Drop, Finish
  <1>3. PICK label \in {"wait", "mark", "blame", "done"} : Goto(r, label)
    BY <1>2
  <1>4. pc'[r] = label /\ \A q \in Requests : q # r => pc'[q] = pc[q] /\ held'[q] = held[q]
    BY <1>1, <1>2, <1>3, GoesTo DEF Labels, RequestTypes
  <1>5. Holds(r) /\ ~Holds(r)' /\ \A q \in Requests : q # r => (Holds(q)' <=> Holds(q))
    BY <1>1, <1>2, <1>4 DEF Holds, AskedBy
  <1> QED BY <1>2, <1>4, <1>5, GiveStep

LEMMA EnvironmentStep ==
    ASSUME Settled, Environment
    PROVE  SlotStep
  <1>1. UNCHANGED <<pc, held, retrying>> => Steady
    BY DEF Steady, Holds
  <1>2. ASSUME NEW t \in Tokens, NEW n \in Tokens, Rotate(t, n) PROVE SlotStep
    BY <1>1, <1>2, RenameStep DEF Rotate, request
  <1>3. ASSUME NEW t \in Tokens, DeleteAccounts(t) PROVE SlotStep
    BY <1>1, <1>3, UpdateStep DEF DeleteAccounts, request
  <1>4. ASSUME NEW t \in Tokens, NEW s \in {"normal", "limited", "bad"}, UpdateAccount(t, s) PROVE SlotStep
    BY <1>1, <1>4, UpdateStep DEF UpdateAccount, request
  <1>5. ASSUME NEW t \in Tokens, WatcherInvalid(t) PROVE SlotStep
    BY <1>1, <1>5, UpdateStep DEF WatcherInvalid, request
  <1>6. ASSUME NEW t \in Tokens, AddAccounts(t) PROVE SlotStep
    BY <1>6, OpenStep
  <1> QED BY <1>2, <1>3, <1>4, <1>5, <1>6 DEF Environment

\* The preflight's rotation.
LEMMA PreflightStep ==
    ASSUME Settled, NEW r \in Requests, NEW n \in Tokens, PreflightRotates(r, n)
    PROVE  SlotStep
  <1>1. /\ \A x \in seen : x \in Tokens /\ Ends[x] \in seen
        /\ pc[r] = "verify" => using[r] \in seen
    BY PoolFacts DEF Settled
  <1>2. /\ pc[r] = "verify" /\ n \in Tokens \ seen /\ UNCHANGED <<pc, held, retrying>>
        /\ Present(Resolve(using[r])) /\ Rotated(Resolve(using[r]), n)
    BY DEF PreflightRotates
  <1>3. PICK t \in Tokens : t = Resolve(using[r])
    BY <1>1, <1>2 DEF Ends
  <1>4. Steady
    BY <1>2 DEF Steady, Holds
  <1> QED BY <1>2, <1>3, <1>4, RenameStep

\* No mishap is forgotten.
LEMMA MishapsKept ==
    ASSUME [Next]_vars, mishaps' = {}
    PROVE  mishaps = {}
  <1>1. CASE Environment
    BY <1>1 DEF Environment, Rotate, DeleteAccounts, UpdateAccount, WatcherInvalid, AddAccounts
  <1>2. ASSUME NEW r \in Requests, Step(r) PROVE mishaps = {}
    BY <1>2 DEF Step, Top, Acquire, NoCandidate, PreflightPasses, PreflightFails, Drop, Finish, Mark, Blame
  <1>3. ASSUME NEW r \in Requests, CancelAtTop(r) \/ FallbackRetry(r) PROVE mishaps = {}
    BY <1>3 DEF CancelAtTop, FallbackRetry
  <1>4. ASSUME NEW r \in Requests, NEW n \in Tokens, PreflightRotates(r, n) PROVE mishaps = {}
    BY <1>4 DEF PreflightRotates
  <1>5. CASE UNCHANGED vars
    BY <1>5 DEF vars
  <1>6. ASSUME NEW r \in Requests, PreflightResolves(r) PROVE mishaps = {}
    BY <1>6 DEF PreflightResolves
  <1> QED BY <1>1, <1>2, <1>3, <1>4, <1>5, <1>6 DEF Next, Done

LEMMA StepSlots ==
    ASSUME Inv, Inv', [Next]_vars
    PROVE  SlotStep
  <1>1. CASE mishaps' # {}
    BY <1>1 DEF SlotStep, Slots!Next
  <1>2. CASE mishaps' = {}
    <2>1. Settled
      BY <1>2, MishapsKept DEF Settled
    <2>2. CASE Environment
      BY <2>1, <2>2, EnvironmentStep
    <2>3. ASSUME NEW r \in Requests, Step(r) PROVE SlotStep
      BY <2>1, <2>3, QuietStep, TakeStep, PassStep, FailStep, ReleaseStep, BookStep DEF Step
    <2>4. ASSUME NEW r \in Requests, CancelAtTop(r) \/ FallbackRetry(r) PROVE SlotStep
      BY <2>1, <2>4, QuietStep
    <2>5. ASSUME NEW r \in Requests, NEW n \in Tokens, PreflightRotates(r, n) PROVE SlotStep
      BY <2>1, <2>5, PreflightStep
    <2>7. ASSUME NEW r \in Requests, PreflightResolves(r) PROVE SlotStep
      <3>1. UNCHANGED <<pc, held, retrying>> /\ UNCHANGED pool
        BY <2>7 DEF PreflightResolves
      <3>2. Steady
        BY <3>1 DEF Steady, Holds
      <3> QED BY <2>1, <3>1, <3>2, StillStep
    <2>6. CASE UNCHANGED vars
      <3>1. UNCHANGED pool /\ UNCHANGED request
        BY <2>6 DEF vars
      <3>2. Steady
        BY <3>1 DEF request, Steady, Holds
      <3> QED BY <2>1, <3>1, <3>2, StillStep
    <2> QED BY <2>2, <2>3, <2>4, <2>5, <2>6, <2>7 DEF Next, Done
  <1> QED BY <1>1, <1>2

\* For any number of accounts, requests and rotations the pool is one of slots,
\* as long as no slot of a retry is cancelled and no token that leads somewhere
\* is imported: a request has a slot from the moment it acquires one to the
\* moment it gives it back or the account goes, of the same account whatever
\* its token is called, and no step of another request takes it away.
THEOREM PoolImplemented == Spec => PoolSpec
  <1>1. Init => Slots!Init
    <2> SUFFICES ASSUME Init PROVE Slots!Init
      OBVIOUS
    <2>1. Slot = [r \in Requests |-> NoToken] /\ mishaps = {}
      BY DEF Init, Slot, Holds
    <2> QED BY <2>1 DEF Slots!Init
  <1>2. Inv /\ Inv' /\ [Next]_vars => [Slots!Next]_(Slots!vars)
    BY StepSlots DEF SlotStep
  <1> QED BY <1>1, <1>2, InvHolds, PTL DEF Spec, PoolSpec, Slots!Spec

-----------------------------------------------------------------------------
(* SurvivalLease *)

LEMMA InitLease == LeaseInit => LeaseInv
  <1> SUFFICES ASSUME LeaseInit PROVE LeaseInv
    OBVIOUS
  <1>1. LeaseTypeOK
    BY LeaseAssumption DEF LeaseInit, LeaseTypeOK
  <1>2. PunctualHolds /\ RunsUp
    BY DEF LeaseInit, PunctualHolds, Punctual, InRun, RunsUp
  <1> QED BY <1>1, <1>2 DEF LeaseInv

\* A claim succeeds only where no run is punctual: a punctual run's row is there
\* and has not lapsed.
LEMMA FreeAlone ==
    ASSUME LeaseTypeOK, PunctualHolds, Free, NEW w \in Workers
    PROVE  ~Punctual(w)
  BY LeaseAssumption DEF LeaseTypeOK, PunctualHolds, Free, Punctual

LEMMA StepType ==
    ASSUME LeaseTypeOK, [LeaseNext]_leaseVars
    PROVE  LeaseTypeOK'
  <1>1. CASE Tick
    BY <1>1, LeaseAssumption DEF Tick, LeaseTypeOK, process
  <1>2. ASSUME NEW w \in Workers, Start(w) \/ Crash(w) PROVE LeaseTypeOK'
    BY <1>2, LeaseAssumption DEF Start, Crash, Fault, RunGoes, LeaseTypeOK, lease
  <1>3. ASSUME NEW w \in Workers, NEW value \in BOOLEAN, UpdateConfig(w, value) PROVE LeaseTypeOK'
    BY <1>3 DEF UpdateConfig, LeaseTypeOK, lease
  <1>4. ASSUME NEW w \in Workers, RunNow(w) \/ Summarise(w) PROVE LeaseTypeOK'
    BY <1>4 DEF RunNow, Summarise, RunGoes, LeaseTypeOK, lease, process
  <1>5. ASSUME NEW w \in Workers, Claim(w) PROVE LeaseTypeOK'
    <2>1. CASE Free
      BY <1>5, <2>1, LeaseAssumption DEF Claim, RunGoes, LeaseTypeOK, process
    <2>2. CASE ~Free
      BY <1>5, <2>2 DEF Claim, RunGoes, LeaseTypeOK, lease, process
    <2> QED BY <2>1, <2>2
  <1>6. ASSUME NEW w \in Workers, ProbeEnds(w) PROVE LeaseTypeOK'
    <2>1. todo' \in [Workers -> 0..MaxProbes]
      BY <1>6, LeaseAssumption DEF ProbeEnds, LeaseTypeOK
    <2>2. /\ owner' \in Workers \cup {NoOwner, Former}
          /\ left' \in 0..TTL
          /\ silent' \in [Workers -> 0..TTL]
      BY <1>6, LeaseAssumption DEF ProbeEnds, Renew, LeaseTypeOK, lease
    <2> QED BY <1>6, <2>1, <2>2 DEF ProbeEnds, LeaseTypeOK, process
  <1>7. ASSUME NEW w \in Workers, RunEnds(w) PROVE LeaseTypeOK'
    BY <1>7, LeaseAssumption DEF RunEnds, Release, RunGoes, LeaseTypeOK, lease, process
  <1>8. ASSUME NEW w \in Workers, Raises(w) PROVE LeaseTypeOK'
    BY <1>8, LeaseAssumption DEF Raises, Fault, RunGoes, LeaseTypeOK, lease, process
  <1>9. CASE UNCHANGED leaseVars
    BY <1>9 DEF leaseVars, lease, process, LeaseTypeOK
  <1> QED BY <1>1, <1>2, <1>3, <1>4, <1>5, <1>6, <1>7, <1>8, <1>9 DEF LeaseNext, RunStep

LEMMA StepHolds ==
    ASSUME LeaseTypeOK, PunctualHolds, [LeaseNext]_leaseVars
    PROVE  PunctualHolds'
  <1> SUFFICES ASSUME NEW v \in Workers, Punctual(v)'
               PROVE  owner' = v /\ left' = TTL - silent'[v]
    BY DEF PunctualHolds
  <1> DEFINE Kept == Punctual(v) /\ silent'[v] = silent[v] /\ UNCHANGED lease
  <1>0. Kept => owner' = v /\ left' = TTL - silent'[v]
    BY DEF PunctualHolds, lease
  <1>1. CASE Tick
    <2>1. Punctual(v) /\ silent'[v] = silent[v] + 1
      <3>1. silent[v] \in 0..TTL /\ TTL \in Nat
        BY LeaseAssumption DEF LeaseTypeOK
      <3>2. silent'[v] = IF silent[v] < TTL THEN silent[v] + 1 ELSE TTL
        BY <1>1 DEF Tick
      <3>3. runner' = runner /\ silent'[v] < TTL
        BY <1>1 DEF Tick, Punctual
      <3> QED BY <3>1, <3>2, <3>3 DEF Punctual, InRun
    <2> QED BY <1>1, <2>1, LeaseAssumption DEF Tick, PunctualHolds, Punctual, LeaseTypeOK
  <1>2. ASSUME NEW w \in Workers, Start(w) PROVE Kept
    BY <1>2 DEF Start, Punctual, InRun, lease
  <1>3. ASSUME NEW w \in Workers, Crash(w) PROVE owner' = v /\ left' = TTL - silent'[v]
    <2>1. v # w /\ Punctual(v)
      BY <1>3 DEF Crash, RunGoes, Punctual, InRun, LeaseTypeOK
    <2> QED BY <1>3, <2>1 DEF Crash, PunctualHolds
  <1>4. ASSUME NEW w \in Workers, NEW value \in BOOLEAN, UpdateConfig(w, value) PROVE Kept
    BY <1>4 DEF UpdateConfig, Punctual, InRun
  <1>5. ASSUME NEW w \in Workers, RunNow(w) \/ Summarise(w) \/ Raises(w) PROVE Kept
    BY <1>5 DEF RunNow, Summarise, Raises, RunGoes, Punctual, InRun, LeaseTypeOK
  <1>6. ASSUME NEW w \in Workers, Claim(w) PROVE owner' = v /\ left' = TTL - silent'[v]
    <2>1. CASE Free
      <3>1. v = w
        BY <1>6, <2>1, FreeAlone DEF Claim, RunGoes, Punctual, InRun, LeaseTypeOK
      <3> QED BY <1>6, <2>1, <3>1, LeaseAssumption DEF Claim, LeaseTypeOK
    <2>2. CASE ~Free
      BY <1>0, <1>6, <2>2 DEF Claim, RunGoes, Punctual, InRun, LeaseTypeOK
    <2> QED BY <2>1, <2>2
  <1>7. ASSUME NEW w \in Workers, ProbeEnds(w) PROVE owner' = v /\ left' = TTL - silent'[v]
    <2>1. CASE owner = w
      <3>1. v = w
        BY <1>7, <2>1 DEF ProbeEnds, Renew, Punctual, InRun, PunctualHolds, LeaseTypeOK
      <3> QED BY <1>7, <2>1, <3>1, LeaseAssumption DEF ProbeEnds, Renew, LeaseTypeOK
    <2>2. CASE owner # w
      BY <1>0, <1>7, <2>2 DEF ProbeEnds, Renew, Punctual, InRun
    <2> QED BY <2>1, <2>2
  <1>8. ASSUME NEW w \in Workers, RunEnds(w) PROVE Kept
    <2>1. v # w /\ Punctual(v) /\ silent'[v] = silent[v]
      BY <1>8 DEF RunEnds, RunGoes, Punctual, InRun, LeaseTypeOK
    <2>2. owner # w
      BY <2>1 DEF PunctualHolds
    <2> QED BY <1>8, <2>1, <2>2 DEF RunEnds, Release
  <1>9. CASE UNCHANGED leaseVars
    BY <1>0, <1>9 DEF leaseVars, Punctual, InRun
  <1> QED BY <1>0, <1>1, <1>2, <1>3, <1>4, <1>5, <1>6, <1>7, <1>8, <1>9 DEF LeaseNext, RunStep

LEMMA StepUp ==
    ASSUME LeaseTypeOK, RunsUp, [LeaseNext]_leaseVars
    PROVE  RunsUp'
  <1> SUFFICES ASSUME NEW v \in Workers, runner'[v] # "none" PROVE v \in up'
    BY DEF RunsUp
  <1>1. CASE Tick \/ UNCHANGED leaseVars
    BY <1>1 DEF Tick, leaseVars, process, RunsUp
  <1>2. ASSUME NEW w \in Workers, Start(w) \/ Crash(w) PROVE v \in up'
    BY <1>2 DEF Start, Crash, RunGoes, LeaseTypeOK, RunsUp
  <1>3. ASSUME NEW w \in Workers, NEW value \in BOOLEAN, UpdateConfig(w, value) PROVE v \in up'
    BY <1>3 DEF UpdateConfig, RunsUp
  <1>4. ASSUME NEW w \in Workers, RunNow(w) \/ RunStep(w) \/ Raises(w) PROVE v \in up'
    BY <1>4 DEF RunNow, RunStep, Claim, ProbeEnds, Summarise, RunEnds, Raises, RunGoes, process,
                LeaseTypeOK, RunsUp
  <1> QED BY <1>1, <1>2, <1>3, <1>4 DEF LeaseNext

\* Every run that has not been silent for a whole lease has the lease, for as
\* long as it may stay silent, through claims, crashes, restarts and statements
\* that raise in the other processes.
THEOREM LeaseInvariant == LeaseSpec => []LeaseInv
  <1>1. LeaseInv /\ [LeaseNext]_leaseVars => LeaseInv'
    BY StepType, StepHolds, StepUp DEF LeaseInv
  <1> QED BY InitLease, <1>1, PTL DEF LeaseSpec

\* No two runs poll at the same time unless one of them has been silent for the
\* whole length of its lease.
THEOREM PunctualSafe == LeaseSpec => []PunctualAlone
  <1>1. LeaseInv => PunctualAlone
    BY DEF LeaseInv, PunctualHolds, PunctualAlone
  <1> QED BY <1>1, LeaseInvariant, PTL

\* A lease that has not lapsed is given up by its own run or left behind by its
\* process, and never taken.
THEOREM LeaseSafe == LeaseSpec => LeaseKept
  <1>1. ASSUME LeaseInv, [LeaseNext]_leaseVars,
               NEW v \in Workers, owner = v, left > 0, owner' # v
        PROVE  runner[v] = "release" \/ v \notin up'
    <2>1. CASE Tick \/ UNCHANGED leaseVars
      BY <1>1, <2>1 DEF Tick, leaseVars, lease
    <2>2. ASSUME NEW w \in Workers, Start(w) \/ RunNow(w) \/ Summarise(w) \/ Raises(w) PROVE FALSE
      BY <1>1, <2>2 DEF Start, RunNow, Summarise, Raises, lease
    <2>3. ASSUME NEW w \in Workers, Crash(w) PROVE v \notin up'
      BY <1>1, <2>3 DEF Crash
    <2>4. ASSUME NEW w \in Workers, NEW value \in BOOLEAN, UpdateConfig(w, value) PROVE FALSE
      BY <1>1, <2>4 DEF UpdateConfig, lease
    <2>5. ASSUME NEW w \in Workers, Claim(w) PROVE FALSE
      BY <1>1, <2>5, LeaseAssumption DEF Claim, Free, lease
    <2>6. ASSUME NEW w \in Workers, ProbeEnds(w) PROVE FALSE
      BY <1>1, <2>6 DEF ProbeEnds, Renew, lease
    <2>7. ASSUME NEW w \in Workers, RunEnds(w) PROVE runner[v] = "release"
      BY <1>1, <2>7 DEF RunEnds, Release, lease
    <2> QED BY <1>1, <2>1, <2>2, <2>3, <2>4, <2>5, <2>6, <2>7 DEF LeaseNext, RunStep
  <1>2. LeaseInv /\ [LeaseNext]_leaseVars =>
          [\A w \in Workers :
              owner = w /\ left > 0 /\ owner' # w => runner[w] = "release" \/ w \notin up']_leaseVars
    BY <1>1
  <1> QED BY <1>2, LeaseInvariant, PTL DEF LeaseSpec, LeaseKept
=============================================================================
