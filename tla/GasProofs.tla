----------------------------- MODULE GasProofs -----------------------------
(***************************************************************************)
(* Proofs about module GasPreSeed, for any finite set of requests, any     *)
(* lists of targets, any gas prices and any number of faults: its types,   *)
(* that what is called confirmed was paid, that the nonces have no gap,    *)
(* that a request pays no entry of its list twice and that it never goes   *)
(* round in circles.                                                       *)
(***************************************************************************)
EXTENDS GasPreSeed, FiniteSetTheorems, TLAPS

\* The transfer of the current target was broadcast and answered; a target is in hand.
Sent == {"sent", "wait", "verdict", "record"}
Busy == Sent \cup {"create", "mark", "send", "refused", "refetch"}

\* What is sure of the locals of a request: a transfer that was sent is one to its target, a
\* verdict "confirmed" is true of the chain, and below its nonce, all are in use.
LocalOK(q) ==
    /\ loc[q].at >= 1
    /\ pc[q] \in Busy => loc[q].at <= Len(Targets[q])
    /\ pc[q] \in {"mark", "send"} => ~loc[q].tooLow
    /\ pc[q] \in Sent => loc[q].hash \in Hash /\ loc[q].hash.target = Targets[q][loc[q].at]
    /\ pc[q] = "verdict" => loc[q].verdict # "none"
    /\ pc[q] \in {"verdict", "record"} /\ loc[q].verdict = "confirmed" => Succeeded(loc[q].hash)
    /\ \A m \in Nonce : m < loc[q].nonce \/ (m = loc[q].nonce /\ pc[q] \in Sent) => Held(m)

\* A request that is past its k-th target, or about to leave it: it will not send to it again.
Past(q, k) ==
    \/ pc[q] = "done"
    \/ pc[q] \in Busy \cup {"target"} /\ k < loc[q].at
    \/ (pc[q] \in Sent \/ (pc[q] = "refused" /\ ~loc[q].tooLow)) /\ k = loc[q].at

\* A nonce in use is used for an entry that its request is past.
HeldOK == \A n \in Nonce : Held(n) => Past(slots[n].by[1], slots[n].by[2])

Inv ==
    /\ TypeOK /\ (\A q \in Requests : LocalOK(q))
    /\ HeldOK /\ NoNonceGap /\ PaidOncePerEntry /\ ConfirmedIsPaid

-----------------------------------------------------------------------------
(* Nonces *)

\* A set of naturals has a least one, found as the smallest interval 0 .. n, which is finite.
LEMMA LeastNatural ==
  ASSUME NEW S \in SUBSET Nat, S # {}
  PROVE  \E n \in S : \A m \in S : n <= m
<1>. DEFINE R == StrictSubsetOrdering(Nat)
            T == {0 .. n : n \in S}
<1>1. \A n \in S : 0 .. n \in FiniteSubsetsOf(Nat)
  <2>1. \A n \in S : IsFiniteSet(0 .. n)
    BY FS_Interval
  <2> QED  BY <2>1 DEF FiniteSubsetsOf
<1>2. IsWellFoundedOn(R, FiniteSubsetsOf(Nat))
  BY FS_StrictSubsetOrderingWellFounded
<1>3. T \subseteq FiniteSubsetsOf(Nat) /\ T # {}
  BY <1>1
<1>4. \E x \in T : \A y \in T : ~ (<<y, x>> \in R)
  <2>. HIDE DEF T, R
  <2> QED  BY <1>2, <1>3, WFMin
<1>5. PICK n \in S : \A m \in S : <<0 .. m, 0 .. n>> \notin StrictSubsetOrdering(Nat)
  BY <1>4
<1>6. ASSUME NEW m \in S, m < n
      PROVE  FALSE
  <2>. DEFINE a == 0 .. m
              b == 0 .. n
  <2>1. a \subseteq b /\ a \in SUBSET Nat /\ b \in SUBSET Nat /\ n \in b /\ n \notin a
    BY <1>6
  <2>2. <<a, b>> \in StrictSubsetOrdering(Nat)
    <3>. HIDE DEF a, b
    <3> QED  BY <2>1 DEF StrictSubsetOrdering
  <2> QED  BY <1>5, <2>2
<1> QED
  BY <1>6

\* An entry is a request and a place in its list, and there are finitely many.
LEMMA EntryFacts ==
  /\ \A q \in Requests : \A k \in 1 .. Len(Targets[q]) : <<q, k>> \in Entry
  /\ \A e \in Entry : e = <<e[1], e[2]>> /\ e[1] \in Requests /\ e[2] \in 1 .. Len(Targets[e[1]])
  /\ IsFiniteSet(Entry) /\ Cardinality(Entry) \in Nat
<1>. DEFINE List(q) == {<<q, k>> : k \in 1 .. Len(Targets[q])}
            lists == {List(q) : q \in Requests}
<1>1. Entry = UNION lists
  BY DEF Entry
<1>2. ASSUME NEW q \in Requests
      PROVE  IsFiniteSet(List(q))
  <2>. DEFINE places == 1 .. Len(Targets[q])
              f == [k \in places |-> <<q, k>>]
  <2>1. IsFiniteSet(places)
    BY FS_Interval, GasAssumption
  <2>2. f \in Surjection(places, List(q))
    BY DEF Surjection
  <2>. HIDE DEF places, f, List
  <2> QED  BY <2>1, <2>2, FS_Surjection
<1>3. IsFiniteSet(lists)
  <2>. DEFINE f == [q \in Requests |-> List(q)]
  <2>1. f \in Surjection(Requests, lists)
    <3>. HIDE DEF List
    <3> QED  BY DEF Surjection
  <2>. HIDE DEF f, lists
  <2> QED  BY <2>1, GasAssumption, FS_Surjection
<1>4. IsFiniteSet(Entry)
  <2>1. \A T \in lists : IsFiniteSet(T)
    <3>. HIDE DEF List
    <3> QED  BY <1>2
  <2>. HIDE DEF lists
  <2> QED  BY <1>1, <1>3, <2>1, FS_UNION
<1>5. \A e \in Entry : \E q \in Requests : \E k \in 1 .. Len(Targets[q]) : e = <<q, k>>
  BY DEF Entry
<1>6. \A q \in Requests : \A k \in 1 .. Len(Targets[q]) : <<q, k>> \in Entry
  BY DEF Entry
<1> QED
  BY <1>4, <1>5, <1>6, FS_CardinalityType

\* There is a nonce more than entries to send to.
LEMMA NonceFacts ==
  /\ Nonce \subseteq Nat /\ 0 \in Nonce
  /\ \A n \in Nat, m \in Nonce : n <= m => n \in Nonce
<1>. DEFINE top == Cardinality(Entry)
<1>1. top \in Nat /\ Nonce = 0 .. top
  BY EntryFacts DEF Nonce
<1>. HIDE DEF top
<1> QED
  BY <1>1

\* The nonce of a transfer, or of none.
LEMMA HashNonce == \A h \in Hash \cup {NoHash} : h.nonce \in Nonce /\ h.nonce \in Nat
<1>1. \A h \in Hash : h.nonce \in Nonce
  BY DEF Hash
<1>2. NoHash.nonce = 0
  BY DEF NoHash
<1> QED
  BY <1>1, <1>2, NonceFacts

\* The nonces are not all in use: each that is has an entry of its own.
LEMMA OneIsFree ==
  ASSUME Inv
  PROVE  \E n \in Nonce : ~Held(n)
<1>1. SUFFICES ASSUME \A n \in Nonce : Held(n)
               PROVE  FALSE
  OBVIOUS
<1>. DEFINE f == [n \in Nonce |-> slots[n].by]
            top == Cardinality(Entry)
<1>2. \A n \in Nonce : slots[n].by \in Entry
  BY <1>1 DEF Inv, TypeOK, Held, Slot
<1>3. \A n, m \in Nonce : f[n] = f[m] => n = m
  BY <1>1 DEF Inv, PaidOncePerEntry
<1>4. f \in Injection(Nonce, Entry)
  BY <1>2, <1>3 DEF Injection, IsInjective
<1>5. Cardinality(Nonce) <= top
  <2>. HIDE DEF f
  <2> QED  BY <1>4, EntryFacts, FS_Injection
<1>6. top \in Nat /\ Nonce = 0 .. top
  BY EntryFacts DEF Nonce
<1>7. Cardinality(Nonce) = top + 1
  <2>. HIDE DEF top
  <2> QED  BY <1>6, FS_Interval
<1> QED
  <2>. HIDE DEF top
  <2> QED  BY <1>5, <1>6, <1>7

\* What a node answers is the first free nonce, or a smaller one: below it all are in use.  A
\* nonce below which all are in use is no larger.
LEMMA Pending ==
  ASSUME Inv
  PROVE  /\ PendingNonce \in Nonce
         /\ \A m \in Nonce : m < PendingNonce => Held(m)
         /\ \A n \in Nat : (\A m \in Nonce : m < n => Held(m)) => n \in Nonce
         /\ LaggingNonces \subseteq Nonce
         /\ \A n \in LaggingNonces : \A m \in Nonce : m < n => Held(m)
<1>1. \E n \in Nonce : ~Held(n) /\ \A m \in Nonce : m < n => Held(m)
  <2>. DEFINE S == {n \in Nonce : ~Held(n)}
  <2>1. S \in SUBSET Nat /\ S # {}
    BY OneIsFree, NonceFacts
  <2>2. PICK n \in S : \A m \in S : n <= m
    <3>. HIDE DEF S
    <3> QED  BY <2>1, LeastNatural
  <2> QED  BY <2>2, NonceFacts
<1>2. /\ PendingNonce \in Nonce /\ ~Held(PendingNonce)
      /\ \A m \in Nonce : m < PendingNonce => Held(m)
  <2>. DEFINE First(n) == ~Held(n) /\ \A m \in Nonce : m < n => Held(m)
  <2>1. PendingNonce = CHOOSE n \in Nonce : First(n)
    BY DEF PendingNonce
  <2>2. \E n \in Nonce : First(n)
    BY <1>1
  <2>. HIDE DEF First
  <2>3. PendingNonce \in Nonce /\ First(PendingNonce)
    BY <2>1, <2>2
  <2> QED  BY <2>3 DEF First
<1>3. \A n \in Nat : (\A m \in Nonce : m < n => Held(m)) => n \in Nonce
  BY <1>2, NonceFacts
<1>4. \A n \in LaggingNonces : n \in Nonce /\ n <= PendingNonce
  <2>1. mined \in Nat
    BY DEF Inv, TypeOK
  <2>2. PendingNonce \in Nat
    BY <1>2, NonceFacts
  <2>3. \A n \in LaggingNonces : n \in Nat /\ n <= PendingNonce
    BY <2>1, <2>2 DEF LaggingNonces
  <2> QED  BY <1>2, <2>3, NonceFacts
<1>5. ASSUME NEW n \in LaggingNonces, NEW m \in Nonce, m < n
      PROVE  Held(m)
  <2>1. m \in Nat /\ n \in Nat /\ PendingNonce \in Nat /\ n <= PendingNonce
    BY <1>2, <1>4, NonceFacts
  <2>2. m < PendingNonce
    BY <1>5, <2>1
  <2> QED  BY <1>2, <2>2
<1> QED
  BY <1>2, <1>3, <1>4, <1>5

-----------------------------------------------------------------------------
(* Locals *)

\* Fresh locals are locals, and begin with the first target.
LEMMA NoLocalsType ==
  /\ NoLocals \in Locals /\ NoLocals.nonce = 0 /\ NoLocals.at = 1
  /\ \A n \in Nat, p \in Prices :
        /\ NewLocals(n, p) \in Locals /\ NewLocals(n, p).nonce = n /\ NewLocals(n, p).at = 1
<1>1. (CHOOSE p \in Prices : TRUE) \in Prices
  BY GasAssumption
<1>2. \A n \in Nat, p \in Prices :
        /\ NewLocals(n, p) \in Locals /\ NewLocals(n, p).nonce = n /\ NewLocals(n, p).at = 1
  BY DEF NewLocals, Locals
<1> QED
  BY <1>1, <1>2 DEF NoLocals

\* Everybody but q stays where it is.
Only(q) == \A v \in Requests \ {q} : pc'[v] = pc[v] /\ loc'[v] = loc[v]

\* A step of request q that goes somewhere with new locals keeps the types of all.
LEMMA Moves ==
  ASSUME TypeOK, NEW q \in Requests, NEW next \in PC, NEW locals \in Locals,
         GotoWith(q, next, locals)
  PROVE  /\ pc' \in [Requests -> PC] /\ loc' \in [Requests -> Locals]
         /\ pc'[q] = next /\ loc'[q] = locals /\ Only(q)
BY DEF TypeOK, GotoWith, Goto, Only

\* One that only goes somewhere.
LEMMA Goes ==
  ASSUME TypeOK, NEW q \in Requests, NEW next \in PC, Goto(q, next), UNCHANGED loc
  PROVE  /\ pc' \in [Requests -> PC] /\ loc' \in [Requests -> Locals]
         /\ pc'[q] = next /\ loc'[q] = loc[q] /\ Only(q)
BY DEF TypeOK, Goto, Only

\* The types of the locals, one by one.
LEMMA Fields ==
  ASSUME NEW l \in Locals
  PROVE  /\ l.nonce \in Nat /\ l.price \in Prices /\ l.at \in Nat /\ l.attempt \in {1, 2}
         /\ l.hash \in Hash \cup {NoHash} /\ l.tooLow \in BOOLEAN
         /\ l.verdict \in {"none", "confirmed", "failed"}
BY DEF Locals

\* The updates of the locals that the steps make.
LEMMA ClearsHash ==
  ASSUME NEW l \in Locals
  PROVE  LET u == [l EXCEPT !.hash = NoHash, !.tooLow = FALSE]
         IN  u \in Locals /\ u.nonce = l.nonce /\ u.at = l.at /\ u.tooLow = FALSE
BY DEF Locals

\* The locals of a transfer that was sent.
LEMMA TakesHash ==
  ASSUME NEW l \in Locals, NEW h \in Hash
  PROVE  LET u == [l EXCEPT !.hash = h]
         IN  u \in Locals /\ u.nonce = l.nonce /\ u.at = l.at /\ u.hash = h
BY DEF Locals

\* The locals of one whose nonce was refused.
LEMMA IsTooLow ==
  ASSUME NEW l \in Locals
  PROVE  LET u == [l EXCEPT !.tooLow = TRUE]
         IN  u \in Locals /\ u.nonce = l.nonce /\ u.at = l.at /\ u.tooLow = TRUE
BY DEF Locals

\* The locals for the next target, with the same nonce.
LEMMA TakesNext ==
  ASSUME NEW l \in Locals
  PROVE  LET u == [l EXCEPT !.at = @ + 1, !.attempt = 1]
         IN  u \in Locals /\ u.nonce = l.nonce /\ u.at = l.at + 1
<1>1. \A k \in Nat : LET u == [l EXCEPT !.at = k, !.attempt = 1]
                      IN  u \in Locals /\ u.nonce = l.nonce /\ u.at = k
  BY DEF Locals
<1>2. l.at + 1 \in Nat
  BY DEF Locals
<1> QED
  BY <1>1, <1>2

\* The locals of the second attempt, with a nonce of its own.
LEMMA TakesNonce ==
  ASSUME NEW l \in Locals, NEW n \in Nat
  PROVE  LET u == [l EXCEPT !.nonce = n, !.attempt = 2]
         IN  u \in Locals /\ u.nonce = n /\ u.at = l.at
BY DEF Locals

\* The locals of a transfer with a verdict.
LEMMA TakesVerdict ==
  ASSUME NEW l \in Locals, NEW v \in {"confirmed", "failed"}
  PROVE  LET u == [l EXCEPT !.verdict = v]
         IN  /\ u \in Locals /\ u.nonce = l.nonce /\ u.at = l.at /\ u.hash = l.hash
             /\ u.verdict = v
BY DEF Locals

\* The locals for the next target, after a transfer that was sent.
LEMMA Advances ==
  ASSUME NEW n \in Nat, NEW p \in Prices, NEW k \in Nat
  PROVE  LET u == [NewLocals(n, p) EXCEPT !.at = k]
         IN  u \in Locals /\ u.nonce = n /\ u.at = k
BY DEF NewLocals, Locals

-----------------------------------------------------------------------------
(* Frames *)

\* A fault is counted up to the bound.
LEMMA FaultsStay ==
  ASSUME TypeOK, Fault \/ UNCHANGED faults
  PROVE  faults' \in 0 .. MaxFaults
<1>1. MaxFaults \in Nat
  BY GasAssumption
<1>2. faults \in 0 .. MaxFaults
  BY DEF TypeOK
<1>3. (faults < MaxFaults /\ faults' = faults + 1) \/ faults' = faults
  BY DEF Fault
<1> QED
  BY ONLY <1>1, <1>2, <1>3, SMT

RowsOK ==
    /\ DOMAIN rows = Requests
    /\ \A q \in Requests : rows[q] \in [1 .. Len(Targets[q]) -> [{1, 2} -> Row]]

TablesOK == RowsOK /\ history \subseteq Hash \X {"pending", "confirmed"} /\ ConfirmedIsPaid

\* What has succeeded stays so while the chain is unchanged.
LEMMA SameChain ==
  ASSUME UNCHANGED chainVars
  PROVE  \A h : (Succeeded(h))' <=> Succeeded(h)
BY DEF chainVars, Succeeded, IsMined

\* The entry of a nonce in use is a place in the list of a request.
LEMMA HeldEntry ==
  ASSUME TypeOK, NEW n \in Nonce, Held(n)
  PROVE  slots[n].by \in Entry /\ slots[n].by[1] \in Requests /\ slots[n].by[2] \in Nat
<1>1. slots[n].by \in Entry
  BY DEF TypeOK, Held, Slot
<1>2. \A q \in Requests : \A k \in 1 .. Len(Targets[q]) : k \in Nat
  BY GasAssumption
<1> QED
  BY <1>1, <1>2, EntryFacts

\* A step of request q that leaves the chain alone.
LEMMA QuietStep ==
  ASSUME Inv, NEW q \in Requests, Only(q),
         pc' \in [Requests -> PC], loc' \in [Requests -> Locals],
         UNCHANGED <<chainVars, gone>>, Fault \/ UNCHANGED faults,
         TablesOK', LocalOK(q)', \A k \in Nat : Past(q, k) => Past(q, k)'
  PROVE  Inv'
<1>1. /\ slots' = slots /\ mined' = mined /\ reverted' = reverted /\ gone' = gone
  BY DEF chainVars
<1>2. TypeOK'
  BY <1>1, FaultsStay DEF Inv, TypeOK, TablesOK, RowsOK
<1>3. \A v \in Requests : LocalOK(v)'
  <2>1. ASSUME NEW v \in Requests \ {q}
        PROVE  LocalOK(v)'
    <3>1. pc'[v] = pc[v] /\ loc'[v] = loc[v] /\ LocalOK(v)
      BY DEF Inv, Only
    <3> QED  BY <1>1, <3>1, SameChain DEF LocalOK, Held
  <2> QED  BY <2>1
<1>4. HeldOK'
  <2>1. ASSUME NEW n \in Nonce, Held(n)
        PROVE  Past(slots[n].by[1], slots[n].by[2])'
    <3>1. PICK v \in Requests, k \in Nat : v = slots[n].by[1] /\ k = slots[n].by[2]
      BY <2>1, HeldEntry DEF Inv
    <3>2. Past(v, k)
      BY <2>1, <3>1 DEF Inv, HeldOK
    <3>3. Past(v, k)'
      BY <3>2 DEF Past, Only
    <3> QED  BY <1>1, <3>1, <3>3
  <2> QED  BY <1>1, <2>1 DEF HeldOK, Held
<1>5. NoNonceGap' /\ PaidOncePerEntry'
  BY <1>1 DEF Inv, NoNonceGap, PaidOncePerEntry, Held
<1> QED
  BY <1>2, <1>3, <1>4, <1>5 DEF Inv, TablesOK

\* Tables that a step leaves alone.
LEMMA SameTables ==
  ASSUME Inv, UNCHANGED <<tableVars, chainVars>>
  PROVE  TablesOK'
<1>1. rows' = rows /\ history' = history
  BY DEF tableVars
<1> QED
  BY <1>1, SameChain DEF Inv, TypeOK, TablesOK, RowsOK, ConfirmedIsPaid

\* A statement that writes the row of the attempt, or fails.  If it says confirmed, it has to
\* be true.
LEMMA WritesOK ==
  ASSUME Inv, NEW q \in Requests, pc[q] \in Busy, NEW status \in Statuses,
         NEW hash \in Hash \cup {NoHash},
         Writes(q, status, hash), UNCHANGED <<chainVars, history>>,
         status = "confirmed" => /\ hash \in Hash /\ Succeeded(hash)
                                 /\ hash.target = Targets[q][loc[q].at]
  PROVE  TablesOK' /\ (Fault \/ UNCHANGED faults)
<1>. DEFINE k == loc[q].at
            a == loc[q].attempt
            old == rows[q][k][a]
            new == IF old.status = "absent" /\ status # "pending" THEN old
                   ELSE [status |-> status, hash |-> IF hash = NoHash THEN old.hash ELSE hash]
<1>1. k \in 1 .. Len(Targets[q]) /\ a \in {1, 2}
  <2>1. k \in Nat /\ a \in {1, 2} /\ k >= 1 /\ k <= Len(Targets[q]) /\ Len(Targets[q]) \in Nat
    BY GasAssumption, Fields DEF Inv, TypeOK, LocalOK
  <2> QED  BY <2>1
<1>2. old \in Row
  BY <1>1 DEF Inv, TypeOK
<1>3. new \in Row
  <2>. HIDE DEF old
  <2> QED  BY <1>2 DEF Row
<1>4. /\ Fault \/ UNCHANGED faults
      /\ rows' = rows \/ rows' = [rows EXCEPT ![q][k][a] = new]
  BY DEF Writes
<1>5. new.status = "confirmed" =>
         \/ new = old
         \/ /\ status = "confirmed" /\ new.hash = hash
  <2>1. NoHash \notin Hash
    BY GasAssumption DEF NoHash, Hash
  <2>. HIDE DEF old
  <2> QED  BY <1>2, <2>1 DEF Row
<1>. HIDE DEF new, k, a
<1>6. CASE rows' = rows
  BY <1>4, <1>6, SameTables DEF tableVars
<1>7. CASE rows' = [rows EXCEPT ![q][k][a] = new]
  <2>. DEFINE row == [rows[q] EXCEPT ![k] = [rows[q][k] EXCEPT ![a] = new]]
  <2>1. /\ rows[q] \in [1 .. Len(Targets[q]) -> [{1, 2} -> Row]] /\ DOMAIN rows = Requests
        /\ rows[q][k] \in [{1, 2} -> Row]
    BY <1>1 DEF Inv, TypeOK
  <2>2. /\ row \in [1 .. Len(Targets[q]) -> [{1, 2} -> Row]]
        /\ row[k][a] = new
        /\ \A j \in 1 .. Len(Targets[q]), b \in {1, 2} : j # k \/ b # a => row[j][b] = rows[q][j][b]
    BY <1>1, <1>3, <2>1
  <2>3. /\ DOMAIN rows' = Requests /\ rows'[q] = row
        /\ \A v \in Requests \ {q} : rows'[v] = rows[v]
    <3>1. rows' = [rows EXCEPT ![q] = row]
      BY <1>7
    <3>. HIDE DEF row
    <3> QED  BY <2>1, <3>1
  <2>. HIDE DEF row
  <2>4. RowsOK'
    BY <2>2, <2>3 DEF Inv, TypeOK, RowsOK
  <2>5. ASSUME NEW v \in Requests, NEW j \in 1 .. Len(Targets[v]), NEW b \in {1, 2},
               rows'[v][j][b].status = "confirmed"
        PROVE  Succeeded(rows'[v][j][b].hash) /\ rows'[v][j][b].hash.target = Targets[v][j]
    <3>1. CASE rows'[v][j][b] = rows[v][j][b]
      BY <2>5, <3>1 DEF Inv, ConfirmedIsPaid
    <3>2. CASE v = q /\ j = k /\ b = a
      <4>1. rows'[v][j][b] = new
        BY <2>2, <2>3, <3>2
      <4>2. CASE new = old
        BY <2>5, <3>2, <4>1, <4>2, <1>1 DEF Inv, ConfirmedIsPaid, k, a
      <4>3. CASE status = "confirmed" /\ new.hash = hash
        BY <3>2, <4>1, <4>3 DEF k
      <4> QED  BY <1>5, <2>5, <4>1, <4>2, <4>3
    <3> QED  BY <2>2, <2>3, <3>1, <3>2
  <2>6. ConfirmedIsPaid'
    <3>1. \A h \in Hash : <<h, "confirmed">> \in history' => Succeeded(h)'
      BY SameChain DEF Inv, ConfirmedIsPaid
    <3>2. ASSUME NEW v \in Requests, NEW j \in 1 .. Len(Targets[v]), NEW b \in {1, 2},
                 rows'[v][j][b].status = "confirmed"
          PROVE  Succeeded(rows[v][j][b].hash)' /\ rows'[v][j][b].hash.target = Targets[v][j]
      BY <2>5, <3>2, SameChain
    <3> QED  BY <3>1, <3>2 DEF ConfirmedIsPaid
  <2> QED  BY <1>4, <2>4, <2>6 DEF Inv, TypeOK, TablesOK
<1> QED
  BY <1>4, <1>6, <1>7

-----------------------------------------------------------------------------
(* Steps that leave the chain alone *)

\* The locals of a step that does not touch the chain are right if they were, when it goes to
\* a place that asks no more of them, with a nonce that is not larger.
LEMMA LocalsOutside ==
  ASSUME Inv, NEW q \in Requests, UNCHANGED chainVars, pc' \in [Requests -> PC],
         loc' \in [Requests -> Locals],
         pc'[q] \notin Sent, pc'[q] \in {"mark", "send"} => ~loc'[q].tooLow,
         loc'[q].at >= 1, pc'[q] \in Busy => loc'[q].at <= Len(Targets[q]),
         \A m \in Nonce : m < loc'[q].nonce => Held(m)
  PROVE  LocalOK(q)'
<1>1. \A m \in Nonce : Held(m)' <=> Held(m)
  BY DEF chainVars, Held
<1> QED
  BY <1>1 DEF LocalOK, Sent

\* A request that is not running has nothing that could be wrong.
LEMMA LocalsAtRest ==
  ASSUME Inv, NEW q \in Requests, UNCHANGED chainVars, pc' \in [Requests -> PC],
         loc' \in [Requests -> Locals],
         pc'[q] \in {"execute", "done"}, loc'[q].at >= 1, loc'[q].nonce = 0
  PROVE  LocalOK(q)'
<1>1. \A m \in Nonce : ~(m < loc'[q].nonce)
  BY NonceFacts
<1>2. pc'[q] \notin Sent /\ pc'[q] \notin Busy /\ pc'[q] \notin {"mark", "send"}
  BY DEF Sent, Busy
<1> QED
  BY <1>1, <1>2, LocalsOutside

\* The handler up to Execute changes nothing that the invariant speaks of.
LEMMA HandlerInv ==
  ASSUME Inv, NEW q \in Requests, Handler(q)
  PROVE  Inv'
<1>1. /\ pc' \in [Requests -> PC] /\ loc' \in [Requests -> Locals] /\ Only(q)
      /\ pc'[q] \in {"execute", "done"} /\ loc'[q] = loc[q]
  <2>1. {"execute", "done"} \subseteq PC  BY DEF PC
  <2> QED  BY <2>1, Goes DEF Handler, Inv
<1>2. \A k \in Nat : Past(q, k) => Past(q, k)'
  BY DEF Handler, Past, Sent, Busy
<1>3. LocalOK(q)'
  <2>1. loc[q].at >= 1 /\ \A m \in Nonce : m < loc[q].nonce => Held(m)
    BY DEF Inv, LocalOK
  <2>2. pc'[q] \notin Sent /\ pc'[q] \notin Busy /\ pc'[q] \notin {"mark", "send"}
    BY <1>1 DEF Sent, Busy
  <2> QED  BY <1>1, <2>1, <2>2, LocalsOutside DEF Handler
<1> QED
  BY <1>1, <1>2, <1>3, QuietStep, SameTables DEF Handler

\* Whatever node answers the first nonce, all below it are in use.
LEMMA StartInv ==
  ASSUME Inv, NEW q \in Requests, Start(q)
  PROVE  Inv'
<1>1. \/ \E n \in Nat, p \in Prices :
           /\ GotoWith(q, "target", NewLocals(n, p))
           /\ \A m \in Nonce : m < n => Held(m)
      \/ Goto(q, "done") /\ UNCHANGED loc
  BY Pending, NonceFacts DEF Start
<1>2. UNCHANGED <<gone, tableVars, chainVars>> /\ (Fault \/ UNCHANGED faults) /\ pc[q] = "execute"
  BY DEF Start
<1>3. \A k \in Nat : ~Past(q, k)
  BY <1>2 DEF Past, Sent, Busy
<1>4. CASE Goto(q, "done") /\ UNCHANGED loc
  <2>1. /\ pc' \in [Requests -> PC] /\ loc' \in [Requests -> Locals] /\ Only(q)
        /\ pc'[q] = "done" /\ loc'[q] = loc[q]
    <3>1. "done" \in PC  BY DEF PC
    <3> QED  BY <1>4, <3>1, Goes DEF Inv
  <2>2. LocalOK(q)'
    <3>1. loc[q].at >= 1 /\ \A m \in Nonce : m < loc[q].nonce => Held(m)
      BY DEF Inv, LocalOK
    <3>2. pc'[q] \notin Sent /\ pc'[q] \notin Busy /\ pc'[q] \notin {"mark", "send"}
      BY <2>1 DEF Sent, Busy
    <3> QED  BY <1>2, <2>1, <3>1, <3>2, LocalsOutside
  <2> QED  BY <1>2, <1>3, <2>1, <2>2, QuietStep, SameTables
<1>5. ASSUME NEW n \in Nat, NEW p \in Prices, GotoWith(q, "target", NewLocals(n, p)),
             \A m \in Nonce : m < n => Held(m)
      PROVE  Inv'
  <2>1. /\ pc' \in [Requests -> PC] /\ loc' \in [Requests -> Locals] /\ Only(q)
        /\ pc'[q] = "target" /\ loc'[q] = NewLocals(n, p)
    <3>1. "target" \in PC  BY DEF PC
    <3> QED  BY <1>5, <3>1, Moves, NoLocalsType DEF Inv
  <2>2. LocalOK(q)'
    <3>1. loc'[q].at = 1 /\ loc'[q].nonce = n
      BY <2>1, NoLocalsType
    <3>2. pc'[q] \notin Sent /\ pc'[q] \notin Busy /\ pc'[q] \notin {"mark", "send"}
      BY <2>1 DEF Sent, Busy
    <3> QED  BY <1>2, <1>5, <2>1, <3>1, <3>2, LocalsOutside
  <2> QED  BY <1>2, <1>3, <2>1, <2>2, QuietStep, SameTables
<1> QED
  BY <1>1, <1>4, <1>5

\* A request takes the next target, or ends.
LEMMA NextTargetInv ==
  ASSUME Inv, NEW q \in Requests, NextTarget(q)
  PROVE  Inv'
<1>1. UNCHANGED <<gone, tableVars, chainVars, faults>> /\ pc[q] = "target"
  BY DEF NextTarget
<1>2. CASE GotoWith(q, "done", NoLocals)
  <2>1. /\ pc' \in [Requests -> PC] /\ loc' \in [Requests -> Locals] /\ Only(q)
        /\ pc'[q] = "done" /\ loc'[q] = NoLocals
    <3>1. "done" \in PC  BY DEF PC
    <3> QED  BY <1>2, <3>1, Moves, NoLocalsType DEF Inv
  <2>2. LocalOK(q)'
    BY <1>1, <2>1, NoLocalsType, LocalsAtRest
  <2>3. \A k \in Nat : Past(q, k)'
    BY <2>1 DEF Past
  <2> QED  BY <1>1, <2>1, <2>2, <2>3, QuietStep, SameTables
<1>3. CASE Goto(q, "create") /\ UNCHANGED loc /\ ~(loc[q].at > Len(Targets[q]))
  <2>1. /\ pc' \in [Requests -> PC] /\ loc' \in [Requests -> Locals] /\ Only(q)
        /\ pc'[q] = "create" /\ loc'[q] = loc[q]
    <3>1. "create" \in PC  BY DEF PC
    <3> QED  BY <1>3, <3>1, Goes DEF Inv
  <2>2. LocalOK(q)'
    <3>1. loc[q].at >= 1 /\ \A m \in Nonce : m < loc[q].nonce => Held(m)
      BY DEF Inv, LocalOK
    <3>2. loc[q].at \in Nat /\ Len(Targets[q]) \in Nat
      BY Fields, GasAssumption DEF Inv, TypeOK
    <3>3. pc'[q] \notin Sent /\ pc'[q] \notin {"mark", "send"}
      BY <2>1 DEF Sent
    <3> QED  BY <1>1, <1>3, <2>1, <3>1, <3>2, <3>3, LocalsOutside
  <2>3. \A k \in Nat : Past(q, k) => Past(q, k)'
    BY <1>1, <2>1 DEF Past, Sent, Busy
  <2> QED  BY <1>1, <2>1, <2>2, <2>3, QuietStep, SameTables
<1> QED
  BY <1>2, <1>3 DEF NextTarget

\* An attempt begins with a pending row and without a hash.
LEMMA CreateTxStateInv ==
  ASSUME Inv, NEW q \in Requests, CreateTxState(q)
  PROVE  Inv'
<1>. DEFINE fresh == [loc[q] EXCEPT !.hash = NoHash, !.tooLow = FALSE]
<1>1. /\ loc[q] \in Locals /\ fresh \in Locals /\ fresh.nonce = loc[q].nonce
      /\ fresh.at = loc[q].at /\ ~fresh.tooLow
  BY ClearsHash DEF Inv, TypeOK
<1>. HIDE DEF fresh
<1>2. /\ pc' \in [Requests -> PC] /\ loc' \in [Requests -> Locals] /\ Only(q)
      /\ pc'[q] = "mark" /\ loc'[q] = fresh
  <2>1. "mark" \in PC  BY DEF PC
  <2> QED  BY <1>1, <2>1, Moves DEF CreateTxState, Inv, fresh
<1>3. UNCHANGED <<gone, history, chainVars>> /\ pc[q] = "create" /\ pc[q] \in Busy
  BY DEF CreateTxState, Busy
<1>4. TablesOK' /\ (Fault \/ UNCHANGED faults)
  <2>1. "pending" \in Statuses /\ NoHash \in Hash \cup {NoHash}  BY DEF Statuses
  <2> QED  BY <1>3, <2>1, WritesOK DEF CreateTxState
<1>5. LocalOK(q)'
  <2>1. /\ loc[q].at >= 1 /\ loc[q].at <= Len(Targets[q])
        /\ \A m \in Nonce : m < loc[q].nonce => Held(m)
    BY <1>3 DEF Inv, LocalOK
  <2>2. pc'[q] \notin Sent
    BY <1>2 DEF Sent
  <2> QED  BY <1>1, <1>2, <1>3, <2>1, <2>2, LocalsOutside
<1>6. \A k \in Nat : Past(q, k) => Past(q, k)'
  BY <1>1, <1>2, <1>3 DEF Past, Sent, Busy
<1> QED
  BY <1>2, <1>3, <1>4, <1>5, <1>6, QuietStep

\* The row says broadcasting before anything is sent.
LEMMA MarkBroadcastingInv ==
  ASSUME Inv, NEW q \in Requests, MarkBroadcasting(q)
  PROVE  Inv'
<1>1. /\ pc' \in [Requests -> PC] /\ loc' \in [Requests -> Locals] /\ Only(q)
      /\ pc'[q] = "send" /\ loc'[q] = loc[q]
  <2>1. "send" \in PC  BY DEF PC
  <2> QED  BY <2>1, Goes DEF MarkBroadcasting, Inv
<1>2. UNCHANGED <<gone, history, chainVars>> /\ pc[q] = "mark" /\ pc[q] \in Busy
  BY DEF MarkBroadcasting, Busy
<1>3. TablesOK' /\ (Fault \/ UNCHANGED faults)
  <2>1. "broadcasting" \in Statuses /\ NoHash \in Hash \cup {NoHash}  BY DEF Statuses
  <2> QED  BY <1>2, <2>1, WritesOK DEF MarkBroadcasting
<1>4. LocalOK(q)'
  <2>1. /\ loc[q].at >= 1 /\ loc[q].at <= Len(Targets[q]) /\ ~loc[q].tooLow
        /\ \A m \in Nonce : m < loc[q].nonce => Held(m)
    BY <1>2 DEF Inv, LocalOK
  <2>2. pc'[q] \notin Sent
    BY <1>1 DEF Sent
  <2> QED  BY <1>1, <1>2, <2>1, <2>2, LocalsOutside
<1>5. \A k \in Nat : Past(q, k) => Past(q, k)'
  BY <1>1, <1>2 DEF Past, Sent, Busy
<1> QED
  BY <1>1, <1>2, <1>3, <1>4, <1>5, QuietStep

\* A transfer that could not be signed is not sent again: its error is none of the nonce's.
LEMMA SignFailsInv ==
  ASSUME Inv, NEW q \in Requests, SignFails(q)
  PROVE  Inv'
<1>1. /\ pc' \in [Requests -> PC] /\ loc' \in [Requests -> Locals] /\ Only(q)
      /\ pc'[q] = "refused" /\ loc'[q] = loc[q]
  <2>1. "refused" \in PC  BY DEF PC
  <2> QED  BY <2>1, Goes DEF SignFails, Inv
<1>2. /\ UNCHANGED <<gone, tableVars, chainVars>> /\ Fault
      /\ pc[q] = "mark" /\ pc[q] \in Busy
  BY DEF SignFails, Busy
<1>3. LocalOK(q)'
  <2>1. /\ loc[q].at >= 1 /\ loc[q].at <= Len(Targets[q])
        /\ \A m \in Nonce : m < loc[q].nonce => Held(m)
    BY <1>2 DEF Inv, LocalOK
  <2>2. pc'[q] \notin Sent /\ pc'[q] \notin {"mark", "send"}
    BY <1>1 DEF Sent
  <2> QED  BY <1>1, <1>2, <2>1, <2>2, LocalsOutside
<1>4. \A k \in Nat : Past(q, k) => Past(q, k)'
  BY <1>1, <1>2 DEF Past, Sent, Busy
<1> QED
  BY <1>1, <1>2, <1>3, <1>4, QuietStep, SameTables

\* A target is left only when the transfer to it may have been taken; a retry of one that no
\* node took finds no earlier one.
LEMMA RefusedInv ==
  ASSUME Inv, NEW q \in Requests, Refused(q)
  PROVE  Inv'
<1>. DEFINE next == [loc[q] EXCEPT !.at = @ + 1, !.attempt = 1]
<1>1. /\ loc[q] \in Locals /\ next \in Locals /\ next.nonce = loc[q].nonce
      /\ next.at = loc[q].at + 1 /\ loc[q].at \in Nat
  BY TakesNext, Fields DEF Inv, TypeOK
<1>. HIDE DEF next
<1>2. /\ pc' \in [Requests -> PC] /\ loc' \in [Requests -> Locals] /\ Only(q)
      /\ \/ pc'[q] = "refetch" /\ loc'[q] = loc[q] /\ loc[q].tooLow
         \/ pc'[q] = "target" /\ loc'[q] = next
  <2>1. {"refetch", "target"} \subseteq PC  BY DEF PC
  <2>2. CASE Goto(q, "refetch") /\ UNCHANGED loc /\ loc[q].tooLow
    BY <2>1, <2>2, Goes DEF Inv
  <2>3. CASE GotoWith(q, "target", next)
    BY <1>1, <2>1, <2>3, Moves DEF Inv
  <2> QED  BY <2>2, <2>3 DEF Refused, next
<1>3. UNCHANGED <<gone, history, chainVars>> /\ pc[q] = "refused" /\ pc[q] \in Busy
  BY DEF Refused, Busy
<1>4. TablesOK' /\ (Fault \/ UNCHANGED faults)
  <2>1. "failed" \in Statuses /\ NoHash \in Hash \cup {NoHash}  BY DEF Statuses
  <2> QED  BY <1>3, <2>1, WritesOK DEF Refused
<1>5. LocalOK(q)'
  <2>1. /\ loc[q].at >= 1 /\ loc[q].at <= Len(Targets[q])
        /\ \A m \in Nonce : m < loc[q].nonce => Held(m)
    BY <1>3 DEF Inv, LocalOK
  <2>2. /\ pc'[q] \notin Sent /\ pc'[q] \notin {"mark", "send"}
        /\ pc'[q] \in Busy => loc'[q] = loc[q]
        /\ loc'[q].nonce = loc[q].nonce /\ loc'[q].at >= 1
    BY <1>1, <1>2, <2>1 DEF Sent, Busy
  <2> QED  BY <1>2, <1>3, <2>1, <2>2, LocalsOutside
<1>6. \A k \in Nat : Past(q, k) => Past(q, k)'
  BY <1>1, <1>2, <1>3 DEF Past, Sent, Busy
<1> QED
  BY <1>2, <1>3, <1>4, <1>5, <1>6, QuietStep

\* A nonce that was fetched again has all below it in use, as the first one.
LEMMA RefetchNonceInv ==
  ASSUME Inv, NEW q \in Requests, RefetchNonce(q)
  PROVE  Inv'
<1>1. /\ UNCHANGED <<gone, tableVars, chainVars>> /\ (Fault \/ UNCHANGED faults)
      /\ pc[q] = "refetch" /\ pc[q] \in Busy /\ loc[q] \in Locals /\ loc[q].at \in Nat
  BY Fields DEF RefetchNonce, Busy, Inv, TypeOK
<1>2. /\ loc[q].at >= 1 /\ loc[q].at <= Len(Targets[q])
      /\ \A m \in Nonce : m < loc[q].nonce => Held(m)
  BY <1>1 DEF Inv, LocalOK
<1>3. \/ \E n \in Nat :
           /\ GotoWith(q, "create", [loc[q] EXCEPT !.nonce = n, !.attempt = 2])
           /\ \A m \in Nonce : m < n => Held(m)
      \/ GotoWith(q, "target", [loc[q] EXCEPT !.at = @ + 1, !.attempt = 1])
  BY Pending, NonceFacts DEF RefetchNonce
<1>4. ASSUME NEW n \in Nat, GotoWith(q, "create", [loc[q] EXCEPT !.nonce = n, !.attempt = 2]),
             \A m \in Nonce : m < n => Held(m)
      PROVE  Inv'
  <2>. DEFINE again == [loc[q] EXCEPT !.nonce = n, !.attempt = 2]
  <2>1. again \in Locals /\ again.nonce = n /\ again.at = loc[q].at
    BY <1>1, TakesNonce
  <2>2. GotoWith(q, "create", again)
    BY <1>4
  <2>. HIDE DEF again
  <2>3. /\ pc' \in [Requests -> PC] /\ loc' \in [Requests -> Locals] /\ Only(q)
        /\ pc'[q] = "create" /\ loc'[q] = again
    <3>1. "create" \in PC  BY DEF PC
    <3> QED  BY <2>1, <2>2, <3>1, Moves DEF Inv
  <2>4. LocalOK(q)'
    <3>1. pc'[q] \notin Sent /\ pc'[q] \notin {"mark", "send"}  BY <2>3 DEF Sent
    <3> QED  BY <1>1, <1>2, <1>4, <2>1, <2>3, <3>1, LocalsOutside
  <2>5. \A k \in Nat : Past(q, k) => Past(q, k)'
    BY <1>1, <2>1, <2>3 DEF Past, Sent, Busy
  <2> QED  BY <1>1, <2>3, <2>4, <2>5, QuietStep, SameTables
<1>5. CASE GotoWith(q, "target", [loc[q] EXCEPT !.at = @ + 1, !.attempt = 1])
  <2>. DEFINE next == [loc[q] EXCEPT !.at = @ + 1, !.attempt = 1]
  <2>1. next \in Locals /\ next.nonce = loc[q].nonce /\ next.at = loc[q].at + 1
    BY <1>1, TakesNext
  <2>2. GotoWith(q, "target", next)
    BY <1>5
  <2>. HIDE DEF next
  <2>3. /\ pc' \in [Requests -> PC] /\ loc' \in [Requests -> Locals] /\ Only(q)
        /\ pc'[q] = "target" /\ loc'[q] = next
    <3>1. "target" \in PC  BY DEF PC
    <3> QED  BY <2>1, <2>2, <3>1, Moves DEF Inv
  <2>4. LocalOK(q)'
    <3>1. /\ pc'[q] \notin Sent /\ pc'[q] \notin {"mark", "send"} /\ pc'[q] \notin Busy
          /\ loc'[q].at >= 1
      BY <1>1, <2>1, <2>3 DEF Sent, Busy
    <3> QED  BY <1>1, <1>2, <2>1, <2>3, <3>1, LocalsOutside
  <2>5. \A k \in Nat : Past(q, k) => Past(q, k)'
    BY <1>1, <2>1, <2>3 DEF Past, Sent, Busy
  <2> QED  BY <1>1, <2>3, <2>4, <2>5, QuietStep, SameTables
<1> QED
  BY <1>3, <1>4, <1>5

\* A step between a broadcast and the end of its target keeps the hash, and says confirmed
\* only of what is.
LEMMA LocalsSent ==
  ASSUME Inv, NEW q \in Requests, UNCHANGED chainVars, pc[q] \in Sent, pc'[q] \in Sent,
         loc'[q].nonce = loc[q].nonce, loc'[q].at = loc[q].at, loc'[q].hash = loc[q].hash,
         pc'[q] = "verdict" => loc'[q].verdict # "none",
         pc'[q] \in {"verdict", "record"} /\ loc'[q].verdict = "confirmed"
            => Succeeded(loc[q].hash)
  PROVE  LocalOK(q)' /\ \A k \in Nat : Past(q, k) => Past(q, k)'
<1>1. LocalOK(q) /\ pc[q] \in Busy /\ pc'[q] \in Busy
  BY DEF Inv, Busy
<1>2. \A m \in Nonce : Held(m)' <=> Held(m)
  BY DEF chainVars, Held
<1>3. pc'[q] \notin {"mark", "send"}
  BY DEF Sent
<1>4. Succeeded(loc[q].hash) => Succeeded(loc[q].hash)'
  BY DEF chainVars, Succeeded, IsMined
<1>5. \A k \in Nat : Past(q, k) => Past(q, k)'
  BY <1>1 DEF Past, Sent
<1>6. LocalOK(q)'
  <2>1. /\ loc'[q].at >= 1 /\ loc'[q].at <= Len(Targets[q])
        /\ loc'[q].hash \in Hash /\ loc'[q].hash.target = Targets[q][loc'[q].at]
        /\ \A m \in Nonce : m < loc'[q].nonce \/ m = loc'[q].nonce => Held(m)'
    BY <1>1, <1>2 DEF LocalOK
  <2>2. (pc[q] \in {"verdict", "record"} /\ loc[q].verdict = "confirmed" => Succeeded(loc[q].hash))'
    BY <1>4
  <2> QED  BY <1>3, <2>1, <2>2 DEF LocalOK
<1> QED
  BY <1>5, <1>6

\* The row takes the hash of the transfer that was sent.
LEMMA MarkConfirmingInv ==
  ASSUME Inv, NEW q \in Requests, MarkConfirming(q)
  PROVE  Inv'
<1>1. /\ pc' \in [Requests -> PC] /\ loc' \in [Requests -> Locals] /\ Only(q)
      /\ pc'[q] = "wait" /\ loc'[q] = loc[q]
  <2>1. "wait" \in PC  BY DEF PC
  <2> QED  BY <2>1, Goes DEF MarkConfirming, Inv
<1>2. UNCHANGED <<gone, history, chainVars>> /\ pc[q] = "sent" /\ pc[q] \in Busy /\ pc[q] \in Sent
  BY DEF MarkConfirming, Busy, Sent
<1>3. TablesOK' /\ (Fault \/ UNCHANGED faults)
  <2>1. "confirming" \in Statuses /\ loc[q].hash \in Hash \cup {NoHash}
    BY Fields DEF Statuses, Inv, TypeOK
  <2> QED  BY <1>2, <2>1, WritesOK DEF MarkConfirming
<1>4. LocalOK(q)' /\ \A k \in Nat : Past(q, k) => Past(q, k)'
  <2>1. pc'[q] \in Sent /\ pc'[q] \notin {"verdict", "record"}  BY <1>1 DEF Sent
  <2> QED  BY <1>1, <1>2, <2>1, LocalsSent
<1> QED
  BY <1>1, <1>2, <1>3, <1>4, QuietStep

\* "confirmed" is said on the receipt of the very transfer, which is for ever.
LEMMA WaitForReceiptInv ==
  ASSUME Inv, NEW q \in Requests, WaitForReceipt(q)
  PROVE  Inv'
<1>1. PICK v \in {"confirmed", "failed"} :
        /\ GotoWith(q, "verdict", [loc[q] EXCEPT !.verdict = v])
        /\ v = "confirmed" => Succeeded(loc[q].hash)
  BY DEF WaitForReceipt, Receipt, Succeeded
<1>. DEFINE seen == [loc[q] EXCEPT !.verdict = v]
<1>2. /\ loc[q] \in Locals /\ seen \in Locals /\ seen.nonce = loc[q].nonce /\ seen.at = loc[q].at
      /\ seen.hash = loc[q].hash /\ seen.verdict = v
  <2>1. loc[q] \in Locals  BY DEF Inv, TypeOK
  <2> QED  BY <2>1, TakesVerdict
<1>3. GotoWith(q, "verdict", seen)
  BY <1>1
<1>. HIDE DEF seen
<1>4. /\ pc' \in [Requests -> PC] /\ loc' \in [Requests -> Locals] /\ Only(q)
      /\ pc'[q] = "verdict" /\ loc'[q] = seen
  <2>1. "verdict" \in PC  BY DEF PC
  <2> QED  BY <1>2, <1>3, <2>1, Moves DEF Inv
<1>5. UNCHANGED <<gone, tableVars, chainVars, faults>> /\ pc[q] \in Sent
  BY DEF WaitForReceipt, Sent
<1>6. LocalOK(q)' /\ \A k \in Nat : Past(q, k) => Past(q, k)'
  <2>1. pc'[q] \in Sent /\ v # "none"  BY <1>4 DEF Sent
  <2> QED  BY <1>1, <1>2, <1>4, <1>5, <2>1, LocalsSent
<1> QED
  BY <1>4, <1>5, <1>6, QuietStep, SameTables

\* The row takes the verdict, which is true of the chain.
LEMMA MarkVerdictInv ==
  ASSUME Inv, NEW q \in Requests, MarkVerdict(q)
  PROVE  Inv'
<1>1. /\ pc' \in [Requests -> PC] /\ loc' \in [Requests -> Locals] /\ Only(q)
      /\ pc'[q] = "record" /\ loc'[q] = loc[q]
  <2>1. "record" \in PC  BY DEF PC
  <2> QED  BY <2>1, Goes DEF MarkVerdict, Inv
<1>2. /\ UNCHANGED <<gone, history, chainVars>>
      /\ pc[q] = "verdict" /\ pc[q] \in Busy /\ pc[q] \in Sent
  BY DEF MarkVerdict, Busy, Sent
<1>3. /\ loc[q].verdict \in {"confirmed", "failed"} /\ loc[q].hash \in Hash
      /\ loc[q].verdict = "confirmed" => Succeeded(loc[q].hash)
      /\ loc[q].hash.target = Targets[q][loc[q].at]
  BY <1>2, Fields DEF Inv, TypeOK, LocalOK
<1>4. TablesOK' /\ (Fault \/ UNCHANGED faults)
  <2>1. loc[q].verdict \in Statuses  BY <1>3 DEF Statuses
  <2> QED  BY <1>2, <1>3, <2>1, WritesOK DEF MarkVerdict
<1>5. LocalOK(q)' /\ \A k \in Nat : Past(q, k) => Past(q, k)'
  <2>1. pc'[q] \in Sent /\ pc'[q] # "verdict"  BY <1>1 DEF Sent
  <2> QED  BY <1>1, <1>2, <1>3, <2>1, LocalsSent
<1> QED
  BY <1>1, <1>2, <1>4, <1>5, QuietStep

\* The nonce that the next target gets follows one that is in use.
LEMMA RecordTransactionInv ==
  ASSUME Inv, NEW q \in Requests, RecordTransaction(q)
  PROVE  Inv'
<1>1. /\ UNCHANGED <<gone, rows, chainVars>> /\ (Fault \/ UNCHANGED faults)
      /\ pc[q] = "record" /\ pc[q] \in Sent /\ pc[q] \in Busy /\ loc[q] \in Locals
  BY DEF RecordTransaction, Sent, Busy, Inv, TypeOK
<1>2. /\ loc[q].nonce \in Nat /\ loc[q].at \in Nat /\ loc[q].price \in Prices
      /\ loc[q].at >= 1 /\ loc[q].hash \in Hash
      /\ loc[q].verdict = "confirmed" => Succeeded(loc[q].hash)
      /\ \A m \in Nonce : m < loc[q].nonce \/ m = loc[q].nonce => Held(m)
  BY <1>1, Fields DEF Inv, LocalOK
<1>. DEFINE next == [NewLocals(NextNonce(q), loc[q].price) EXCEPT !.at = loc[q].at + 1]
<1>3. next \in Locals /\ next.nonce = loc[q].nonce + 1 /\ next.at = loc[q].at + 1
  <2>1. loc[q].nonce + 1 \in Nat /\ loc[q].at + 1 \in Nat  BY <1>2
  <2>2. NextNonce(q) = loc[q].nonce + 1  BY DEF NextNonce
  <2> QED  BY <1>2, <2>1, <2>2, Advances
<1>4. GotoWith(q, "target", next)
  BY DEF RecordTransaction
<1>. HIDE DEF next
<1>5. /\ pc' \in [Requests -> PC] /\ loc' \in [Requests -> Locals] /\ Only(q)
      /\ pc'[q] = "target" /\ loc'[q] = next
  <2>1. "target" \in PC  BY DEF PC
  <2> QED  BY <1>3, <1>4, <2>1, Moves DEF Inv
<1>6. TablesOK'
  <2>1. \/ history' = history
        \/ \E s \in {"pending", "confirmed"} :
              /\ history' = history \cup {<<loc[q].hash, s>>}
              /\ s = "confirmed" => Succeeded(loc[q].hash)
    BY <1>2 DEF RecordTransaction
  <2>2. history' \subseteq Hash \X {"pending", "confirmed"}
    BY <1>2, <2>1 DEF Inv, TypeOK
  <2>3. \A h \in Hash : <<h, "confirmed">> \in history' => Succeeded(h)
    BY <2>1 DEF Inv, ConfirmedIsPaid
  <2>4. \A h : Succeeded(h)' <=> Succeeded(h)
    BY <1>1, SameChain
  <2>5. ConfirmedIsPaid'
    BY <1>1, <2>3, <2>4 DEF Inv, ConfirmedIsPaid
  <2>6. RowsOK'
    BY <1>1 DEF Inv, TypeOK, RowsOK
  <2> QED  BY <2>2, <2>5, <2>6 DEF TablesOK
<1>7. LocalOK(q)'
  <2>1. /\ pc'[q] \notin Sent /\ pc'[q] \notin {"mark", "send"} /\ pc'[q] \notin Busy
        /\ loc'[q].at >= 1
    BY <1>2, <1>3, <1>5 DEF Sent, Busy
  <2>2. ASSUME NEW m \in Nonce, m < loc'[q].nonce
        PROVE  Held(m)
    <3>1. m \in Nat  BY NonceFacts
    <3> QED  BY <1>2, <1>3, <1>5, <2>2, <3>1
  <2> QED  BY <1>1, <1>5, <2>1, <2>2, LocalsOutside
<1>8. \A k \in Nat : Past(q, k) => Past(q, k)'
  BY <1>1, <1>2, <1>3, <1>5 DEF Past, Sent, Busy
<1> QED
  BY <1>1, <1>5, <1>6, <1>7, <1>8, QuietStep

-----------------------------------------------------------------------------
(* Steps of the chain *)

\* A step that leaves the tables alone, on which the chain loses nothing.
LEMMA ChainGrows ==
  ASSUME Inv, UNCHANGED tableVars,
         \A n \in Nonce : Held(n) => Held(n)',
         \A h \in Hash \cup {NoHash} : Succeeded(h) => Succeeded(h)'
  PROVE  /\ ConfirmedIsPaid'
         /\ \A v \in Requests : pc'[v] = pc[v] /\ loc'[v] = loc[v] => LocalOK(v)'
<1>1. rows' = rows /\ history' = history
  BY DEF tableVars
<1>2. ConfirmedIsPaid'
  <2>1. ASSUME NEW q \in Requests, NEW k \in 1 .. Len(Targets[q]), NEW a \in {1, 2},
               rows[q][k][a].status = "confirmed"
        PROVE  Succeeded(rows[q][k][a].hash)' /\ rows[q][k][a].hash.target = Targets[q][k]
    <3>1. Succeeded(rows[q][k][a].hash) /\ rows[q][k][a].hash.target = Targets[q][k]
      BY <2>1 DEF Inv, ConfirmedIsPaid
    <3>2. rows[q][k][a] \in Row
      BY DEF Inv, TypeOK
    <3>3. PICK h \in Hash \cup {NoHash} : h = rows[q][k][a].hash
      BY <3>2 DEF Row
    <3>4. Succeeded(h)'
      BY <3>1, <3>3
    <3> QED  BY <1>1, <3>1, <3>3, <3>4
  <2>2. \A h \in Hash : <<h, "confirmed">> \in history => Succeeded(h)'
    BY DEF Inv, ConfirmedIsPaid
  <2> QED  BY <1>1, <2>1, <2>2 DEF ConfirmedIsPaid
<1>3. ASSUME NEW v \in Requests, pc'[v] = pc[v], loc'[v] = loc[v]
      PROVE  LocalOK(v)'
  <2>1. LocalOK(v) /\ loc[v].hash \in Hash \cup {NoHash}
    BY Fields DEF Inv, TypeOK
  <2>2. PICK h \in Hash \cup {NoHash} : h = loc[v].hash
    BY <2>1
  <2>3. (pc[v] \in {"verdict", "record"} /\ loc[v].verdict = "confirmed" => Succeeded(loc[v].hash))'
    <3>1. pc[v] \in {"verdict", "record"} /\ loc[v].verdict = "confirmed" => Succeeded(h)'
      BY <2>1, <2>2 DEF LocalOK
    <3> QED  BY <1>3, <2>2, <3>1
  <2>4. \A m \in Nonce : m < loc[v].nonce \/ (m = loc[v].nonce /\ pc[v] \in Sent) => Held(m)'
    BY <2>1 DEF LocalOK
  <2> QED  BY <1>3, <2>1, <2>3, <2>4 DEF LocalOK
<1> QED
  BY <1>2, <1>3

\* The chain only mines what is there, and keeps what it mined.
LEMMA MineInv ==
  ASSUME Inv, Mine
  PROVE  Inv'
<1>1. /\ UNCHANGED <<requestVars, tableVars, slots, faults>>
      /\ mined \in Nat /\ mined' = mined + 1 /\ reverted' \subseteq reverted \cup {mined}
      /\ reverted \subseteq 0 .. mined
  BY DEF Mine, Inv, TypeOK
<1>2. pc' = pc /\ loc' = loc /\ gone' = gone /\ rows' = rows /\ history' = history
  BY <1>1 DEF requestVars, tableVars
<1>3. TypeOK'
  <2>1. mined' \in Nat /\ reverted' \subseteq 0 .. mined'
    BY <1>1
  <2> QED  BY <1>1, <1>2, <2>1 DEF Inv, TypeOK
<1>4. \A n \in Nonce : Held(n)' <=> Held(n)
  BY <1>1 DEF Held
<1>5. ASSUME NEW h \in Hash \cup {NoHash}, Succeeded(h)
      PROVE  Succeeded(h)'
  <2>1. h.nonce \in Nat
    BY HashNonce
  <2>2. h.nonce < mined /\ slots[h.nonce].hash = h /\ h.nonce \notin reverted
    BY <1>5 DEF Succeeded, IsMined
  <2>3. h.nonce < mined' /\ h.nonce \notin reverted'
    BY <1>1, <2>1, <2>2
  <2> QED  BY <1>1, <2>2, <2>3 DEF Succeeded, IsMined
<1>6. ConfirmedIsPaid' /\ \A v \in Requests : LocalOK(v)'
  BY <1>1, <1>2, <1>4, <1>5, ChainGrows
<1>7. HeldOK' /\ NoNonceGap' /\ PaidOncePerEntry'
  BY <1>1, <1>2, <1>4 DEF Inv, HeldOK, NoNonceGap, PaidOncePerEntry, Past, Held
<1> QED
  BY <1>3, <1>6, <1>7 DEF Inv

\* What is signed is a transfer with a nonce of the source.
LEMMA SignedIsHash ==
  ASSUME Inv, NEW q \in Requests, pc[q] = "send"
  PROVE  Signed(q) \in Hash
<1>1. /\ loc[q] \in Locals /\ loc[q].at >= 1 /\ loc[q].at <= Len(Targets[q])
      /\ \A m \in Nonce : m < loc[q].nonce => Held(m)
  BY DEF Inv, TypeOK, LocalOK, Busy
<1>2. loc[q].at \in 1 .. Len(Targets[q]) /\ loc[q].nonce \in Nonce
  BY <1>1, Fields, GasAssumption, Pending
<1>3. Targets[q][loc[q].at] \in Target
  BY <1>2 DEF Target
<1> QED
  BY <1>1, <1>2, <1>3, Fields DEF Signed, Hash

\* A transfer that a node takes: it has the next free nonce or replaces one that is not mined,
\* and is the first for its entry.
LEMMA EntersInv ==
  ASSUME Inv, NEW q \in Requests, pc[q] = "send", CanEnter(Signed(q)), Enters(q, Signed(q)),
         pc' \in [Requests -> PC], loc' \in [Requests -> Locals], Only(q),
         pc'[q] \in {"sent", "refused"}, loc'[q].nonce = loc[q].nonce, loc'[q].at = loc[q].at,
         pc'[q] = "sent" => loc'[q].hash = Signed(q),
         pc'[q] = "refused" => ~loc'[q].tooLow,
         UNCHANGED <<gone, tableVars, mined, reverted>>, Fault \/ UNCHANGED faults
  PROVE  Inv'
<1>. DEFINE h == Signed(q)
            n0 == loc[q].nonce
            at == loc[q].at
<1>1. /\ pc[q] \in Busy /\ at \in 1 .. Len(Targets[q]) /\ n0 \in Nonce
      /\ \A m \in Nonce : m < n0 => Held(m)
  <2>1. /\ pc[q] \in Busy /\ loc[q].at >= 1 /\ loc[q].at <= Len(Targets[q])
        /\ \A m \in Nonce : m < loc[q].nonce => Held(m)
    BY DEF Inv, LocalOK, Busy
  <2>2. loc[q].at \in Nat /\ loc[q].nonce \in Nat /\ Len(Targets[q]) \in Nat
    BY Fields, GasAssumption DEF Inv, TypeOK
  <2> QED  BY <2>1, <2>2, Pending
<1>2. h \in Hash /\ h.nonce = n0 /\ h.target = Targets[q][at]
  BY SignedIsHash DEF Signed
<1>3. mined <= n0 /\ slots' = [slots EXCEPT ![n0] = [hash |-> h, by |-> <<q, at>>]]
  BY <1>2 DEF CanEnter, Enters
<1>. HIDE DEF h
<1>4. /\ slots \in [Nonce -> Slot \cup {Free}]
      /\ slots'[n0].hash = h /\ slots'[n0].by = <<q, at>> /\ slots'[n0] # Free /\ slots'[n0] \in Slot
      /\ \A n \in Nonce \ {n0} : slots'[n] = slots[n]
      /\ slots' \in [Nonce -> Slot \cup {Free}]
  <2>. DEFINE slot == [hash |-> h, by |-> <<q, at>>]
  <2>1. slot.hash = h /\ slot.by = <<q, at>> /\ slot \in Slot /\ slot # Free
    <3>1. NoHash \notin Hash
      BY GasAssumption DEF NoHash, Hash
    <3>2. <<q, at>> \in Entry
      BY <1>1, EntryFacts
    <3> QED  BY <1>2, <3>1, <3>2 DEF Slot, Free
  <2>2. slots \in [Nonce -> Slot \cup {Free}]
    BY DEF Inv, TypeOK
  <2>3. slots' = [slots EXCEPT ![n0] = slot]
    BY <1>3
  <2>. HIDE DEF slot
  <2> QED  BY <1>1, <2>1, <2>2, <2>3
<1>5. /\ Held(n0)' /\ \A n \in Nonce \ {n0} : Held(n)' <=> Held(n)
      /\ \A n \in Nonce : Held(n) => Held(n)'
  BY <1>1, <1>4 DEF Held
<1>6. pc'[q] \in Busy /\ pc'[q] \notin {"mark", "send", "verdict", "record"}
  BY DEF Busy, Sent
<1>7. mined' = mined /\ reverted' = reverted /\ mined \in Nat /\ n0 \in Nat
  BY <1>1, NonceFacts DEF Inv, TypeOK
<1>8. ASSUME NEW x \in Hash \cup {NoHash}, Succeeded(x)
      PROVE  Succeeded(x)'
  <2>1. x.nonce \in Nonce /\ x.nonce \in Nat
    BY HashNonce
  <2>2. x.nonce < mined /\ slots[x.nonce].hash = x /\ x.nonce \notin reverted
    BY <1>8 DEF Succeeded, IsMined
  <2>3. x.nonce # n0
    BY <1>3, <1>7, <2>1, <2>2
  <2> QED  BY <1>4, <1>7, <2>1, <2>2, <2>3 DEF Succeeded, IsMined
<1>9. ConfirmedIsPaid' /\ \A v \in Requests \ {q} : LocalOK(v)'
  BY <1>5, <1>8, ChainGrows DEF Only
<1>10. LocalOK(q)'
  <2>1. loc'[q].at >= 1 /\ loc'[q].at <= Len(Targets[q])
    BY <1>1
  <2>2. pc'[q] \in Sent => loc'[q].hash \in Hash /\ loc'[q].hash.target = Targets[q][loc'[q].at]
    BY <1>2 DEF Sent, h
  <2>3. \A m \in Nonce : m < loc'[q].nonce \/ m = loc'[q].nonce => Held(m)'
    BY <1>1, <1>5
  <2> QED  BY <1>6, <2>1, <2>2, <2>3 DEF LocalOK
<1>11. \A k \in Nat : Past(q, k) => k < at
  BY DEF Past, Sent, Busy
<1>12. Past(q, at)' /\ \A k \in Nat : Past(q, k) => Past(q, k)'
  BY <1>6, <1>11 DEF Past, Sent
<1>13. HeldOK'
  <2>1. ASSUME NEW n \in Nonce, Held(n)', n # n0
        PROVE  Past(slots[n].by[1], slots[n].by[2])'
    <3>1. slots'[n] = slots[n] /\ Held(n)
      BY <1>4, <1>5, <2>1
    <3>2. PICK v \in Requests, k \in Nat : v = slots[n].by[1] /\ k = slots[n].by[2]
      BY <3>1, HeldEntry DEF Inv
    <3>3. Past(v, k)
      BY <3>1, <3>2 DEF Inv, HeldOK
    <3>4. Past(v, k)'
      BY <1>12, <3>3 DEF Past, Only
    <3> QED  BY <3>1, <3>2, <3>4
  <2>2. Past(slots[n0].by[1], slots[n0].by[2])'
    <3>1. Past(q, at)'
      BY <1>12
    <3> QED  BY <1>4, <3>1 DEF Past
  <2> QED  BY <2>1, <2>2 DEF HeldOK
<1>14. NoNonceGap'
  <2>1. ASSUME NEW n \in Nonce, NEW m \in Nonce, Held(n)', m < n
        PROVE  Held(m)'
    <3>1. CASE n = n0
      BY <1>1, <1>5, <2>1, <3>1
    <3>2. CASE n # n0
      BY <1>5, <2>1, <3>2 DEF Inv, NoNonceGap
    <3> QED  BY <3>1, <3>2
  <2> QED  BY <2>1 DEF NoNonceGap
<1>15. ASSUME NEW m \in Nonce, Held(m)
       PROVE  slots[m].by # <<q, at>>
  <2>1. SUFFICES ASSUME slots[m].by = <<q, at>>
                 PROVE  FALSE
    OBVIOUS
  <2>2. Past(q, at)
    BY <1>15, <2>1 DEF Inv, HeldOK
  <2>3. at \in Nat
    BY <1>1, GasAssumption
  <2>4. at < at
    BY <1>11, <2>2, <2>3
  <2> QED  BY <2>3, <2>4
<1>16. PaidOncePerEntry'
  <2>1. ASSUME NEW n \in Nonce, NEW m \in Nonce, n # m, Held(n)', Held(m)'
        PROVE  slots'[n].by # slots'[m].by
    <3>1. CASE n = n0
      BY <1>4, <1>5, <1>15, <2>1, <3>1
    <3>2. CASE m = n0
      BY <1>4, <1>5, <1>15, <2>1, <3>2
    <3>3. CASE n # n0 /\ m # n0
      BY <1>4, <1>5, <2>1, <3>3 DEF Inv, PaidOncePerEntry
    <3> QED  BY <3>1, <3>2, <3>3
  <2> QED  BY <2>1 DEF PaidOncePerEntry
<1>17. TypeOK'
  <2>1. rows' = rows /\ history' = history /\ gone' = gone
    BY DEF tableVars
  <2> QED  BY <1>4, <1>7, <2>1, FaultsStay DEF Inv, TypeOK
<1> QED
  BY <1>9, <1>10, <1>13, <1>14, <1>16, <1>17 DEF Inv

\* Whatever the nodes answer, a target whose transfer may have been taken is not retried.
LEMMA SendTransactionInv ==
  ASSUME Inv, NEW q \in Requests, SendTransaction(q)
  PROVE  Inv'
<1>1. /\ UNCHANGED <<gone, tableVars, mined, reverted>> /\ (Fault \/ UNCHANGED faults)
      /\ pc[q] = "send" /\ pc[q] \in Busy /\ loc[q] \in Locals /\ ~loc[q].tooLow
      /\ {"sent", "refused"} \subseteq PC
  BY DEF SendTransaction, Busy, Inv, TypeOK, LocalOK, PC
<1>2. CASE CanEnter(Signed(q)) /\ Enters(q, Signed(q))
           /\ GotoWith(q, "sent", [loc[q] EXCEPT !.hash = Signed(q)])
  <2>1. Signed(q) \in Hash
    BY <1>1, SignedIsHash
  <2>. DEFINE with == [loc[q] EXCEPT !.hash = Signed(q)]
  <2>2. /\ with \in Locals /\ with.nonce = loc[q].nonce /\ with.at = loc[q].at
        /\ with.hash = Signed(q)
    BY <1>1, <2>1, TakesHash
  <2>3. GotoWith(q, "sent", with)
    BY <1>2
  <2>. HIDE DEF with
  <2>4. /\ pc' \in [Requests -> PC] /\ loc' \in [Requests -> Locals] /\ Only(q)
        /\ pc'[q] = "sent" /\ loc'[q] = with
    BY <1>1, <2>2, <2>3, Moves DEF Inv
  <2> QED  BY <1>1, <1>2, <2>2, <2>4, EntersInv
<1>3. CASE UNCHANGED slots /\ GotoWith(q, "refused", [loc[q] EXCEPT !.tooLow = TRUE])
  <2>. DEFINE with == [loc[q] EXCEPT !.tooLow = TRUE]
  <2>1. with \in Locals /\ with.nonce = loc[q].nonce /\ with.at = loc[q].at
    BY <1>1, IsTooLow
  <2>2. GotoWith(q, "refused", with)
    BY <1>3
  <2>. HIDE DEF with
  <2>3. /\ pc' \in [Requests -> PC] /\ loc' \in [Requests -> Locals] /\ Only(q)
        /\ pc'[q] = "refused" /\ loc'[q] = with
    BY <1>1, <2>1, <2>2, Moves DEF Inv
  <2>4. UNCHANGED chainVars
    BY <1>1, <1>3 DEF chainVars
  <2>5. LocalOK(q)'
    <3>1. /\ loc[q].at >= 1 /\ loc[q].at <= Len(Targets[q])
          /\ \A m \in Nonce : m < loc[q].nonce => Held(m)
      BY <1>1 DEF Inv, LocalOK
    <3>2. pc'[q] \notin Sent /\ pc'[q] \notin {"mark", "send"}  BY <2>3 DEF Sent
    <3> QED  BY <2>1, <2>3, <2>4, <3>1, <3>2, LocalsOutside
  <2>6. \A k \in Nat : Past(q, k) => Past(q, k)'
    BY <1>1, <2>1, <2>3 DEF Past, Sent, Busy
  <2> QED  BY <1>1, <2>3, <2>4, <2>5, <2>6, QuietStep, SameTables
<1>4. CASE /\ Goto(q, "refused") /\ UNCHANGED loc
           /\ \/ CanEnter(Signed(q)) /\ Enters(q, Signed(q))
              \/ UNCHANGED slots
  <2>1. /\ pc' \in [Requests -> PC] /\ loc' \in [Requests -> Locals] /\ Only(q)
        /\ pc'[q] = "refused" /\ loc'[q] = loc[q]
    BY <1>1, <1>4, Goes DEF Inv
  <2>2. CASE CanEnter(Signed(q)) /\ Enters(q, Signed(q))
    BY <1>1, <2>1, <2>2, EntersInv
  <2>3. CASE UNCHANGED slots
    <3>1. UNCHANGED chainVars
      BY <1>1, <2>3 DEF chainVars
    <3>2. LocalOK(q)'
      <4>1. /\ loc[q].at >= 1 /\ loc[q].at <= Len(Targets[q])
            /\ \A m \in Nonce : m < loc[q].nonce => Held(m)
        BY <1>1 DEF Inv, LocalOK
      <4>2. pc'[q] \notin Sent /\ pc'[q] \notin {"mark", "send"}  BY <2>1 DEF Sent
      <4> QED  BY <2>1, <3>1, <4>1, <4>2, LocalsOutside
    <3>3. \A k \in Nat : Past(q, k) => Past(q, k)'
      BY <1>1, <2>1 DEF Past, Sent, Busy
    <3> QED  BY <1>1, <2>1, <3>1, <3>2, <3>3, QuietStep, SameTables
  <2> QED  BY <1>4, <2>2, <2>3
<1> QED
  BY <1>2, <1>3, <1>4 DEF SendTransaction

\* What changes nothing but who has left.
LEMMA StaysInv ==
  ASSUME Inv, UNCHANGED <<pc, loc, tableVars, chainVars>>, gone' \subseteq Requests,
         Fault \/ UNCHANGED faults
  PROVE  Inv'
<1>1. /\ slots' = slots /\ mined' = mined /\ reverted' = reverted
      /\ rows' = rows /\ history' = history
  BY DEF chainVars, tableVars
<1>2. TypeOK'
  BY <1>1, FaultsStay DEF Inv, TypeOK
<1>3. ConfirmedIsPaid' /\ \A v \in Requests : LocalOK(v)'
  <2>1. /\ \A n \in Nonce : Held(n) => Held(n)'
        /\ \A h \in Hash \cup {NoHash} : Succeeded(h) => Succeeded(h)'
    BY <1>1 DEF Held, Succeeded, IsMined
  <2> QED  BY <2>1, ChainGrows
<1>4. HeldOK' /\ NoNonceGap' /\ PaidOncePerEntry'
  BY <1>1 DEF Inv, HeldOK, NoNonceGap, PaidOncePerEntry, Past, Held
<1> QED
  BY <1>2, <1>3, <1>4 DEF Inv

-----------------------------------------------------------------------------
(* The invariant *)

\* Nothing is sent, recorded or confirmed in an initial state.
LEMMA InitInv ==
  ASSUME Init
  PROVE  Inv
<1>1. \A n \in Nonce : ~Held(n)
  BY DEF Init, Held
<1>2. /\ \A q \in Requests : rows[q] \in [1 .. Len(Targets[q]) -> [{1, 2} -> Row]]
      /\ \A q \in Requests : \A k \in 1 .. Len(Targets[q]), a \in {1, 2} :
            rows[q][k][a].status = "absent"
  <2>1. NoRow \in Row /\ NoRow.status = "absent"
    BY DEF NoRow, Row, Statuses
  <2>. HIDE DEF NoRow
  <2> QED  BY <2>1 DEF Init
<1>3. TypeOK
  <2>1. \A q \in Requests : pc[q] = "new" /\ loc[q] = NoLocals
    BY DEF Init
  <2>2. "new" \in PC /\ NoLocals \in Locals /\ MaxFaults \in Nat
    BY NoLocalsType, GasAssumption DEF PC
  <2>3. pc \in [Requests -> PC] /\ loc \in [Requests -> Locals]
    BY <2>2 DEF Init
  <2>4. DOMAIN rows = Requests /\ slots \in [Nonce -> Slot \cup {Free}]
    BY DEF Init
  <2>5. mined \in Nat /\ reverted \subseteq 0 .. mined /\ faults \in 0 .. MaxFaults
        /\ gone \subseteq Requests /\ history \subseteq Hash \X {"pending", "confirmed"}
    BY <2>2 DEF Init
  <2> QED  BY <1>2, <2>3, <2>4, <2>5 DEF TypeOK
<1>4. ASSUME NEW q \in Requests
      PROVE  LocalOK(q)
  <2>1. pc[q] = "new" /\ loc[q].at = 1 /\ loc[q].nonce = 0
    BY NoLocalsType DEF Init
  <2>2. \A m \in Nonce : ~(m < 0)
    BY NonceFacts
  <2> QED  BY <2>1, <2>2 DEF LocalOK, Sent, Busy
<1>5. HeldOK /\ NoNonceGap /\ PaidOncePerEntry
  BY <1>1 DEF HeldOK, NoNonceGap, PaidOncePerEntry
<1>6. ConfirmedIsPaid
  BY <1>2 DEF ConfirmedIsPaid, Init
<1> QED
  BY <1>3, <1>4, <1>5, <1>6 DEF Inv

\* Every step keeps the invariant.
LEMMA NextInv ==
  ASSUME Inv, [Next]_vars
  PROVE  Inv'
<1>1. ASSUME NEW q \in Requests, RequestStep(q)
      PROVE  Inv'
  BY <1>1, StartInv, NextTargetInv, CreateTxStateInv, MarkBroadcastingInv, SignFailsInv,
     SendTransactionInv, RefusedInv, RefetchNonceInv, MarkConfirmingInv, WaitForReceiptInv, MarkVerdictInv,
     RecordTransactionInv DEF RequestStep
<1>2. ASSUME NEW q \in Requests, ClientLeaves(q)
      PROVE  Inv'
  <2>1. gone' \subseteq Requests
    BY <1>2 DEF ClientLeaves, Inv, TypeOK
  <2> QED  BY <1>2, <2>1, StaysInv DEF ClientLeaves
<1>3. CASE UNCHANGED vars
  <2>1. UNCHANGED <<pc, loc, tableVars, chainVars>> /\ UNCHANGED faults /\ gone' \subseteq Requests
    BY <1>3 DEF vars, requestVars, Inv, TypeOK
  <2> QED  BY <2>1, StaysInv
<1> QED
  BY <1>1, <1>2, <1>3, HandlerInv, MineInv DEF Next

\* The conjunction of all invariants and of what they rest on holds in every reachable state.
LEMMA InvHolds == Spec => []Inv
<1>1. Init => Inv
  BY InitInv
<1>2. Inv /\ [Next]_vars => Inv'
  BY NextInv
<1> QED
  BY <1>1, <1>2, PTL DEF Spec

-----------------------------------------------------------------------------
(* Theorems *)

\* The program, the tables and the chain keep their types.
THEOREM TypeCorrect == Spec => []TypeOK
<1>1. Inv => TypeOK
  BY DEF Inv
<1> QED
  BY <1>1, InvHolds, PTL

\* A pre-seed that is called confirmed, in tx_state or in the history, was mined and did not
\* fail, and went to its target, whatever other request used or replaced its nonce.
THEOREM ConfirmedIsTrulyPaid == Spec => []ConfirmedIsPaid
<1>1. Inv => ConfirmedIsPaid
  BY DEF Inv
<1> QED
  BY <1>1, InvHolds, PTL

\* Below every nonce in use, all are in use: no later transfer of the source is blocked.
THEOREM NoncesHaveNoGap == Spec => []NoNonceGap
<1>1. Inv => NoNonceGap
  BY DEF Inv
<1> QED
  BY <1>1, InvHolds, PTL

\* An entry of a request's list is paid at most once, the retry with a fresh nonce included,
\* whatever addresses the list repeats.
THEOREM EntriesArePaidOnce == Spec => []PaidOncePerEntry
<1>1. Inv => PaidOncePerEntry
  BY DEF Inv
<1> QED
  BY <1>1, InvHolds, PTL

-----------------------------------------------------------------------------
(* A request comes to its end *)

\* How far a request is: before its loop over the targets, within it, after it.
Phase(p) == CASE p = "new" -> 0 [] p = "execute" -> 1 [] p = "done" -> 3 [] OTHER -> 2

\* How far the target in hand is.
Stage(p) ==
    CASE p = "target" -> 0 [] p = "create" -> 1 [] p = "mark" -> 2 [] p = "send" -> 3
      [] p \in {"refused", "sent"} -> 4 [] p \in {"refetch", "wait"} -> 5
      [] p = "verdict" -> 6 [] p = "record" -> 7 [] OTHER -> 8

\* A request leaves its phase for a later one, or within its loop goes to the next target, to the
\* second attempt at the same one, or further with that.
Forward(q) ==
    \/ Phase(pc'[q]) > Phase(pc[q])
    \/ /\ Phase(pc[q]) = 2 /\ Phase(pc'[q]) = 2
       /\ \/ loc[q].at < loc'[q].at /\ loc'[q].at <= Len(Targets[q]) + 1
          \/ /\ loc'[q].at = loc[q].at
             /\ \/ loc[q].attempt = 1 /\ loc'[q].attempt = 2
                \/ loc'[q].attempt = loc[q].attempt /\ Stage(pc'[q]) > Stage(pc[q])

\* A request that a step is not about.
Rests(q) == pc'[q] = pc[q] /\ loc'[q] = loc[q]

\* Only a first attempt fetches its nonce again.
RefetchIsFirst == \A q \in Requests : pc[q] = "refetch" => loc[q].attempt = 1

\* A step with the same target and the same attempt.
LEMMA SameAttempt ==
  ASSUME NEW l \in Locals
  PROVE  /\ [l EXCEPT !.hash = NoHash, !.tooLow = FALSE].attempt = l.attempt
         /\ [l EXCEPT !.tooLow = TRUE].attempt = l.attempt
         /\ \A h : [l EXCEPT !.hash = h].attempt = l.attempt
         /\ \A v : [l EXCEPT !.verdict = v].attempt = l.attempt
         /\ \A n : [l EXCEPT !.nonce = n, !.attempt = 2].attempt = 2
BY DEF Locals

\* A step of a request moves it forward, and leaves the others where they are.
LEMMA StepIsForward ==
  ASSUME Inv, RefetchIsFirst, NEW q \in Requests, Handler(q) \/ RequestStep(q)
  PROVE  /\ Only(q) /\ Forward(q)
         /\ pc'[q] = "refetch" => loc'[q].attempt = 1
<1>. DEFINE Goal == /\ Only(q) /\ Forward(q)
                    /\ pc'[q] = "refetch" => loc'[q].attempt = 1
<1>1. /\ TypeOK /\ loc[q] \in Locals /\ loc[q].at \in Nat /\ loc[q].at >= 1
      /\ pc[q] \in Busy => loc[q].at <= Len(Targets[q])
      /\ Len(Targets[q]) \in Nat
  BY Fields, GasAssumption DEF Inv, TypeOK, LocalOK
<1>2. ASSUME NEW next \in PC, Goto(q, next), UNCHANGED loc, next # "refetch",
             \/ Phase(next) > Phase(pc[q])
             \/ Phase(pc[q]) = 2 /\ Phase(next) = 2 /\ Stage(next) > Stage(pc[q])
      PROVE  Goal
  BY <1>1, <1>2, Goes DEF Forward
<1>3. ASSUME NEW next \in PC, NEW l \in Locals, GotoWith(q, next, l), next # "refetch",
             l.at = loc[q].at, l.attempt = loc[q].attempt,
             Phase(pc[q]) = 2, Phase(next) = 2, Stage(next) > Stage(pc[q])
      PROVE  Goal
  BY <1>1, <1>3, Moves DEF Forward
<1>4. ASSUME NEW l \in Locals, GotoWith(q, "target", l), l.at = loc[q].at + 1, pc[q] \in Busy
      PROVE  Goal
  <2>1. "target" \in PC /\ pc'[q] = "target" /\ loc'[q] = l /\ Only(q)
    BY <1>1, <1>4, Moves DEF PC
  <2>2. Phase(pc[q]) = 2 /\ Phase("target") = 2
    BY <1>4 DEF Phase, Busy, Sent
  <2> QED  BY <1>1, <1>4, <2>1, <2>2 DEF Forward
<1>5. ASSUME NEW l \in Locals, NEW next \in {"target", "done"}, GotoWith(q, next, l),
             Phase(next) > Phase(pc[q])
      PROVE  Goal
  BY <1>1, <1>5, Moves DEF Forward, PC
<1>6. CASE Handler(q)
  BY <1>2, <1>6 DEF Handler, Phase, PC
<1>7. CASE Start(q)
  <2>1. CASE Goto(q, "done") /\ UNCHANGED loc
    BY <1>2, <1>7, <2>1 DEF Start, Phase, PC
  <2>2. ASSUME NEW n \in Nat, NEW p \in Prices, GotoWith(q, "target", NewLocals(n, p))
        PROVE  Goal
    BY <1>5, <1>7, <2>2, NoLocalsType DEF Start, Phase
  <2> QED  BY <1>7, <2>1, <2>2, Pending, NonceFacts DEF Start
<1>8. CASE NextTarget(q)
  <2>1. CASE GotoWith(q, "done", NoLocals)
    BY <1>5, <1>8, <2>1, NoLocalsType DEF NextTarget, Phase
  <2>2. CASE Goto(q, "create") /\ UNCHANGED loc
    BY <1>2, <1>8, <2>2 DEF NextTarget, Phase, Stage, PC
  <2> QED  BY <1>8, <2>1, <2>2 DEF NextTarget
<1>9. CASE CreateTxState(q)
  <2>. DEFINE fresh == [loc[q] EXCEPT !.hash = NoHash, !.tooLow = FALSE]
  <2>1. fresh \in Locals /\ fresh.at = loc[q].at /\ fresh.attempt = loc[q].attempt
    BY <1>1, ClearsHash, SameAttempt
  <2>2. GotoWith(q, "mark", fresh) /\ pc[q] = "create"
    BY <1>9 DEF CreateTxState
  <2>. HIDE DEF fresh
  <2> QED  BY <1>3, <2>1, <2>2 DEF Phase, Stage, PC
<1>10. CASE MarkBroadcasting(q) \/ SignFails(q) \/ MarkConfirming(q) \/ MarkVerdict(q)
  BY <1>2, <1>10 DEF MarkBroadcasting, SignFails, MarkConfirming, MarkVerdict, Phase, Stage, PC
<1>11. CASE SendTransaction(q)
  <2>1. CASE Goto(q, "refused") /\ UNCHANGED loc
    BY <1>2, <1>11, <2>1 DEF SendTransaction, Phase, Stage, PC
  <2>2. CASE GotoWith(q, "refused", [loc[q] EXCEPT !.tooLow = TRUE])
    <3>. DEFINE low == [loc[q] EXCEPT !.tooLow = TRUE]
    <3>1. low \in Locals /\ low.at = loc[q].at /\ low.attempt = loc[q].attempt
      BY <1>1, IsTooLow, SameAttempt
    <3>2. GotoWith(q, "refused", low) /\ pc[q] = "send"
      BY <1>11, <2>2 DEF SendTransaction
    <3>. HIDE DEF low
    <3> QED  BY <1>3, <3>1, <3>2 DEF Phase, Stage, PC
  <2>3. CASE CanEnter(Signed(q)) /\ GotoWith(q, "sent", [loc[q] EXCEPT !.hash = Signed(q)])
    <3>. DEFINE sent == [loc[q] EXCEPT !.hash = Signed(q)]
    <3>1. Signed(q) \in Hash
      BY <1>1, <1>11, SignedIsHash DEF SendTransaction
    <3>2. sent \in Locals /\ sent.at = loc[q].at /\ sent.attempt = loc[q].attempt
      BY <1>1, <3>1, TakesHash, SameAttempt
    <3>3. GotoWith(q, "sent", sent) /\ pc[q] = "send"
      BY <1>11, <2>3 DEF SendTransaction
    <3>. HIDE DEF sent
    <3> QED  BY <1>3, <3>2, <3>3 DEF Phase, Stage, PC
  <2> QED  BY <1>11, <2>1, <2>2, <2>3 DEF SendTransaction
<1>12. CASE GotoWith(q, "target", [loc[q] EXCEPT !.at = @ + 1, !.attempt = 1]) /\ pc[q] \in Busy
  <2>. DEFINE next == [loc[q] EXCEPT !.at = @ + 1, !.attempt = 1]
  <2>1. next \in Locals /\ next.at = loc[q].at + 1
    BY <1>1, TakesNext
  <2>2. GotoWith(q, "target", next)
    BY <1>12
  <2>. HIDE DEF next
  <2> QED  BY <1>4, <1>12, <2>1, <2>2
<1>13. CASE Refused(q)
  <2>1. CASE loc[q].attempt = 1 /\ Goto(q, "refetch") /\ UNCHANGED loc
    <3>1. "refetch" \in PC /\ pc'[q] = "refetch" /\ loc'[q] = loc[q] /\ Only(q)
      BY <1>1, <2>1, Goes DEF PC
    <3> QED  BY <1>13, <2>1, <3>1 DEF Refused, Forward, Phase, Stage
  <2> QED  BY <1>12, <1>13, <2>1 DEF Refused, Busy
<1>14. CASE RefetchNonce(q)
  <2>1. ASSUME NEW n \in Nat, GotoWith(q, "create", [loc[q] EXCEPT !.nonce = n, !.attempt = 2])
        PROVE  Goal
    <3>. DEFINE again == [loc[q] EXCEPT !.nonce = n, !.attempt = 2]
    <3>1. again \in Locals /\ again.at = loc[q].at /\ again.attempt = 2
      BY <1>1, TakesNonce, SameAttempt
    <3>2. GotoWith(q, "create", again)
      BY <2>1
    <3>. HIDE DEF again
    <3>3. "create" \in PC /\ pc'[q] = "create" /\ loc'[q] = again /\ Only(q)
      BY <1>1, <3>1, <3>2, Moves DEF PC
    <3>4. pc[q] = "refetch" /\ loc[q].attempt = 1
      BY <1>14 DEF RefetchNonce, RefetchIsFirst
    <3> QED  BY <3>1, <3>3, <3>4 DEF Forward, Phase
  <2>2. pc[q] \in Busy
    BY <1>14 DEF RefetchNonce, Busy
  <2> QED  BY <1>12, <1>14, <2>1, <2>2, Pending, NonceFacts DEF RefetchNonce
<1>15. CASE WaitForReceipt(q)
  <2>1. PICK v \in {"confirmed", "failed"} :
          GotoWith(q, "verdict", [loc[q] EXCEPT !.verdict = v])
    BY <1>15 DEF WaitForReceipt
  <2>. DEFINE seen == [loc[q] EXCEPT !.verdict = v]
  <2>2. seen \in Locals /\ seen.at = loc[q].at /\ seen.attempt = loc[q].attempt
    BY <1>1, TakesVerdict, SameAttempt
  <2>3. GotoWith(q, "verdict", seen) /\ pc[q] = "wait"
    BY <1>15, <2>1 DEF WaitForReceipt
  <2>. HIDE DEF seen
  <2> QED  BY <1>3, <2>2, <2>3 DEF Phase, Stage, PC
<1>16. CASE RecordTransaction(q)
  <2>1. PICK n \in Nat, p \in Prices, k \in Nat :
          n = NextNonce(q) /\ p = loc[q].price /\ k = loc[q].at + 1
    <3>1. loc[q].nonce \in Nat /\ loc[q].price \in Prices /\ loc[q].at \in Nat
      BY <1>1, Fields
    <3>2. NextNonce(q) \in Nat /\ loc[q].at + 1 \in Nat
      BY <3>1 DEF NextNonce
    <3> QED  BY <3>1, <3>2
  <2>. DEFINE next == [NewLocals(n, p) EXCEPT !.at = k]
  <2>2. next \in Locals /\ next.at = loc[q].at + 1
    BY <2>1, Advances
  <2>3. GotoWith(q, "target", next) /\ pc[q] \in Busy
    BY <1>16, <2>1 DEF RecordTransaction, Busy, Sent
  <2>. HIDE DEF next
  <2> QED  BY <1>4, <2>2, <2>3
<1> QED
  BY <1>6, <1>7, <1>8, <1>9, <1>10, <1>11, <1>13, <1>14, <1>15, <1>16 DEF RequestStep

\* Whatever the step, a request goes forward by it or is not concerned.
LEMMA RequestsGoForward ==
  ASSUME Inv, RefetchIsFirst, [Next]_vars
  PROVE  RefetchIsFirst' /\ \A q \in Requests : Rests(q) \/ Forward(q)
<1>1. ASSUME NEW q \in Requests, Handler(q) \/ RequestStep(q)
      PROVE  RefetchIsFirst' /\ \A v \in Requests : Rests(v) \/ Forward(v)
  BY <1>1, StepIsForward DEF RefetchIsFirst, Only, Rests
<1>2. ASSUME UNCHANGED <<pc, loc>>
      PROVE  RefetchIsFirst' /\ \A v \in Requests : Rests(v) \/ Forward(v)
  BY <1>2 DEF RefetchIsFirst, Rests
<1> QED
  BY <1>1, <1>2 DEF Next, ClientLeaves, Mine, vars, requestVars

\* What AttemptsGetVerdicts rests on besides the fairness of its steps: a request never goes round
\* in circles.  Each target is tried at most twice and left for the next, whatever the nodes
\* answer and whoever else takes its nonces.
RequestsAdvance == [][\A q \in Requests : Rests(q) \/ Forward(q)]_vars

\* The retry after a refused nonce cannot loop, and no error path comes back to a target.
THEOREM RequestsTerminate == Spec => RequestsAdvance
<1>1. Init => RefetchIsFirst
  BY DEF Init, RefetchIsFirst
<1>2. Inv /\ RefetchIsFirst /\ [Next]_vars => RefetchIsFirst'
  BY RequestsGoForward
<1>3. Inv /\ RefetchIsFirst /\ [Next]_vars
        => [\A q \in Requests : Rests(q) \/ Forward(q)]_vars
  BY RequestsGoForward
<1> QED
  BY <1>1, <1>2, <1>3, InvHolds, PTL DEF Spec, RequestsAdvance

=============================================================================
