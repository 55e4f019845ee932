--------------------------- MODULE ConsoleProofs ---------------------------
(***************************************************************************)
(* Proofs about module Console, for any workers, addresses, tiers, coins   *)
(* and bounds: its types, the two memories that follow what is stored, the *)
(* age of the prices, and that valid tiers leave no amount without a tier  *)
(* or with two.                                                            *)
(***************************************************************************)
EXTENDS Console, FiniteSetTheorems, TLAPS

\* While nothing changed the list twice at once or by half: one change at a time, and one
\* that has read the table will install it.
ListOK ==
    "list" \notin lapsed =>
        /\ \A v, w \in Workers : pc[v] \in Changing /\ pc[w] \in Changing => v = w
        /\ \A w \in Workers : pc[w] = "replace list" => loc[w].ips = table
        /\ up /\ (\A w \in Workers : pc[w] \notin Changing) => allowlist = table

Writing == {"write", "reload"}

\* The same of the file: one writer at a time, and one that has written will install it.
FileOK ==
    "tiers" \notin lapsed =>
        /\ \A v, w \in Workers : pc[v] \in Writing /\ pc[w] \in Writing => v = w
        /\ \A w \in Workers : pc[w] = "write" => file = <<>>
        /\ \A w \in Workers : pc[w] = "reload" => file = loc[w].tiers
        /\ up /\ (\A w \in Workers : pc[w] \notin Writing) => tiers = file

InCall == {"fetch", "store", "fallback"}

\* A call is not older than its timeout, and an answer not older than its call.
CallOK(w) ==
    /\ pc[w] \in InCall => loc[w].began <= now /\ now - loc[w].began <= FetchTimeout
    /\ pc[w] = "fallback" => loc[w].failed
    /\ pc[w] = "store" => loc[w].began <= loc[w].answer.asOf /\ loc[w].answer.asOf <= now

AgeOK(w) == loc[w].age < FetchTimeout + IF loc[w].failed THEN StaleTolerance ELSE CacheDuration

\* A stored answer was given at most FetchTimeout before.
CacheOK == cache.asOf <= cachedAt /\ cachedAt - cache.asOf <= FetchTimeout /\ cachedAt <= now

PriceOK == CacheOK /\ \A w \in Workers : CallOK(w) /\ AgeOK(w)

\* What is being stored was found valid, and a process that is down does nothing.
WorkersOK ==
    /\ \A w \in Workers : pc[w] \in Updating => ValidateTiers(loc[w].tiers)
    /\ ~up => \A w \in Workers : pc[w] = "idle"

Inv == TypeOK /\ WorkersOK /\ ListOK /\ FileOK /\ PriceOK

-----------------------------------------------------------------------------
(* Locals *)

\* The locals of an idle worker are locals.
LEMMA NoLocalsType == NoLocals \in Locals
<1>1. (CHOOSE c \in Coins : TRUE) \in Coins
  BY PriceAssumption
<1> QED
  BY <1>1 DEF NoLocals, Locals, NoAnswer, Answer

\* A step of worker w that goes somewhere with new locals keeps the types of all.
LEMMA Moves ==
  ASSUME TypeOK, NEW w \in Workers, NEW next \in PC, NEW locals \in Locals,
         GotoWith(w, next, locals)
  PROVE  /\ pc' \in [Workers -> PC] /\ loc' \in [Workers -> Locals]
         /\ pc'[w] = next /\ loc'[w] = locals
         /\ \A v \in Workers \ {w} : pc'[v] = pc[v] /\ loc'[v] = loc[v]
BY DEF TypeOK, GotoWith, Goto

\* One that only goes somewhere.
LEMMA Goes ==
  ASSUME TypeOK, NEW w \in Workers, NEW next \in PC, Goto(w, next), UNCHANGED loc
  PROVE  /\ pc' \in [Workers -> PC] /\ loc' \in [Workers -> Locals]
         /\ pc'[w] = next
         /\ \A v \in Workers \ {w} : pc'[v] = pc[v]
BY DEF TypeOK, Goto

\* The types of the locals, one by one.
LEMMA Fields ==
  ASSUME NEW l \in Locals
  PROVE  /\ l.ips \subseteq IPs /\ l.tiers \in TierInputs \cup {<<>>} /\ l.coin \in Coins
         /\ l.attempt \in Nat /\ l.began \in Nat /\ l.failed \in BOOLEAN
         /\ l.answer \in Answer /\ l.age \in Nat
BY DEF Locals

\* The updates of the locals that the steps make.
LEMMA Updates ==
  ASSUME NEW l \in Locals
  PROVE  /\ \A x \in SUBSET IPs : [l EXCEPT !.ips = x] \in Locals
         /\ \A x \in TierInputs : [l EXCEPT !.tiers = x] \in Locals
         /\ \A x \in Coins : [l EXCEPT !.coin = x] \in Locals
         /\ [l EXCEPT !.attempt = @ + 1] \in Locals
         /\ \A x \in Nat : [l EXCEPT !.began = x] \in Locals
         /\ \A x \in Answer : [l EXCEPT !.answer = x] \in Locals
         /\ [l EXCEPT !.failed = TRUE] \in Locals
         /\ \A x \in Nat, b \in BOOLEAN : [l EXCEPT !.age = x, !.failed = b] \in Locals
<1>1. \A x \in SUBSET IPs : [l EXCEPT !.ips = x] \in Locals  BY DEF Locals
<1>2. \A x \in TierInputs : [l EXCEPT !.tiers = x] \in Locals  BY DEF Locals
<1>3. \A x \in Coins : [l EXCEPT !.coin = x] \in Locals  BY DEF Locals
<1>4. [l EXCEPT !.attempt = @ + 1] \in Locals  BY DEF Locals
<1>5. \A x \in Nat : [l EXCEPT !.began = x] \in Locals  BY DEF Locals
<1>6. \A x \in Answer : [l EXCEPT !.answer = x] \in Locals  BY DEF Locals
<1>7. [l EXCEPT !.failed = TRUE] \in Locals  BY DEF Locals
<1>8. \A x \in Nat, b \in BOOLEAN : [l EXCEPT !.age = x, !.failed = b] \in Locals  BY DEF Locals
<1> QED
  BY <1>1, <1>2, <1>3, <1>4, <1>5, <1>6, <1>7, <1>8

-----------------------------------------------------------------------------
(* Bounds *)

\* The counts stay within their bounds.
LEMMA WorkStays ==
  ASSUME TypeOK, NewWork \/ UNCHANGED work
  PROVE  work' \in 0 .. MaxWork
<1>1. MaxWork \in Nat
  BY ConsoleAssumption
<1>2. work \in 0 .. MaxWork
  BY DEF TypeOK
<1>3. (work < MaxWork /\ work' = work + 1) \/ work' = work
  BY DEF NewWork
<1> QED
  BY ONLY <1>1, <1>2, <1>3, SMT

\* A fault is counted up to the bound.
LEMMA FaultsStay ==
  ASSUME TypeOK, Fault \/ UNCHANGED faults
  PROVE  faults' \in 0 .. MaxFaults
<1>1. MaxFaults \in Nat
  BY ConsoleAssumption
<1>2. faults \in 0 .. MaxFaults
  BY DEF TypeOK
<1>3. (faults < MaxFaults /\ faults' = faults + 1) \/ faults' = faults
  BY DEF Fault
<1> QED
  BY ONLY <1>1, <1>2, <1>3, SMT

\* The types after a step at an unchanged time, from those of what it changes.
LEMMA TypeFrame ==
  ASSUME TypeOK, pc' \in [Workers -> PC], loc' \in [Workers -> Locals],
         UNCHANGED <<up, now>>, NewWork \/ UNCHANGED work, Fault \/ UNCHANGED faults,
         table' \subseteq IPs, allowlist' \subseteq IPs,
         file' \in TierInputs \cup {DefaultTiers, <<>>}, ValidateTiers(tiers'),
         lapsed' \subseteq {"list", "tiers"},
         cache' \in Answer, cachedAt' \in 0 .. now, stale' \in BOOLEAN
  PROVE  TypeOK'
<1>1. up' \in BOOLEAN
  BY DEF TypeOK
<1>2. work' \in 0 .. MaxWork /\ faults' \in 0 .. MaxFaults
  BY WorkStays, FaultsStay
<1>3. cachedAt' \in 0 .. now' /\ now' \in 0 .. MaxTime
  BY DEF TypeOK
<1> QED
  BY <1>1, <1>2, <1>3 DEF TypeOK

\* The same for a step that leaves the prices alone.
LEMMA TypeFrameUnpriced ==
  ASSUME TypeOK, pc' \in [Workers -> PC], loc' \in [Workers -> Locals],
         UNCHANGED <<up, now, priceVars>>, NewWork \/ UNCHANGED work, Fault \/ UNCHANGED faults,
         table' \subseteq IPs, allowlist' \subseteq IPs,
         file' \in TierInputs \cup {DefaultTiers, <<>>}, ValidateTiers(tiers'),
         lapsed' \subseteq {"list", "tiers"}
  PROVE  TypeOK'
<1>1. cache' \in Answer /\ cachedAt' \in 0 .. now
  BY DEF TypeOK, priceVars
<1>2. stale' \in BOOLEAN
  <2>1. stale' = stale  BY DEF priceVars
  <2> QED  BY <2>1 DEF TypeOK
<1> QED
  BY <1>1, <1>2, TypeFrame

-----------------------------------------------------------------------------
(* Frames: what a step of worker w keeps *)

\* Everybody but w stays where it is.
Only(w) == \A v \in Workers \ {w} : pc'[v] = pc[v] /\ loc'[v] = loc[v]

\* A step of a worker outside the changes of the allowlist leaves its invariant alone.
LEMMA ListFrame ==
  ASSUME ListOK, NEW w \in Workers, Only(w), UNCHANGED <<up, table, allowlist>>,
         "list" \in lapsed => "list" \in lapsed',
         pc[w] \notin Changing, pc'[w] \notin Changing
  PROVE  ListOK'
BY DEF ListOK, Only, Changing

\* A step of a worker outside the updates of the tiers leaves their invariant alone.
LEMMA FileFrame ==
  ASSUME FileOK, NEW w \in Workers, Only(w), UNCHANGED <<up, file, tiers>>,
         "tiers" \in lapsed => "tiers" \in lapsed',
         pc[w] \notin Writing, pc'[w] \notin Writing
  PROVE  FileOK'
BY DEF FileOK, Only, Writing

\* A step of a worker outside a price call leaves the invariant of the cache alone.
LEMMA PriceFrame ==
  ASSUME PriceOK, NEW w \in Workers, Only(w), UNCHANGED <<cache, cachedAt, now>>,
         pc'[w] \notin InCall, AgeOK(w)'
  PROVE  PriceOK'
BY DEF PriceOK, CacheOK, CallOK, AgeOK, Only, InCall

\* A step of a worker of a running process leaves the others as they are.
LEMMA WorkersFrame ==
  ASSUME WorkersOK, NEW w \in Workers, Only(w), up, up' = up,
         pc'[w] \in Updating => ValidateTiers(loc'[w].tiers)
  PROVE  WorkersOK'
BY DEF WorkersOK, Only

\* A worker that is not idle belongs to a process that is up.
LEMMA BusyIsUp ==
  ASSUME WorkersOK, NEW w \in Workers, pc[w] # "idle"
  PROVE  up
BY DEF WorkersOK

\* Locals that begin anew are of no age.
LEMMA NewAge ==
  /\ NoLocals.age = 0
  /\ \A c \in Coins : [NoLocals EXCEPT !.coin = c].age = 0
  /\ \A t \in TierInputs : [NoLocals EXCEPT !.tiers = t].age = 0
BY DEF NoLocals

\* So they say nothing of a stale answer.
LEMMA YoungIsOK ==
  ASSUME NEW w \in Workers, loc'[w].age = 0
  PROVE  AgeOK(w)'
BY PriceAssumption DEF AgeOK

-----------------------------------------------------------------------------
(* The allowlist *)

\* A change of the table by one worker: what the others read is overtaken, or there is none.
LEMMA ChangedInv ==
  ASSUME Inv, NEW w \in Workers, pc[w] = "idle", NewWork, Changed(w),
         NEW ip \in IPs, AddIP(ip) \/ RemoveIP(ip)
  PROVE  Inv'
<1>1. /\ pc' \in [Workers -> PC] /\ loc' \in [Workers -> Locals]
      /\ pc'[w] = "refresh list" /\ loc'[w] = NoLocals /\ Only(w)
  <2>1. "refresh list" \in PC  BY DEF PC
  <2> QED  BY <2>1, Moves, NoLocalsType DEF Changed, Inv, Only
<1>2. TypeOK'
  <2>1. table' \subseteq IPs /\ lapsed' \subseteq {"list", "tiers"}
    BY DEF Inv, TypeOK, Changed, AddIP, RemoveIP
  <2>2. /\ allowlist' \subseteq IPs /\ ValidateTiers(tiers')
        /\ file' \in TierInputs \cup {DefaultTiers, <<>>}
    BY DEF Inv, TypeOK, Changed
  <2> QED
    BY <1>1, <2>1, <2>2, TypeFrameUnpriced DEF Inv, Changed
<1>3. WorkersOK'
  BY <1>1, WorkersFrame DEF Inv, Changed, NewWork, Updating
<1>4. ListOK'
  BY <1>1 DEF Inv, ListOK, Changed, Changing, Only, Others
<1>5. FileOK'
  BY <1>1, FileFrame DEF Inv, Changed, Writing
<1>6. PriceOK'
  <2>1. AgeOK(w)'  BY <1>1, NewAge, YoungIsOK
  <2> QED  BY <1>1, <2>1, PriceFrame DEF Inv, Changed, InCall, priceVars
<1> QED
  BY <1>2, <1>3, <1>4, <1>5, <1>6 DEF Inv

\* The table is read to be installed, or the load fails and the list has lapsed.
LEMMA LoadAllIPsInv ==
  ASSUME Inv, NEW w \in Workers, LoadAllIPs(w)
  PROVE  Inv'
<1>. DEFINE read == [loc[w] EXCEPT !.ips = table]
<1>1. /\ up /\ loc[w] \in Locals /\ read \in Locals /\ read.ips = table
      /\ read.age = loc[w].age /\ read.failed = loc[w].failed
  BY BusyIsUp, Updates DEF Inv, TypeOK, LoadAllIPs, Locals
<1>. HIDE DEF read
<1>2. /\ pc' \in [Workers -> PC] /\ loc' \in [Workers -> Locals] /\ Only(w)
      /\ \/ pc'[w] = "replace list" /\ loc'[w] = read /\ UNCHANGED lapsed
         \/ pc'[w] = "idle" /\ loc'[w] = NoLocals /\ lapsed' = lapsed \cup {"list"}
  <2>1. {"replace list", "idle"} \subseteq PC  BY DEF PC
  <2> QED  BY <1>1, <2>1, Moves, NoLocalsType DEF LoadAllIPs, Done, Inv, Only, read
<1>3. TypeOK'
  <2>1. lapsed' \subseteq {"list", "tiers"}
    BY <1>2 DEF Inv, TypeOK
  <2>2. /\ table' \subseteq IPs /\ allowlist' \subseteq IPs /\ ValidateTiers(tiers')
        /\ file' \in TierInputs \cup {DefaultTiers, <<>>}
    BY DEF Inv, TypeOK, LoadAllIPs, storedVars
  <2> QED
    BY <1>2, <2>1, <2>2, TypeFrameUnpriced DEF Inv, LoadAllIPs
<1>4. WorkersOK'
  BY <1>1, <1>2, WorkersFrame DEF Inv, LoadAllIPs, Updating
<1>5. ListOK'
  BY <1>1, <1>2 DEF Inv, ListOK, LoadAllIPs, Changing, Only, storedVars
<1>6. FileOK'
  BY <1>2, FileFrame DEF Inv, LoadAllIPs, Writing, storedVars
<1>7. PriceOK'
  <2>1. AgeOK(w)'  BY <1>1, <1>2, NewAge, YoungIsOK DEF Inv, PriceOK, AgeOK
  <2> QED  BY <1>2, <2>1, PriceFrame DEF Inv, LoadAllIPs, InCall, priceVars
<1> QED
  BY <1>3, <1>4, <1>5, <1>6, <1>7 DEF Inv

\* What was read replaces the list.
LEMMA RefreshInv ==
  ASSUME Inv, NEW w \in Workers, Refresh(w)
  PROVE  Inv'
<1>1. /\ pc' \in [Workers -> PC] /\ loc' \in [Workers -> Locals]
      /\ pc'[w] = "idle" /\ loc'[w] = NoLocals /\ Only(w) /\ up /\ up' = up
  <2>1. "idle" \in PC  BY DEF PC
  <2> QED  BY <2>1, Moves, NoLocalsType, BusyIsUp DEF Refresh, Done, Inv, Only
<1>2. TypeOK'
  <2>1. loc[w].ips \subseteq IPs
    BY Fields DEF Inv, TypeOK
  <2>2. /\ table' \subseteq IPs /\ allowlist' \subseteq IPs /\ ValidateTiers(tiers')
        /\ file' \in TierInputs \cup {DefaultTiers, <<>>} /\ lapsed' \subseteq {"list", "tiers"}
    BY <2>1 DEF Inv, TypeOK, Refresh, storedVars
  <2> QED  BY <1>1, <2>2, TypeFrameUnpriced DEF Inv, Refresh, boundVars
<1>3. WorkersOK'
  BY <1>1, WorkersFrame DEF Inv, Updating
<1>4. ListOK'
  BY <1>1 DEF Inv, ListOK, Refresh, Changing, Only, storedVars
<1>5. FileOK'
  BY <1>1, FileFrame DEF Inv, Refresh, Writing, storedVars
<1>6. PriceOK'
  <2>1. AgeOK(w)'  BY <1>1, NewAge, YoungIsOK
  <2> QED  BY <1>1, <2>1, PriceFrame DEF Inv, Refresh, InCall, priceVars, boundVars
<1> QED
  BY <1>2, <1>3, <1>4, <1>5, <1>6 DEF Inv

-----------------------------------------------------------------------------
(* The tiers *)

\* An update that is not valid changes nothing; a valid one goes to the file.
LEMMA PutTiersInv ==
  ASSUME Inv, NEW w \in Workers, PutTiers(w)
  PROVE  Inv'
<1>1. PICK input \in TierInputs :
         IF ValidateTiers(input)
         THEN GotoWith(w, "truncate", [NoLocals EXCEPT !.tiers = input])
         ELSE UNCHANGED <<pc, loc>>
  BY DEF PutTiers
<1>. DEFINE put == [NoLocals EXCEPT !.tiers = input]
<1>2. put \in Locals /\ put.tiers = input /\ put.age = 0
  BY NoLocalsType, Updates, NewAge DEF NoLocals
<1>. HIDE DEF put
<1>3. /\ pc' \in [Workers -> PC] /\ loc' \in [Workers -> Locals] /\ Only(w)
      /\ \/ pc'[w] = "truncate" /\ loc'[w] = put /\ ValidateTiers(input)
         \/ pc'[w] = "idle" /\ loc'[w] = loc[w]
  <2>1. "truncate" \in PC  BY DEF PC
  <2>2. CASE ValidateTiers(input)
    BY <1>1, <1>2, <2>1, <2>2, Moves DEF Inv, Only, put
  <2>3. CASE ~ValidateTiers(input)
    BY <1>1, <2>3 DEF Inv, TypeOK, Only, PutTiers
  <2> QED  BY <2>2, <2>3
<1>4. TypeOK'
  <2>1. /\ table' \subseteq IPs /\ allowlist' \subseteq IPs /\ ValidateTiers(tiers')
        /\ file' \in TierInputs \cup {DefaultTiers, <<>>} /\ lapsed' \subseteq {"list", "tiers"}
    BY DEF Inv, TypeOK, PutTiers, storedVars, memoryVars
  <2> QED  BY <1>3, <2>1, TypeFrameUnpriced DEF Inv, PutTiers
<1>5. WorkersOK'
  BY <1>2, <1>3, WorkersFrame DEF Inv, PutTiers, NewWork, Updating
<1>6. ListOK'
  BY <1>3, ListFrame DEF Inv, PutTiers, Changing, storedVars, memoryVars
<1>7. FileOK'
  BY <1>3, FileFrame DEF Inv, PutTiers, Writing, storedVars, memoryVars
<1>8. PriceOK'
  <2>1. AgeOK(w)'  BY <1>2, <1>3, YoungIsOK DEF Inv, PriceOK, AgeOK
  <2> QED  BY <1>3, <2>1, PriceFrame DEF Inv, PutTiers, InCall, priceVars
<1> QED
  BY <1>4, <1>5, <1>6, <1>7, <1>8 DEF Inv

\* The file is emptied by a worker that is alone, or the tiers have lapsed.
LEMMA TruncateFileInv ==
  ASSUME Inv, NEW w \in Workers, TruncateFile(w)
  PROVE  Inv'
<1>1. /\ pc' \in [Workers -> PC] /\ loc' \in [Workers -> Locals] /\ Only(w) /\ up /\ up' = up
      /\ \/ pc'[w] = "write" /\ loc'[w] = loc[w] /\ file' = <<>>
         \/ pc'[w] = "idle" /\ loc'[w] = NoLocals /\ file' = file
  <2>1. {"write", "idle"} \subseteq PC  BY DEF PC
  <2>2. up /\ up' = up  BY BusyIsUp DEF Inv, TruncateFile
  <2>3. CASE file' = <<>> /\ Goto(w, "write") /\ UNCHANGED loc
    BY <2>1, <2>2, <2>3, Goes DEF Inv, TypeOK, Only
  <2>4. CASE Done(w) /\ UNCHANGED file
    BY <2>1, <2>2, <2>4, Moves, NoLocalsType DEF Done, Inv, Only
  <2> QED  BY <2>3, <2>4 DEF TruncateFile
<1>2. TypeOK'
  <2>1. /\ table' \subseteq IPs /\ allowlist' \subseteq IPs /\ ValidateTiers(tiers')
        /\ file' \in TierInputs \cup {DefaultTiers, <<>>} /\ lapsed' \subseteq {"list", "tiers"}
    BY <1>1 DEF Inv, TypeOK, TruncateFile
  <2> QED  BY <1>1, <2>1, TypeFrameUnpriced DEF Inv, TruncateFile
<1>3. WorkersOK'
  <2>1. ValidateTiers(loc[w].tiers)  BY DEF Inv, WorkersOK, TruncateFile, Updating
  <2> QED  BY <1>1, <2>1, WorkersFrame DEF Inv, Updating
<1>4. ListOK'
  BY <1>1, ListFrame DEF Inv, TruncateFile, Changing
<1>5. FileOK'
  BY <1>1 DEF Inv, FileOK, TruncateFile, Writing, Updating, Others, Only
<1>6. PriceOK'
  <2>1. AgeOK(w)'  BY <1>1, NewAge, YoungIsOK DEF Inv, PriceOK, AgeOK
  <2> QED  BY <1>1, <2>1, PriceFrame DEF Inv, TruncateFile, InCall, priceVars
<1> QED
  BY <1>2, <1>3, <1>4, <1>5, <1>6 DEF Inv

\* A writer that is alone finds the file empty, so what it writes is whole.
LEMMA WriteFileInv ==
  ASSUME Inv, NEW w \in Workers, WriteFile(w)
  PROVE  Inv'
<1>1. /\ pc' \in [Workers -> PC] /\ loc' \in [Workers -> Locals] /\ Only(w) /\ up /\ up' = up
      /\ \/ /\ pc'[w] = "reload" /\ loc'[w] = loc[w] /\ lapsed' = lapsed
            /\ file' = loc[w].tiers \/ (file # <<>> /\ file' = <<>>)
         \/ /\ pc'[w] = "idle" /\ loc'[w] = NoLocals /\ lapsed' = lapsed \cup {"tiers"}
            /\ file' = <<>>
  <2>1. {"reload", "idle"} \subseteq PC  BY DEF PC
  <2>2. up /\ up' = up  BY BusyIsUp DEF Inv, WriteFile
  <2>3. CASE /\ file' = loc[w].tiers \/ (file # <<>> /\ file' = <<>>)
             /\ Goto(w, "reload") /\ UNCHANGED <<loc, lapsed>>
    BY <2>1, <2>2, <2>3, Goes DEF Inv, TypeOK, Only
  <2>4. CASE Done(w) /\ file' = <<>> /\ lapsed' = lapsed \cup {"tiers"}
    BY <2>1, <2>2, <2>4, Moves, NoLocalsType DEF Done, Inv, Only
  <2> QED  BY <2>3, <2>4 DEF WriteFile
<1>2. TypeOK'
  <2>1. loc[w].tiers \in TierInputs \cup {<<>>}
    BY Fields DEF Inv, TypeOK
  <2>2. /\ table' \subseteq IPs /\ allowlist' \subseteq IPs /\ ValidateTiers(tiers')
        /\ file' \in TierInputs \cup {DefaultTiers, <<>>} /\ lapsed' \subseteq {"list", "tiers"}
    BY <1>1, <2>1 DEF Inv, TypeOK, WriteFile
  <2> QED  BY <1>1, <2>2, TypeFrameUnpriced DEF Inv, WriteFile
<1>3. WorkersOK'
  <2>1. ValidateTiers(loc[w].tiers)  BY DEF Inv, WorkersOK, WriteFile, Updating
  <2> QED  BY <1>1, <2>1, WorkersFrame DEF Inv, Updating
<1>4. ListOK'
  BY <1>1, ListFrame DEF Inv, WriteFile, Changing
<1>5. FileOK'
  BY <1>1 DEF Inv, FileOK, WriteFile, Writing, Only
<1>6. PriceOK'
  <2>1. AgeOK(w)'  BY <1>1, NewAge, YoungIsOK DEF Inv, PriceOK, AgeOK
  <2> QED  BY <1>1, <2>1, PriceFrame DEF Inv, WriteFile, InCall, priceVars
<1> QED
  BY <1>2, <1>3, <1>4, <1>5, <1>6 DEF Inv

\* The calculator takes the tiers that were found valid and written.
LEMMA ReloadInv ==
  ASSUME Inv, NEW w \in Workers, Reload(w)
  PROVE  Inv'
<1>1. /\ pc' \in [Workers -> PC] /\ loc' \in [Workers -> Locals]
      /\ pc'[w] = "idle" /\ loc'[w] = NoLocals /\ Only(w) /\ up /\ up' = up
  <2>1. "idle" \in PC  BY DEF PC
  <2> QED  BY <2>1, Moves, NoLocalsType, BusyIsUp DEF Reload, Done, Inv, Only
<1>2. TypeOK'
  <2>1. ValidateTiers(loc[w].tiers)  BY DEF Inv, WorkersOK, Reload, Updating
  <2>2. /\ table' \subseteq IPs /\ allowlist' \subseteq IPs /\ ValidateTiers(tiers')
        /\ file' \in TierInputs \cup {DefaultTiers, <<>>} /\ lapsed' \subseteq {"list", "tiers"}
    BY <2>1 DEF Inv, TypeOK, Reload, storedVars
  <2> QED  BY <1>1, <2>2, TypeFrameUnpriced DEF Inv, Reload, boundVars
<1>3. WorkersOK'
  BY <1>1, WorkersFrame DEF Inv, Updating
<1>4. ListOK'
  BY <1>1, ListFrame DEF Inv, Reload, Changing, storedVars
<1>5. FileOK'
  BY <1>1 DEF Inv, FileOK, Reload, Writing, Only, storedVars
<1>6. PriceOK'
  <2>1. AgeOK(w)'  BY <1>1, NewAge, YoungIsOK
  <2> QED  BY <1>1, <2>1, PriceFrame DEF Inv, Reload, InCall, priceVars, boundVars
<1> QED
  BY <1>2, <1>3, <1>4, <1>5, <1>6 DEF Inv

-----------------------------------------------------------------------------
(* Prices *)

\* A step that looks at an answer to price by: the price it takes is as recent as the answer.
LEMMA UsesOK ==
  ASSUME TypeOK, NEW w \in Workers, AgeOK(w), NEW answer \in Answer, Uses(w, answer),
         loc[w].coin \in answer.coins =>
            /\ answer.asOf <= now
            /\ now - answer.asOf < FetchTimeout + IF loc[w].failed THEN StaleTolerance ELSE CacheDuration
  PROVE  /\ pc' \in [Workers -> PC] /\ loc' \in [Workers -> Locals] /\ Only(w)
         /\ pc'[w] \in {"idle", "pause"} /\ AgeOK(w)'
<1>1. {"idle", "pause"} \subseteq PC
  BY DEF PC
<1>2. loc[w] \in Locals /\ loc[w].failed \in BOOLEAN
  BY DEF TypeOK, Locals
<1>. DEFINE priced == [NoLocals EXCEPT !.age = now - answer.asOf, !.failed = loc[w].failed]
<1>3. CASE loc[w].coin \in answer.coins
  <2>1. now - answer.asOf \in Nat
    BY <1>3 DEF TypeOK, Answer
  <2>2. priced \in Locals
    BY <1>2, <2>1, NoLocalsType, Updates
  <2>3. priced.age = now - answer.asOf /\ priced.failed = loc[w].failed
    BY DEF NoLocals
  <2>4. GotoWith(w, "idle", priced)
    BY <1>3 DEF Uses
  <2>. HIDE DEF priced
  <2>5. /\ pc' \in [Workers -> PC] /\ loc' \in [Workers -> Locals] /\ Only(w)
        /\ pc'[w] = "idle" /\ loc'[w] = priced
    BY <1>1, <2>2, <2>4, Moves DEF Only
  <2>6. AgeOK(w)'
    BY <1>3, <2>3, <2>5 DEF AgeOK
  <2> QED  BY <2>5, <2>6
<1>4. CASE loc[w].coin \notin answer.coins /\ Goto(w, "pause") /\ UNCHANGED loc
  BY <1>1, <1>4, Goes DEF Only, AgeOK
<1>5. CASE loc[w].coin \notin answer.coins /\ Done(w)
  <2>1. /\ pc' \in [Workers -> PC] /\ loc' \in [Workers -> Locals] /\ Only(w)
        /\ pc'[w] = "idle" /\ loc'[w] = NoLocals
    BY <1>1, <1>5, Moves, NoLocalsType DEF Done, Only
  <2> QED  BY <2>1, NewAge, YoungIsOK
<1> QED
  BY <1>3, <1>4, <1>5 DEF Uses

\* A step of a pricing worker keeps what the other parts of the invariant say.
LEMMA PricingInv ==
  ASSUME Inv, NEW w \in Workers, pc[w] \notin Changing, pc[w] \notin Writing,
         pc' \in [Workers -> PC], loc' \in [Workers -> Locals], Only(w), up,
         pc'[w] \in {"idle", "prices", "fetch", "store", "fallback", "pause"},
         UNCHANGED <<up, memoryVars, storedVars, now>>,
         NewWork \/ UNCHANGED work, Fault \/ UNCHANGED faults,
         cache' \in Answer, cachedAt' \in 0 .. now, stale' \in BOOLEAN, PriceOK'
  PROVE  Inv'
<1>1. TypeOK'
  <2>1. /\ table' \subseteq IPs /\ allowlist' \subseteq IPs /\ ValidateTiers(tiers')
        /\ file' \in TierInputs \cup {DefaultTiers, <<>>} /\ lapsed' \subseteq {"list", "tiers"}
    BY DEF Inv, TypeOK, memoryVars, storedVars
  <2> QED  BY <2>1, TypeFrame DEF Inv
<1>2. WorkersOK'
  BY WorkersFrame DEF Inv, Updating
<1>3. ListOK'
  BY ListFrame DEF Inv, Changing, memoryVars, storedVars
<1>4. FileOK'
  BY FileFrame DEF Inv, Writing, memoryVars, storedVars
<1> QED
  BY <1>1, <1>2, <1>3, <1>4 DEF Inv

\* Prices that a step leaves alone keep their types.
LEMMA SamePrices ==
  ASSUME TypeOK, UNCHANGED priceVars
  PROVE  cache' \in Answer /\ cachedAt' \in 0 .. now /\ stale' \in BOOLEAN
<1>1. cache' \in Answer /\ cachedAt' \in 0 .. now
  BY DEF TypeOK, priceVars
<1>2. stale' = stale
  BY DEF priceVars
<1> QED
  BY <1>1, <1>2 DEF TypeOK

\* A payment begins to be priced.
LEMMA GetTokenPriceInv ==
  ASSUME Inv, NEW w \in Workers, GetTokenPrice(w)
  PROVE  Inv'
<1>1. PICK coin \in Priced : GotoWith(w, "prices", [NoLocals EXCEPT !.coin = coin])
  BY DEF GetTokenPrice
<1>. DEFINE begun == [NoLocals EXCEPT !.coin = coin]
<1>2. begun \in Locals /\ begun.age = 0
  BY ConsoleAssumption, NoLocalsType, Updates, NewAge
<1>. HIDE DEF begun
<1>3. /\ pc' \in [Workers -> PC] /\ loc' \in [Workers -> Locals] /\ Only(w)
      /\ pc'[w] = "prices" /\ loc'[w] = begun
  <2>1. "prices" \in PC  BY DEF PC
  <2> QED  BY <1>1, <1>2, <2>1, Moves DEF Inv, Only, begun
<1>4. PriceOK'
  <2>1. AgeOK(w)'  BY <1>2, <1>3, YoungIsOK
  <2> QED  BY <1>3, <2>1, PriceFrame DEF Inv, GetTokenPrice, InCall, priceVars
<1> QED
  BY <1>3, <1>4, SamePrices, PricingInv DEF Inv, GetTokenPrice, NewWork, Changing, Writing

\* A cache within its duration prices, or a fetch begins.
LEMMA ReadCacheInv ==
  ASSUME Inv, NEW w \in Workers, ReadCache(w)
  PROVE  Inv'
<1>. DEFINE asking == [loc[w] EXCEPT !.began = now]
<1>1. /\ asking \in Locals /\ asking.began = now /\ asking.age = loc[w].age
      /\ asking.failed = loc[w].failed
  <2>1. loc[w] \in Locals /\ now \in Nat
    BY DEF Inv, TypeOK
  <2>2. asking \in Locals
    BY <2>1, Updates
  <2> QED  BY <2>1, <2>2 DEF Locals
<1>. HIDE DEF asking
<1>2. /\ pc' \in [Workers -> PC] /\ loc' \in [Workers -> Locals] /\ Only(w) /\ AgeOK(w)'
      /\ \/ pc'[w] \in {"idle", "pause"}
         \/ pc'[w] = "fetch" /\ loc'[w] = asking
  <2>1. CASE CacheHit(now)
    <3>1. cache.asOf <= now /\ now - cache.asOf < FetchTimeout + CacheDuration
      BY <2>1, PriceAssumption DEF Inv, TypeOK, PriceOK, CacheOK, CacheHit, Answer
    <3>2. now - cache.asOf < FetchTimeout + StaleTolerance
      BY <3>1, PriceAssumption DEF Inv, TypeOK, Answer
    <3> QED  BY <2>1, <3>1, <3>2, UsesOK DEF Inv, TypeOK, PriceOK, ReadCache
  <2>2. CASE ~CacheHit(now)
    <3>1. "fetch" \in PC  BY DEF PC
    <3> QED  BY <1>1, <2>2, <3>1, Moves DEF Inv, PriceOK, AgeOK, ReadCache, Only, asking
  <2> QED  BY <2>1, <2>2
<1>3. PriceOK'
  <2>1. CallOK(w)'
    BY <1>1, <1>2, PriceAssumption DEF Inv, TypeOK, CallOK, InCall, ReadCache, boundVars
  <2>2. \A v \in Workers \ {w} : CallOK(v)' /\ AgeOK(v)'
    BY <1>2 DEF Inv, PriceOK, CallOK, AgeOK, Only, ReadCache, boundVars
  <2>3. CacheOK'
    BY DEF Inv, PriceOK, CacheOK, ReadCache, priceVars, boundVars
  <2> QED  BY <1>2, <2>1, <2>2, <2>3 DEF PriceOK
<1> QED
  BY <1>2, <1>3, SamePrices, PricingInv, BusyIsUp DEF Inv, ReadCache, boundVars, Changing, Writing

\* An answer is of the moment it is given; a failed fetch is remembered.
LEMMA FetchPricesInv ==
  ASSUME Inv, NEW w \in Workers, FetchPrices(w)
  PROVE  Inv'
<1>1. loc[w] \in Locals /\ now \in Nat
  BY DEF Inv, TypeOK
<1>2. \E locals \in Locals :
        /\ locals.age = loc[w].age /\ locals.began = loc[w].began
        /\ \/ /\ GotoWith(w, "store", locals)
              /\ locals.failed = loc[w].failed /\ locals.answer.asOf = now
           \/ GotoWith(w, "fallback", locals) /\ locals.failed = TRUE
  <2>1. ASSUME NEW coins \in SUBSET Coins,
               GotoWith(w, "store", [loc[w] EXCEPT !.answer = [coins |-> coins, asOf |-> now]])
        PROVE  \E locals \in Locals :
                 /\ locals.age = loc[w].age /\ locals.began = loc[w].began
                 /\ GotoWith(w, "store", locals)
                 /\ locals.failed = loc[w].failed /\ locals.answer.asOf = now
    <3>. DEFINE answer == [coins |-> coins, asOf |-> now]
                locals == [loc[w] EXCEPT !.answer = answer]
    <3>1. answer \in Answer /\ answer.asOf = now
      BY <1>1 DEF Answer
    <3>2. GotoWith(w, "store", locals)
      BY <2>1
    <3>. HIDE DEF answer
    <3>3. /\ locals \in Locals /\ locals.age = loc[w].age /\ locals.began = loc[w].began
          /\ locals.failed = loc[w].failed /\ locals.answer = answer
      BY <1>1, <3>1, Updates DEF Locals
    <3>. HIDE DEF locals
    <3> QED  BY <3>1, <3>2, <3>3
  <2>2. ASSUME GotoWith(w, "fallback", [loc[w] EXCEPT !.failed = TRUE])
        PROVE  \E locals \in Locals :
                 /\ locals.age = loc[w].age /\ locals.began = loc[w].began
                 /\ GotoWith(w, "fallback", locals) /\ locals.failed = TRUE
    <3>. DEFINE locals == [loc[w] EXCEPT !.failed = TRUE]
    <3>1. /\ locals \in Locals /\ locals.age = loc[w].age /\ locals.began = loc[w].began
          /\ locals.failed = TRUE
      BY <1>1, Updates DEF Locals
    <3>2. GotoWith(w, "fallback", locals)
      BY <2>2
    <3>. HIDE DEF locals
    <3> QED  BY <3>1, <3>2
  <2> QED  BY <2>1, <2>2 DEF FetchPrices
<1>3. PICK locals \in Locals :
        /\ locals.age = loc[w].age /\ locals.began = loc[w].began
        /\ \/ /\ GotoWith(w, "store", locals)
              /\ locals.failed = loc[w].failed /\ locals.answer.asOf = now
           \/ GotoWith(w, "fallback", locals) /\ locals.failed = TRUE
  BY <1>2
<1>4. /\ pc' \in [Workers -> PC] /\ loc' \in [Workers -> Locals] /\ Only(w)
      /\ loc'[w] = locals /\ pc'[w] \in {"store", "fallback"}
      /\ pc'[w] = "store" => locals.failed = loc[w].failed /\ locals.answer.asOf = now
      /\ pc'[w] = "fallback" => locals.failed
  <2>1. {"store", "fallback"} \subseteq PC  BY DEF PC
  <2> QED  BY <1>3, <2>1, Moves DEF Inv, Only
<1>5. loc[w].began <= now /\ now - loc[w].began <= FetchTimeout /\ now' = now /\ loc[w].began \in Nat
  BY Fields DEF Inv, TypeOK, PriceOK, CallOK, InCall, FetchPrices
<1>6. PriceOK'
  <2>1. CallOK(w)'
    BY <1>1, <1>3, <1>4, <1>5 DEF CallOK, InCall
  <2>2. AgeOK(w)'
    <3>1. loc[w].age \in Nat  BY <1>1, Fields
    <3>2. AgeOK(w)  BY DEF Inv, PriceOK
    <3>3. CASE pc'[w] = "store"
      BY <1>3, <1>4, <3>2, <3>3 DEF AgeOK
    <3>4. CASE pc'[w] = "fallback"
      BY <1>3, <1>4, <3>1, <3>2, <3>4, PriceAssumption DEF AgeOK
    <3> QED  BY <1>4, <3>3, <3>4
  <2>3. \A v \in Workers \ {w} : CallOK(v)' /\ AgeOK(v)'
    BY <1>4 DEF Inv, PriceOK, CallOK, AgeOK, Only, FetchPrices
  <2>4. CacheOK'
    BY DEF Inv, PriceOK, CacheOK, FetchPrices, priceVars
  <2> QED  BY <2>1, <2>2, <2>3, <2>4 DEF PriceOK
<1>7. /\ up /\ UNCHANGED <<up, memoryVars, storedVars, now, work>>
      /\ Fault \/ UNCHANGED faults
      /\ pc[w] \notin Changing /\ pc[w] \notin Writing
      /\ UNCHANGED priceVars
  BY BusyIsUp DEF Inv, FetchPrices, Changing, Writing
<1> QED
  BY <1>4, <1>6, <1>7, SamePrices, PricingInv DEF Inv

\* The answer that replaces the cache was given during the call that stores it.
LEMMA StorePricesInv ==
  ASSUME Inv, NEW w \in Workers, StorePrices(w)
  PROVE  Inv'
<1>1. /\ loc[w].answer \in Answer /\ loc[w].began \in Nat /\ now \in Nat
      /\ loc[w].answer.asOf \in Nat
  BY Fields DEF Inv, TypeOK, Answer
<1>2. /\ loc[w].answer.asOf <= now /\ now - loc[w].answer.asOf <= FetchTimeout
  BY <1>1, PriceAssumption DEF Inv, PriceOK, CallOK, InCall, StorePrices
<1>3. /\ now - loc[w].answer.asOf < FetchTimeout + StaleTolerance
      /\ now - loc[w].answer.asOf < FetchTimeout + CacheDuration
  BY <1>1, <1>2, PriceAssumption
<1>4. AgeOK(w) /\ Uses(w, loc[w].answer)
  BY DEF Inv, PriceOK, StorePrices
<1>5. /\ pc' \in [Workers -> PC] /\ loc' \in [Workers -> Locals] /\ Only(w)
      /\ pc'[w] \in {"idle", "pause"} /\ AgeOK(w)'
  <2>1. now - loc[w].answer.asOf < FetchTimeout + IF loc[w].failed THEN StaleTolerance ELSE CacheDuration
    BY <1>3
  <2> QED  BY <1>1, <1>2, <1>4, <2>1, UsesOK DEF Inv
<1>6. /\ cache' = loc[w].answer /\ cachedAt' = now /\ now' = now
      /\ cache' \in Answer /\ cachedAt' \in 0 .. now
  BY <1>1 DEF StorePrices, Store, boundVars
<1>7. stale' \in BOOLEAN
  BY DEF StorePrices, Store
<1>8. PriceOK'
  <2>1. CallOK(w)'
    BY <1>5 DEF CallOK, InCall
  <2>2. \A v \in Workers \ {w} : CallOK(v)' /\ AgeOK(v)'
    BY <1>5, <1>6 DEF Inv, PriceOK, CallOK, AgeOK, Only
  <2>3. CacheOK'
    BY <1>1, <1>2, <1>6 DEF CacheOK
  <2> QED  BY <1>5, <2>1, <2>2, <2>3 DEF PriceOK
<1>9. /\ up /\ UNCHANGED <<up, memoryVars, storedVars, now, work, faults>>
      /\ pc[w] \notin Changing /\ pc[w] \notin Writing
  BY BusyIsUp DEF Inv, StorePrices, Changing, Writing, boundVars
<1> QED
  BY <1>5, <1>6, <1>7, <1>8, <1>9, PricingInv

\* A failed fetch is answered by a cache within the tolerance, or not at all.
LEMMA FallBackInv ==
  ASSUME Inv, NEW w \in Workers, FallBack(w)
  PROVE  Inv'
<1>1. loc[w].failed /\ AgeOK(w) /\ now' = now
  BY DEF Inv, PriceOK, CallOK, FallBack, boundVars
<1>2. /\ pc' \in [Workers -> PC] /\ loc' \in [Workers -> Locals] /\ Only(w)
      /\ pc'[w] \in {"idle", "pause"} /\ AgeOK(w)'
  <2>1. CASE StaleHit(now)
    <3>1. cache \in Answer /\ cache.asOf <= now /\ now - cache.asOf < FetchTimeout + StaleTolerance
      BY <2>1, PriceAssumption DEF Inv, TypeOK, PriceOK, CacheOK, StaleHit, Answer
    <3>2. Uses(w, cache)
      BY <2>1 DEF FallBack
    <3> QED  BY <1>1, <3>1, <3>2, UsesOK DEF Inv
  <2>2. CASE ~StaleHit(now)
    <3>1. NoAnswer \in Answer /\ NoAnswer.coins = {}  BY DEF NoAnswer, Answer
    <3>2. Uses(w, NoAnswer)
      BY <2>2 DEF FallBack
    <3> QED  BY <1>1, <3>1, <3>2, UsesOK DEF Inv
  <2> QED  BY <2>1, <2>2
<1>3. cache' = cache /\ cachedAt' = cachedAt
  BY DEF FallBack, ServeStale, priceVars
<1>4. stale' \in BOOLEAN
  <2>1. stale' = TRUE \/ stale' = stale  BY DEF FallBack, ServeStale, priceVars
  <2>2. stale \in BOOLEAN  BY DEF Inv, TypeOK
  <2> QED  BY <2>1, <2>2
<1>5. cache' \in Answer /\ cachedAt' \in 0 .. now
  BY <1>3 DEF Inv, TypeOK
<1>6. PriceOK'
  BY <1>1, <1>2, <1>3, PriceFrame DEF Inv, InCall
<1>7. /\ up /\ UNCHANGED <<up, memoryVars, storedVars, now, work, faults>>
      /\ pc[w] \notin Changing /\ pc[w] \notin Writing
  BY BusyIsUp DEF Inv, FallBack, Changing, Writing, boundVars
<1> QED
  BY <1>2, <1>4, <1>5, <1>6, <1>7, PricingInv

\* A pause ends in another look at the cache, or in no price.
LEMMA PauseInv ==
  ASSUME Inv, NEW w \in Workers, Pause(w)
  PROVE  Inv'
<1>. DEFINE again == [loc[w] EXCEPT !.attempt = @ + 1]
<1>1. /\ again \in Locals /\ again.age = loc[w].age /\ again.failed = loc[w].failed
  <2>1. loc[w] \in Locals
    BY DEF Inv, TypeOK
  <2>2. again \in Locals
    BY <2>1, Updates
  <2> QED  BY <2>1, <2>2 DEF Locals
<1>. HIDE DEF again
<1>2. /\ pc' \in [Workers -> PC] /\ loc' \in [Workers -> Locals] /\ Only(w)
      /\ \/ pc'[w] = "prices" /\ loc'[w] = again
         \/ pc'[w] = "idle" /\ loc'[w] = NoLocals
  <2>1. {"prices", "idle"} \subseteq PC  BY DEF PC
  <2> QED  BY <1>1, <2>1, Moves, NoLocalsType DEF Pause, Done, Inv, Only, again
<1>3. PriceOK'
  <2>1. AgeOK(w)'  BY <1>1, <1>2, NewAge, YoungIsOK DEF Inv, PriceOK, AgeOK
  <2> QED  BY <1>2, <2>1, PriceFrame DEF Inv, Pause, InCall, priceVars, boundVars
<1>4. /\ up /\ UNCHANGED <<up, memoryVars, storedVars, now, work, faults>>
      /\ pc[w] \notin Changing /\ pc[w] \notin Writing /\ UNCHANGED priceVars
  BY BusyIsUp DEF Inv, Pause, Changing, Writing, boundVars
<1> QED
  BY <1>2, <1>3, <1>4, SamePrices, PricingInv DEF Inv

-----------------------------------------------------------------------------
(* The process *)

\* No call outlives its timeout, and locals of finished work are forgotten.
LEMMA TickInv ==
  ASSUME Inv, Tick
  PROVE  Inv'
<1>1. /\ now \in Nat /\ now' = now + 1 /\ now' \in 0 .. MaxTime
      /\ cachedAt \in Nat /\ cache.asOf \in Nat
  BY ConsoleAssumption DEF Inv, TypeOK, Tick, Answer
<1>2. \A w \in Workers : loc'[w] = IF pc[w] = "idle" THEN NoLocals ELSE loc[w]
  BY DEF Tick
<1>3. loc' \in [Workers -> Locals]
  BY NoLocalsType DEF Inv, TypeOK, Tick
<1>4. TypeOK'
  <2>1. up' = up /\ stale' = stale  BY DEF Tick, priceVars
  <2>2. up' \in BOOLEAN /\ stale' \in BOOLEAN  BY <2>1 DEF Inv, TypeOK
  <2>3. cachedAt' \in 0 .. now'
    BY <1>1 DEF Inv, TypeOK, Tick, priceVars
  <2> QED
    BY <1>1, <1>3, <2>2, <2>3 DEF Inv, TypeOK, Tick, memoryVars, storedVars, priceVars
<1>5. WorkersOK'
  BY <1>2 DEF Inv, WorkersOK, Tick, Updating
<1>6. ListOK'
  BY <1>2 DEF Inv, ListOK, Tick, Changing, memoryVars, storedVars
<1>7. FileOK'
  BY <1>2 DEF Inv, FileOK, Tick, Writing, memoryVars, storedVars
<1>8. PriceOK'
  <2>1. ASSUME NEW w \in Workers
        PROVE  CallOK(w)'
    <3>1. loc[w].began \in Nat /\ loc[w].answer.asOf \in Nat
      BY Fields DEF Inv, TypeOK, Answer
    <3>2. CallOK(w)  BY DEF Inv, PriceOK
    <3>3. pc[w] \in InCall => now - loc[w].began < FetchTimeout /\ loc'[w] = loc[w] /\ pc'[w] = pc[w]
      BY <1>2 DEF Tick, InCall
    <3>4. pc'[w] = pc[w]  BY DEF Tick
    <3> QED  BY <1>1, <3>1, <3>2, <3>3, <3>4, PriceAssumption DEF CallOK, InCall
  <2>2. ASSUME NEW w \in Workers
        PROVE  AgeOK(w)'
    BY <1>2, NewAge, YoungIsOK DEF Inv, PriceOK, AgeOK
  <2>3. CacheOK'
    BY <1>1 DEF Inv, PriceOK, CacheOK, Tick, priceVars
  <2> QED  BY <2>1, <2>2, <2>3 DEF PriceOK
<1> QED
  BY <1>4, <1>5, <1>6, <1>7, <1>8 DEF Inv

\* A crash ends all work and empties the price cache.
LEMMA CrashInv ==
  ASSUME Inv, Crash
  PROVE  Inv'
<1>1. /\ pc' \in [Workers -> PC] /\ loc' \in [Workers -> Locals]
      /\ \A w \in Workers : pc'[w] = "idle" /\ loc'[w] = NoLocals
  BY NoLocalsType DEF Crash, PC
<1>2. cache' \in Answer /\ cache'.asOf = 0 /\ cachedAt' = 0 /\ now' = now /\ now \in Nat
  BY DEF Inv, TypeOK, Crash, NoAnswer, Answer
<1>3. TypeOK'
  <2>1. up' \in BOOLEAN  BY DEF Crash
  <2>2. stale' \in BOOLEAN  BY DEF Crash
  <2>3. faults' \in 0 .. MaxFaults  BY FaultsStay DEF Inv, Crash
  <2>4. cachedAt' \in 0 .. now' /\ now' \in 0 .. MaxTime
    BY <1>2 DEF Inv, TypeOK
  <2>5. work' = work  BY DEF Crash
  <2> QED
    BY <1>1, <1>2, <2>1, <2>2, <2>3, <2>4, <2>5 DEF Inv, TypeOK, Crash, memoryVars, storedVars
<1>4. WorkersOK'
  BY <1>1 DEF WorkersOK, Updating
<1>5. ListOK'
  BY <1>1 DEF ListOK, Crash, Changing
<1>6. FileOK'
  BY <1>1 DEF FileOK, Crash, Writing
<1>7. PriceOK'
  <2>1. \A w \in Workers : AgeOK(w)'  BY <1>1, NewAge, YoungIsOK
  <2>2. \A w \in Workers : CallOK(w)'  BY <1>1 DEF CallOK, InCall
  <2>3. CacheOK'  BY <1>2, PriceAssumption DEF CacheOK
  <2> QED  BY <2>1, <2>2, <2>3 DEF PriceOK
<1> QED
  BY <1>3, <1>4, <1>5, <1>6, <1>7 DEF Inv

\* A start reads the table and the file, when the tiers of the file are valid.
LEMMA StartInv ==
  ASSUME Inv, Start
  PROVE  Inv'
<1>1. /\ pc' = pc /\ loc' = loc /\ table' = table /\ file' = file /\ now' = now /\ work' = work
      /\ faults' = faults /\ cache' = cache /\ cachedAt' = cachedAt /\ lapsed' = {}
      /\ tiers' = file /\ allowlist' = table /\ ValidateTiers(file)
  BY DEF Start, LoadTiers, storedVars, priceVars, boundVars
<1>2. \A w \in Workers : pc[w] = "idle"
  BY DEF Inv, WorkersOK, Start
<1>3. TypeOK'
  <2>1. up' \in BOOLEAN  BY DEF Start
  <2>2. stale' = stale  BY DEF Start, priceVars
  <2>3. stale' \in BOOLEAN  BY <2>2 DEF Inv, TypeOK
  <2> QED  BY <1>1, <2>1, <2>3 DEF Inv, TypeOK
<1>4. WorkersOK'
  BY <1>1, <1>2 DEF WorkersOK, Updating
<1>5. ListOK'
  BY <1>1, <1>2 DEF ListOK, Changing
<1>6. FileOK'
  BY <1>1, <1>2 DEF FileOK, Writing
<1>7. PriceOK'
  BY <1>1 DEF Inv, PriceOK, CacheOK, CallOK, AgeOK
<1> QED
  BY <1>3, <1>4, <1>5, <1>6, <1>7 DEF Inv

-----------------------------------------------------------------------------
(* The invariant *)

\* An idle process with an empty list and the default tiers satisfies the invariant.
LEMMA InitInv ==
  ASSUME Init
  PROVE  Inv
<1>1. NoAnswer \in Answer /\ NoAnswer.asOf = 0
  BY DEF NoAnswer, Answer
<1>2. TypeOK
  <2>1. up \in BOOLEAN /\ stale \in BOOLEAN  BY DEF Init, NewPriceService
  <2>2. pc \in [Workers -> PC] /\ loc \in [Workers -> Locals]
    BY NoLocalsType DEF Init, PC
  <2>3. /\ cache \in Answer /\ cachedAt \in 0 .. now
        /\ now \in 0 .. MaxTime /\ work \in 0 .. MaxWork /\ faults \in 0 .. MaxFaults
    <3>1. MaxTime \in Nat /\ MaxWork \in Nat /\ MaxFaults \in Nat  BY ConsoleAssumption
    <3>2. cache = NoAnswer /\ cachedAt = 0 /\ now = 0 /\ work = 0 /\ faults = 0
      BY DEF Init, NewPriceService
    <3> QED  BY <1>1, <3>1, <3>2
  <2> QED
    BY <2>1, <2>2, <2>3, ConsoleAssumption DEF Init, TypeOK
<1>3. WorkersOK /\ ListOK /\ FileOK
  BY DEF Init, WorkersOK, ListOK, FileOK, Updating, Changing, Writing
<1>4. PriceOK
  <2>1. \A w \in Workers : pc[w] = "idle" /\ loc[w] = NoLocals
    BY DEF Init
  <2>2. \A w \in Workers : CallOK(w) /\ AgeOK(w)
    BY <2>1, NewAge, PriceAssumption DEF CallOK, AgeOK, InCall
  <2>3. cache = NoAnswer /\ cachedAt = 0 /\ now = 0
    BY DEF Init, NewPriceService
  <2> QED  BY <1>1, <2>2, <2>3, PriceAssumption DEF PriceOK, CacheOK
<1> QED
  BY <1>2, <1>3, <1>4 DEF Inv

\* Every step keeps the invariant.
LEMMA NextInv ==
  ASSUME Inv, [Next]_vars
  PROVE  Inv'
<1>1. ASSUME NEW w \in Workers, AddAllowlist(w) \/ RemoveAllowlist(w)
      PROVE  Inv'
  BY <1>1, ChangedInv DEF AddAllowlist, RemoveAllowlist
<1>2. ASSUME NEW w \in Workers,
             \/ LoadAllIPs(w) \/ Refresh(w)
             \/ PutTiers(w) \/ TruncateFile(w) \/ WriteFile(w) \/ Reload(w)
             \/ GetTokenPrice(w) \/ ReadCache(w) \/ FetchPrices(w) \/ StorePrices(w)
             \/ FallBack(w) \/ Pause(w)
      PROVE  Inv'
  BY <1>2, LoadAllIPsInv, RefreshInv, PutTiersInv, TruncateFileInv, WriteFileInv, ReloadInv,
     GetTokenPriceInv, ReadCacheInv, FetchPricesInv, StorePricesInv, FallBackInv, PauseInv
<1>3. CASE UNCHANGED vars
  <2>1. /\ up' = up /\ pc' = pc /\ loc' = loc /\ allowlist' = allowlist /\ tiers' = tiers
        /\ lapsed' = lapsed /\ table' = table /\ file' = file /\ cache' = cache
        /\ cachedAt' = cachedAt /\ stale' = stale /\ now' = now /\ work' = work /\ faults' = faults
    BY <1>3 DEF vars, memoryVars, storedVars, priceVars, boundVars
  <2>2. TypeOK'
    <3>1. up' \in BOOLEAN /\ stale' \in BOOLEAN  BY <2>1 DEF Inv, TypeOK
    <3> QED  BY <2>1, <3>1 DEF Inv, TypeOK
  <2>3. WorkersOK' /\ ListOK' /\ FileOK'
    BY <2>1 DEF Inv, WorkersOK, ListOK, FileOK
  <2>4. PriceOK'
    BY <2>1 DEF Inv, PriceOK, CacheOK, CallOK, AgeOK
  <2> QED  BY <2>2, <2>3, <2>4 DEF Inv
<1>4. ASSUME Next  PROVE Inv'
  BY <1>1, <1>2, <1>4, TickInv, CrashInv, StartInv DEF Next
<1> QED
  BY <1>3, <1>4

\* The invariant holds in every reachable state.
LEMMA InvHolds == Spec => []Inv
<1>1. Init => Inv  BY InitInv
<1>2. Inv /\ [Next]_vars => Inv'  BY NextInv
<1> QED
  BY <1>1, <1>2, PTL DEF Spec

-----------------------------------------------------------------------------
(* What validated tiers do with an amount *)

\* A set of naturals has a least one.  The prover cannot apply an induction rule, so it is
\* found as the smallest interval 0 .. n, which is finite.
LEMMA LeastNatural ==
  ASSUME NEW S \in SUBSET Nat, S # {}
  PROVE  \E n \in S : \A m \in S : n <= m
<1>. DEFINE R == StrictSubsetOrdering(Nat)
            T == {0 .. n : n \in S}
<1>1. \A n \in S : 0 .. n \in FiniteSubsetsOf(Nat)
  <2>1. \A n \in S : IsFiniteSet(0 .. n)
    BY FS_Interval
  <2> QED  BY <2>1 DEF FiniteSubsetsOf
<1>2. IsWellFoundedOn(R, FiniteSubsetsOf(Nat))
  BY FS_StrictSubsetOrderingWellFounded
<1>3. T \subseteq FiniteSubsetsOf(Nat) /\ T # {}
  BY <1>1
<1>4. \E x \in T : \A y \in T : ~ (<<y, x>> \in R)
  <2>. HIDE DEF T, R
  <2> QED  BY <1>2, <1>3, WFMin
<1>5. PICK n \in S : \A m \in S : <<0 .. m, 0 .. n>> \notin StrictSubsetOrdering(Nat)
  BY <1>4
<1>6. ASSUME NEW m \in S, m < n
      PROVE  FALSE
  <2>. DEFINE a == 0 .. m
              b == 0 .. n
  <2>1. a \subseteq b /\ a \in SUBSET Nat /\ b \in SUBSET Nat /\ n \in b /\ n \notin a
    BY <1>6
  <2>2. <<a, b>> \in StrictSubsetOrdering(Nat)
    <3>. HIDE DEF a, b
    <3> QED  BY <2>1 DEF StrictSubsetOrdering
  <2> QED  BY <1>5, <2>2
<1> QED
  BY <1>6

\* The fields of valid tiers, and how neighbours meet.
LEMMA TierFields ==
  ASSUME NEW ts \in Seq(Tier), ValidateTiers(ts)
  PROVE  /\ Len(ts) \in Nat /\ Len(ts) >= 2
         /\ \A i \in 1 .. Len(ts) : ts[i].min \in Int /\ ts[i].max \in SUBSET Int
         /\ ts[Len(ts)].max = {}
         /\ \A i \in 1 .. Len(ts) - 1 :
               /\ ts[i].min <= ts[i + 1].min
               /\ ts[i].max = {ts[i + 1].min}
<1>1. Len(ts) \in Nat /\ Len(ts) >= 2
  BY DEF ValidateTiers, MinTierCount
<1>2. \A i \in 1 .. Len(ts) : ts[i] \in Tier
  OBVIOUS
<1>3. \A i \in 1 .. Len(ts) : ts[i].min \in Int /\ ts[i].max \in SUBSET Int
  BY <1>2 DEF Tier
<1>4. ts[Len(ts)].max = {}
  BY <1>1 DEF ValidateTiers
<1>5. ASSUME NEW i \in 1 .. Len(ts) - 1
      PROVE  ts[i].min <= ts[i + 1].min /\ ts[i].max = {ts[i + 1].min}
  <2>1. i \in 1 .. Len(ts) /\ i # Len(ts)
    BY <1>1
  <2>2. ts[i].max # {} /\ \A max \in ts[i].max : ts[i + 1].min = max
    BY <2>1 DEF ValidateTiers
  <2> QED  BY <2>2 DEF ValidateTiers, IsSorted
<1> QED
  BY <1>1, <1>3, <1>4, <1>5

\* Validated tiers split all amounts from the least one on: each belongs to exactly one tier,
\* and that is the one the calculator finds.
THEOREM EveryAmountHasOneTier ==
  ASSUME NEW ts \in Seq(Tier), ValidateTiers(ts), NEW cents \in Int, cents >= ts[1].min
  PROVE  {i \in 1 .. Len(ts) : Matches(ts[i], cents)} = {MatchTier(ts, cents)}
<1>. DEFINE n == Len(ts)
            Begun(i) == ts[i].min <= cents
<1>1. /\ n \in Nat /\ n >= 2
      /\ \A i \in 1 .. n : ts[i].min \in Int /\ ts[i].max \in SUBSET Int
      /\ ts[n].max = {}
      /\ \A i \in 1 .. n - 1 : ts[i].min <= ts[i + 1].min /\ ts[i].max = {ts[i + 1].min}
  BY TierFields
\* The last tier that begins at or below the amount...
<1>2. PICK last \in 1 .. n : Begun(last) /\ \A i \in 1 .. n : i > last => ~Begun(i)
  <2>. DEFINE S == {k \in 0 .. n - 1 : Begun(n - k)}
  <2>1. n - 1 \in S
    BY <1>1
  <2>2. S \in SUBSET Nat /\ S # {}
    <3>1. S \in SUBSET Nat
      BY <1>1
    <3>. HIDE DEF S
    <3> QED  BY <2>1, <3>1
  <2>3. PICK k \in S : \A m \in S : k <= m
    <3>. HIDE DEF S
    <3> QED  BY <2>2, LeastNatural
  <2>4. n - k \in 1 .. n /\ Begun(n - k)
    BY <1>1, <2>3
  <2>5. ASSUME NEW i \in 1 .. n, i > n - k, Begun(i)
        PROVE  FALSE
    <3>1. n - i \in 0 .. n - 1 /\ n - (n - i) = i /\ n - i < k
      BY <1>1, <2>3, <2>5
    <3>2. n - i \in S
      BY <3>1, <2>5
    <3> QED  BY <3>1, <3>2, <2>3, <1>1
  <2> QED  BY <2>4, <2>5
\* ... comes after tiers that all have begun...
<1>3. \A i \in 1 .. n : i <= last => Begun(i)
  <2>. DEFINE S == {d \in 0 .. last - 1 : ~Begun(last - d)}
  <2>1. ASSUME S # {}
        PROVE  FALSE
    <3>1. S \in SUBSET Nat
      OBVIOUS
    <3>2. PICK d \in S : \A m \in S : d <= m
      <4>. HIDE DEF S
      <4> QED  BY <2>1, <3>1, LeastNatural
    <3>3. d \in 0 .. last - 1 /\ ~Begun(last - d)
      BY <3>2
    <3>4. d # 0
      BY <1>2, <3>3
    <3>5. d - 1 \in 0 .. last - 1 /\ d - 1 \notin S
      BY <3>2, <3>3, <3>4
    <3>6. Begun(last - (d - 1)) /\ last - (d - 1) = last - d + 1
      BY <3>3, <3>5
    <3>7. last - d \in 1 .. n - 1
      BY <1>1, <3>3, <3>4
    <3>8. /\ ts[last - d].min <= ts[last - d + 1].min
          /\ ts[last - d].min \in Int /\ ts[last - d + 1].min \in Int
      <4>1. last - d \in 1 .. n /\ last - d + 1 \in 1 .. n
        BY <1>1, <3>7
      <4> QED  BY <1>1, <3>7, <4>1
    <3> QED  BY <3>3, <3>6, <3>8
  <2>2. ASSUME NEW i \in 1 .. n, i <= last, ~Begun(i)
        PROVE  FALSE
    <3>1. last - i \in 0 .. last - 1 /\ last - (last - i) = i
      BY <2>2
    <3> QED  BY <2>1, <2>2, <3>1
  <2> QED  BY <2>2
\* ... and so is the only one that has begun and not ended.
<1>4. Matches(ts[last], cents)
  <2>1. CASE last = n
    BY <1>1, <1>2, <2>1 DEF Matches
  <2>2. CASE last # n
    <3>1. last \in 1 .. n - 1 /\ last + 1 \in 1 .. n /\ last + 1 > last
      BY <1>1, <2>2
    <3>2. ~Begun(last + 1) /\ ts[last].max = {ts[last + 1].min} /\ ts[last + 1].min \in Int
      BY <1>1, <1>2, <3>1
    <3> QED  BY <1>2, <3>2 DEF Matches
  <2> QED  BY <2>1, <2>2
<1>5. ASSUME NEW i \in 1 .. n, Matches(ts[i], cents)
      PROVE  i = last
  <2>1. Begun(i)
    BY <1>5 DEF Matches
  <2>2. ASSUME i < last
        PROVE  FALSE
    <3>1. i \in 1 .. n - 1 /\ i + 1 \in 1 .. n /\ i + 1 <= last
      BY <1>1, <2>2
    <3>2. Begun(i + 1) /\ ts[i].max = {ts[i + 1].min} /\ ts[i + 1].min \in Int
      BY <1>1, <1>3, <3>1
    <3> QED  BY <1>5, <3>2 DEF Matches
  <2> QED  BY <1>2, <2>1, <2>2
<1>6. MatchTier(ts, cents) = last
  <2>. DEFINE First(i) == Matches(ts[i], cents) /\ \A j \in 1 .. i - 1 : ~Matches(ts[j], cents)
  <2>1. First(last)
    BY <1>1, <1>4, <1>5
  <2>2. \A i \in 1 .. n : First(i) => i = last
    BY <1>5
  <2>3. MatchTier(ts, cents) = CHOOSE i \in 1 .. n : First(i)
    BY <1>4 DEF MatchTier
  <2>. HIDE DEF First
  <2>4. (CHOOSE i \in 1 .. n : First(i)) = last
    BY <2>1, <2>2
  <2> QED  BY <2>3, <2>4
<1> QED
  BY <1>4, <1>5, <1>6

TiersOK == tiers \in Seq(Tier)

\* The calculator's tiers are tiers: they come from the file or from a valid body.
LEMMA TiersAreTiers == Spec => []TiersOK
<1>1. Init => TiersOK
  BY ConsoleAssumption DEF Init, TiersOK
<1>2. ASSUME Inv, TiersOK, [Next]_vars
      PROVE  TiersOK'
  <2>. DEFINE Known == TierInputs \cup {DefaultTiers, <<>>}
  <2>1. Known \subseteq Seq(Tier)
    <3>1. <<>> \in Seq(Tier)
      OBVIOUS
    <3>2. TierInputs \subseteq Seq(Tier) /\ DefaultTiers \in Seq(Tier)
      BY ConsoleAssumption
    <3> QED  BY <3>1, <3>2
  <2>2. file \in Known /\ \A w \in Workers : loc[w].tiers \in Known
    BY <1>2, Fields DEF Inv, TypeOK
  <2>3. tiers' = tiers \/ tiers' = file \/ \E w \in Workers : tiers' = loc[w].tiers
    <3>1. CASE UNCHANGED vars  BY <3>1 DEF vars, memoryVars
    <3>2. CASE Tick \/ Crash \/ Start  BY <3>2 DEF Tick, Crash, Start, memoryVars
    <3>3. ASSUME NEW w \in Workers,
                 \/ AddAllowlist(w) \/ RemoveAllowlist(w) \/ LoadAllIPs(w) \/ Refresh(w)
                 \/ PutTiers(w) \/ TruncateFile(w) \/ WriteFile(w) \/ Reload(w)
          PROVE  tiers' = tiers \/ tiers' = loc[w].tiers
      BY <3>3 DEF AddAllowlist, RemoveAllowlist, Changed, LoadAllIPs, Refresh, PutTiers,
                  TruncateFile, WriteFile, Reload, memoryVars
    <3>4. ASSUME NEW w \in Workers,
                 \/ GetTokenPrice(w) \/ ReadCache(w) \/ FetchPrices(w) \/ StorePrices(w)
                 \/ FallBack(w) \/ Pause(w)
          PROVE  tiers' = tiers
      BY <3>4 DEF GetTokenPrice, ReadCache, FetchPrices, StorePrices, FallBack, Pause, memoryVars
    <3> QED  BY <1>2, <3>1, <3>2, <3>3, <3>4 DEF Next
  <2>. HIDE DEF Known
  <2> QED  BY <1>2, <2>1, <2>2, <2>3 DEF TiersOK
<1> QED
  BY <1>1, <1>2, InvHolds, PTL DEF Spec

-----------------------------------------------------------------------------
(* Theorems *)

\* The types, among them: the tiers that points are awarded by are valid.
THEOREM TypeCorrect == Spec => []TypeOK
<1>1. Inv => TypeOK  BY DEF Inv
<1> QED
  BY <1>1, InvHolds, PTL

\* The list requests are checked against is the table whenever no change is under way, unless
\* two changes were made at once or a load failed.
THEOREM AllowlistIsFollowed == Spec => []AllowlistFollowsTable
<1>1. Inv => AllowlistFollowsTable
  BY DEF Inv, ListOK, AllowlistFollowsTable
<1> QED
  BY <1>1, InvHolds, PTL

\* The next start will load the tiers in use whenever no update is under way, unless two
\* updates were made at once or a write failed.
THEOREM FileIsFollowed == Spec => []TiersFollowFile
<1>1. Inv => TiersFollowFile
  BY DEF Inv, FileOK, TiersFollowFile, Updating, Writing
<1> QED
  BY <1>1, InvHolds, PTL

\* No payment is priced by an answer older than the cache duration, or than the tolerance when
\* a fetch of its worker failed, but for the time a request takes.
THEOREM PricesStayRecent == Spec => []PricesAreRecent
<1>1. Inv => PricesAreRecent
  BY DEF Inv, PriceOK, AgeOK, PricesAreRecent
<1> QED
  BY <1>1, InvHolds, PTL

\* Whatever tiers an admin stores or a start loads, every amount from the least one on has
\* exactly one tier.
THEOREM AmountsHaveTheirTier == Spec => []AmountsHaveOneTier
<1>1. ASSUME TypeOK, TiersOK
      PROVE  AmountsHaveOneTier
  <2>. DEFINE bounds == {tiers[i].min : i \in 1 .. Len(tiers)}
  <2>1. ValidateTiers(tiers)
    BY <1>1 DEF TypeOK
  <2>2. tiers \in Seq(Tier) /\ bounds \subseteq Int
    BY <1>1, <2>1, TierFields DEF TiersOK
  <2>3. ASSUME NEW cents \in UNION {{b - 1, b, b + 1} : b \in bounds}
        PROVE  cents \in Int
    <3>. HIDE DEF bounds
    <3>1. PICK b \in bounds : cents \in {b - 1, b, b + 1}
      OBVIOUS
    <3>2. b \in Int
      BY <2>2
    <3> QED  BY <3>1, <3>2
  <2>4. ASSUME NEW cents \in UNION {{b - 1, b, b + 1} : b \in bounds}, cents >= tiers[1].min
        PROVE  {i \in 1 .. Len(tiers) : Matches(tiers[i], cents)} = {MatchTier(tiers, cents)}
    BY <2>1, <2>2, <2>3, <2>4, EveryAmountHasOneTier
  <2> QED  BY <2>4 DEF AmountsHaveOneTier
<1> QED
  BY <1>1, TypeCorrect, TiersAreTiers, PTL

=============================================================================
