------------------------------- MODULE ScanDB -------------------------------
(***************************************************************************)
(* The tables of internal/db that a balance scan reads and writes, as      *)
(* functions of their contents: scan_state (scans.go), balances            *)
(* (balances.go, settings.go), addresses and provider_health.  One network *)
(* is modelled; a balance is "0" or "funds"; timestamps, which only order  *)
(* rows on a page, are left out.                                           *)
(***************************************************************************)
EXTENDS CircuitBreaker, FiniteSets, Sequences

CONSTANTS
    Chains,             \* models.AllChains
    Index,              \* address indices that a request may ask for, 0, 1, ...
    AddressCount,       \* [Chains -> number of generated addresses]
    Tokens              \* [Chains -> sequence of the tokens scanned after the native asset]

Native == "NATIVE"
Asset == {Native} \cup UNION {{Tokens[c][k] : k \in 1 .. Len(Tokens[c])} : c \in Chains}

ASSUME ScanDBAssumption ==
    /\ IsFiniteSet(Chains)
    /\ Index \subseteq Nat
    /\ AddressCount \in [Chains -> Nat]
    /\ Tokens \in [Chains -> Seq(STRING)]

-----------------------------------------------------------------------------
(* scan_state *)

ScanStatus == {"scanning", "completed", "failed"}

\* exists is FALSE for a chain without a row, which the API reports as idle.
ScanRow == [exists : BOOLEAN, last : Nat, max : Nat, status : ScanStatus]
NoScanRow == [exists |-> FALSE, last |-> 0, max |-> 0, status |-> "scanning"]

\* INSERT ... ON CONFLICT(chain, network) DO UPDATE; UpsertScanStateTx is the same
\* statement inside the transaction of a batch.
UpsertScanState(table, chain, last, max, status) ==
    [table EXCEPT ![chain] = [exists |-> TRUE, last |-> last, max |-> max, status |-> status]]

-----------------------------------------------------------------------------
(* balances and addresses *)

Amount == {"0", "funds"}
StoredAmount == Amount \cup {"none"}    \* "none": no row

\* What a provider answers for one address; reliable is FALSE when Error is set.
BalanceResult == [index : Index, asset : Asset, balance : Amount, reliable : BOOLEAN]

NoBalances == [key \in Index \X Asset |-> "none"]

\* The ON CONFLICT upsert of every result of a batch; Error is not a column.
UpsertBalanceBatch(table, chain, results) ==
    [table EXCEPT ![chain] =
        [key \in Index \X Asset |->
            LET written == {r \in results : r.index = key[1] /\ r.asset = key[2]}
            IN  IF written = {} THEN @[key] ELSE (CHOOSE r \in written : TRUE).balance]]

GetAddressesBatch(chain, first, count) ==
    {i \in Index : first <= i /\ i < first + count /\ i < AddressCount[chain]}

\* What a send may draw on: the addresses with a balance other than '0'.
GetFundedAddressesJoined(table, chain, asset) ==
    {i \in Index : i < AddressCount[chain] /\ table[chain][<<i, asset>>] = "funds"}

\* ResetBalances deletes the balances and the scan state of every chain at once.
ResetBalances == [chain \in Chains |-> NoBalances]
ResetScanStates == [chain \in Chains |-> NoScanRow]

-----------------------------------------------------------------------------
(* provider_health *)

ProviderStatus == {"healthy", "degraded", "down"}

\* consecutive_fails is counted up to the threshold, like the breaker's.
HealthRow == [status : ProviderStatus, fails : 0 .. Threshold, circuit : BreakerState]

\* The row that SetDB upserts for every provider when the server starts.
InitialHealth == [status |-> "healthy", fails |-> 0, circuit |-> "closed"]

\* Mutant: a success clears the counter and leaves the circuit as it was written.
RecordProviderSuccessKeepsCircuitMutant(row) == [row EXCEPT !.fails = 0]

RecordProviderSuccess(row) == [status |-> "healthy", fails |-> 0, circuit |-> "closed"]

\* Only the counter: status and circuit_state are left to the next statement.
RecordProviderFailure(row) ==
    [row EXCEPT !.fails = IF @ < Threshold THEN @ + 1 ELSE @]

StatusOf(circuit) ==
    CASE circuit = "open" -> "down"
      [] circuit = "half_open" -> "degraded"
      [] OTHER -> "healthy"

UpdateProviderCircuitState(row, circuit) ==
    [row EXCEPT !.circuit = circuit, !.status = StatusOf(circuit)]

=============================================================================
