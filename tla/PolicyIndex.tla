---------------------------- MODULE PolicyIndex ----------------------------
(***************************************************************************)
(* envio-indexer/src/handlers: the tables the frontend reads, kept from    *)
(* the events of PolicyDistributor, PayoutModule and ReservePool.  Envio   *)
(* runs one handler at a time and stores what it sets at once, so an event *)
(* and its handler are one action.  The contracts are external: onchain    *)
(* only keeps a policy's events in an order that a policy can go through.  *)
(*                                                                         *)
(* Sums that the handlers keep exactly as they keep totalPolicies (insured *)
(* amounts), constants (premiums, product) and timestamps are left out.    *)
(***************************************************************************)
EXTENDS Integers, Sequences, FiniteSets, FiniteSetsExt, SequencesExt, TLC

CONSTANTS
  Chains,        \* the networks of config.yaml
  PayoutChains,  \* those with a PayoutModule
  PolicyIds,     \* ids, which each chain's contract hands out for itself
  Owners, RiskIds,
  Amounts,       \* payouts, deposits, withdrawals and queued shares
  LastDay,       \* bound on the days
  MaxEvents      \* bound on the events

ASSUME PolicyIndexConstants ==
  /\ IsFiniteSet(Chains) /\ PayoutChains \subseteq Chains
  /\ Amounts \subseteq Nat /\ LastDay \in Nat /\ MaxEvents \in Nat

VARIABLES
  onchain,       \* [chain, policy id] -> what its contracts have emitted last
  today,         \* the day of the block
  events,        \* how many events there have been
  policies,      \* Policy: policy id -> row
  holders,       \* PolicyHolder: owner -> row
  pools,         \* RiskPool: risk id -> row
  globalStats,   \* GlobalStats: "global" -> row, empty before the first policy
  dailyStats,    \* DailyStats: day -> row
  claims,        \* Claim, one row per event
  reserve,       \* ReserveDeposit and ReserveWithdrawal, one row per event
  redemptions    \* RedemptionQueue: [user, timestamp] -> shares

policyTables == <<policies, holders, pools>>
statTables == <<globalStats, dailyStats>>
reserveTables == <<reserve, redemptions>>
vars == <<onchain, today, events, policyTables, statTables, claims, reserveTables>>

-----------------------------------------------------------------------------
(* Rows.                                                                   *)

NewHolder == [totalPolicies |-> 0, activePolicies |-> 0, totalPayouts |-> 0]
NewPool == NewHolder
NewGlobal == [totalPolicies |-> 0, activePolicies |-> 0, totalClaims |-> 0,
              executedClaims |-> 0, totalPayouts |-> 0,
              totalReserveDeposits |-> 0, totalReserveWithdrawals |-> 0,
              uniquePolicyHolders |-> 0, uniqueRiskPools |-> 0]
NewDay == [policiesMinted |-> 0, policiesActivated |-> 0, policiesExpired |-> 0,
           claimsExecuted |-> 0, payoutsDistributed |-> 0,
           reserveDeposits |-> 0, reserveWithdrawals |-> 0]

\* {...row, field: row.field + change}: only activePolicies is ever decreased,
\* and no further than 0.
Changed(row, changes) ==
  [field \in DOMAIN row |->
     IF field \in DOMAIN changes THEN Max({0, row[field] + changes[field]}) ELSE row[field]]

\* set(row): the row of this key is written, whether or not there was one.
Put(table, key, row) ==
  [k \in DOMAIN table \cup {key} |-> IF k = key THEN row ELSE table[k]]

\* if (row) set({...row, ...})
Update(table, key, changes) ==
  IF key \in DOMAIN table THEN Put(table, key, Changed(table[key], changes)) ELSE table

\* if (!row) set({new row}) else set({...row, ...})
Upsert(table, key, new, changes) ==
  Put(table, key, Changed(IF key \in DOMAIN table THEN table[key] ELSE new, changes))

SetStatus(id, status) ==
  policies' = Put(policies, id, [policies[id] EXCEPT !.status = status])

Statuses == {"MINTED", "ACTIVE", "EXPIRED", "CLAIMED"}
Counters(new) == [DOMAIN new -> Nat]

\* Every row of a policy points to a holder and a pool, and counters are naturals.
TypeOK ==
  /\ today \in 0..LastDay /\ events \in Nat
  /\ \A id \in DOMAIN policies :
       /\ id \in PolicyIds /\ policies[id].status \in Statuses
       /\ policies[id].owner \in DOMAIN holders /\ policies[id].risk \in DOMAIN pools
  /\ \A o \in DOMAIN holders : o \in Owners /\ holders[o] \in Counters(NewHolder)
  /\ \A r \in DOMAIN pools : r \in RiskIds /\ pools[r] \in Counters(NewPool)
  /\ DOMAIN globalStats = (IF DOMAIN policies = {} THEN {} ELSE {"global"})
  /\ \A g \in DOMAIN globalStats : globalStats[g] \in Counters(NewGlobal)
  /\ \A d \in DOMAIN dailyStats : d \in 0..today /\ dailyStats[d] \in Counters(NewDay)

Init ==
  /\ onchain = [cp \in Chains \X PolicyIds |-> "none"]
  /\ today = 0 /\ events = 0
  /\ policies = <<>> /\ holders = <<>> /\ pools = <<>>
  /\ globalStats = <<>> /\ dailyStats = <<>>
  /\ claims = <<>> /\ reserve = <<>> /\ redemptions = <<>>

-----------------------------------------------------------------------------
(* policyDistributor.ts                                                    *)

\* A contract emits an event.
Event ==
  /\ events < MaxEvents
  /\ events' = events + 1
  /\ UNCHANGED today

\* It is about a policy, which goes from one of the states in from to to.
Emit(chain, id, from, to) ==
  /\ Event
  /\ onchain[chain, id] \in from
  /\ onchain' = [onchain EXCEPT ![<<chain, id>>] = to]

\* Mutant: the holder is looked up again after it was set, and is never new.
GlobalAfterRereading(owner, risk) ==
  Upsert(globalStats, "global", NewGlobal,
    [totalPolicies |-> 1,
     uniquePolicyHolders |-> IF "global" \notin DOMAIN globalStats THEN 1 ELSE 0,
     uniqueRiskPools |-> IF "global" \notin DOMAIN globalStats \/ risk \notin DOMAIN pools
                         THEN 1 ELSE 0])

\* The first policy creates GlobalStats; a holder or a pool is new if it had no
\* row before this event.
GlobalAfterMint(owner, risk) ==
  Upsert(globalStats, "global", NewGlobal,
    [totalPolicies |-> 1,
     uniquePolicyHolders |-> IF "global" \notin DOMAIN globalStats \/ owner \notin DOMAIN holders
                             THEN 1 ELSE 0,
     uniqueRiskPools |-> IF "global" \notin DOMAIN globalStats \/ risk \notin DOMAIN pools
                         THEN 1 ELSE 0])

\* Mutant: an owner without a row does not get one.
HoldersAfterUpdate(owner) == Update(holders, owner, [totalPolicies |-> 1])
HoldersAfterMint(owner) == Upsert(holders, owner, NewHolder, [totalPolicies |-> 1])

\* Policy.set overwrites the row of this id, whichever chain it came from.
PolicyMinted(chain, id, owner, risk) ==
  /\ Emit(chain, id, {"none"}, "minted")
  /\ policies' = Put(policies, id, [owner |-> owner, risk |-> risk, status |-> "MINTED"])
  /\ holders' = HoldersAfterMint(owner)
  /\ pools' = Upsert(pools, risk, NewPool, [totalPolicies |-> 1])
  /\ globalStats' = GlobalAfterMint(owner, risk)
  /\ dailyStats' = Upsert(dailyStats, today, NewDay, [policiesMinted |-> 1])
  /\ UNCHANGED <<claims, reserveTables>>

\* The counts of active policies, of the policy's owner, its pool and overall.
CountActive(id, changes, total) ==
  /\ holders' = Update(holders, policies[id].owner, changes)
  /\ pools' = Update(pools, policies[id].risk, changes)
  /\ globalStats' = Update(globalStats, "global", total)

\* A day without a row does not get one: its activations are not counted.
PolicyActivated(chain, id) ==
  /\ Emit(chain, id, {"minted"}, "active")
  /\ SetStatus(id, "ACTIVE")
  /\ CountActive(id, [activePolicies |-> 1], [activePolicies |-> 1])
  /\ dailyStats' = Update(dailyStats, today, [policiesActivated |-> 1])
  /\ UNCHANGED <<claims, reserveTables>>

\* Mutant: a policy that was never active is taken off the counts too.
PolicyExpiredUnguarded(chain, id) ==
  /\ Emit(chain, id, {"minted", "active"}, "expired")
  /\ SetStatus(id, "EXPIRED")
  /\ CountActive(id, [activePolicies |-> -1], [activePolicies |-> -1])
  /\ dailyStats' = Update(dailyStats, today, [policiesExpired |-> 1])
  /\ UNCHANGED <<claims, reserveTables>>

PolicyExpired(chain, id) ==
  /\ Emit(chain, id, {"minted", "active"}, "expired")
  /\ SetStatus(id, "EXPIRED")
  /\ \/ policies[id].status = "ACTIVE"
        /\ CountActive(id, [activePolicies |-> -1], [activePolicies |-> -1])
     \/ policies[id].status # "ACTIVE" /\ UNCHANGED <<holders, pools, globalStats>>
  /\ dailyStats' = Update(dailyStats, today, [policiesExpired |-> 1])
  /\ UNCHANGED <<claims, reserveTables>>

-----------------------------------------------------------------------------
(* payoutModule.ts                                                         *)

ClaimRow(id, payout, status) == [policy |-> id, payout |-> payout, status |-> status]

Paid(payout) == [activePolicies |-> -1, totalPayouts |-> payout]

PaidOverall(id, payout) ==
  [totalClaims |-> 1, executedClaims |-> 1, totalPayouts |-> payout,
   activePolicies |-> IF policies[id].status = "ACTIVE" THEN -1 ELSE 0]

\* Mutant: everything is counted under the check for an active policy.
ClaimExecutedIfActive(chain, id, payout) ==
  /\ chain \in PayoutChains
  /\ Emit(chain, id, {"active", "expired"}, "claimed")
  /\ claims' = Append(claims, ClaimRow(id, payout, "EXECUTED"))
  /\ SetStatus(id, "CLAIMED")
  /\ \/ policies[id].status = "ACTIVE" /\ CountActive(id, Paid(payout), PaidOverall(id, payout))
     \/ policies[id].status # "ACTIVE" /\ UNCHANGED <<holders, pools, globalStats>>
  /\ dailyStats' = Upsert(dailyStats, today, NewDay,
                          [claimsExecuted |-> 1, payoutsDistributed |-> payout])
  /\ UNCHANGED reserveTables

\* A claim may be paid after the policy has expired; its holder's and pool's
\* totals then miss the payout, the overall total has it.
ClaimExecuted(chain, id, payout) ==
  /\ chain \in PayoutChains
  /\ Emit(chain, id, {"active", "expired"}, "claimed")
  /\ claims' = Append(claims, ClaimRow(id, payout, "EXECUTED"))
  /\ SetStatus(id, "CLAIMED")
  /\ \/ policies[id].status = "ACTIVE" /\ CountActive(id, Paid(payout), PaidOverall(id, payout))
     \/ /\ policies[id].status # "ACTIVE"
        /\ globalStats' = Update(globalStats, "global", PaidOverall(id, payout))
        /\ UNCHANGED <<holders, pools>>
  /\ dailyStats' = Upsert(dailyStats, today, NewDay,
                          [claimsExecuted |-> 1, payoutsDistributed |-> payout])
  /\ UNCHANGED reserveTables

ClaimFailed(chain, id) ==
  /\ chain \in PayoutChains
  /\ Event
  /\ onchain[chain, id] # "none"
  /\ claims' = Append(claims, ClaimRow(id, 0, "FAILED"))
  /\ globalStats' = Update(globalStats, "global", [totalClaims |-> 1])
  /\ UNCHANGED <<onchain, policyTables, dailyStats, reserveTables>>

-----------------------------------------------------------------------------
(* reservePool.ts                                                          *)

ReserveRow(kind, amount) == [kind |-> kind, amount |-> amount]

\* Mutant: the day's row is written anew.
DepositedAnew(amount) ==
  /\ Event
  /\ reserve' = Append(reserve, ReserveRow("deposit", amount))
  /\ globalStats' = Update(globalStats, "global", [totalReserveDeposits |-> amount])
  /\ dailyStats' = Put(dailyStats, today, [NewDay EXCEPT !.reserveDeposits = amount])
  /\ UNCHANGED <<onchain, policyTables, claims, redemptions>>

\* Before the first policy there is no GlobalStats, and none is created: what is
\* deposited or withdrawn until then is missing from its totals.
Deposited(amount) ==
  /\ Event
  /\ reserve' = Append(reserve, ReserveRow("deposit", amount))
  /\ globalStats' = Update(globalStats, "global", [totalReserveDeposits |-> amount])
  /\ dailyStats' = Upsert(dailyStats, today, NewDay, [reserveDeposits |-> amount])
  /\ UNCHANGED <<onchain, policyTables, claims, redemptions>>

ReserveTotal(kind) ==
  SumFunction([i \in DOMAIN reserve |-> IF reserve[i].kind = kind THEN reserve[i].amount ELSE 0])

\* The contract pays out no more than it holds.
Withdrawn(amount) ==
  /\ Event
  /\ amount <= ReserveTotal("deposit") - ReserveTotal("withdrawal")
  /\ reserve' = Append(reserve, ReserveRow("withdrawal", amount))
  /\ globalStats' = Update(globalStats, "global", [totalReserveWithdrawals |-> amount])
  /\ dailyStats' = Upsert(dailyStats, today, NewDay, [reserveWithdrawals |-> amount])
  /\ UNCHANGED <<onchain, policyTables, claims, redemptions>>

\* A second request of one user in one block takes the place of the first.
RedemptionQueued(user, shares) ==
  /\ Event
  /\ redemptions' = Put(redemptions, <<user, today>>, shares)
  /\ UNCHANGED <<onchain, policyTables, statTables, claims, reserve>>

-----------------------------------------------------------------------------

NextDay ==
  /\ today < LastDay
  /\ today' = today + 1
  /\ UNCHANGED <<onchain, events, policyTables, statTables, claims, reserveTables>>

Next ==
  \/ \E chain \in Chains, id \in PolicyIds :
       \/ \E owner \in Owners, risk \in RiskIds : PolicyMinted(chain, id, owner, risk)
       \/ PolicyActivated(chain, id)
       \/ PolicyExpired(chain, id)
       \/ \E payout \in Amounts : ClaimExecuted(chain, id, payout)
       \/ ClaimFailed(chain, id)
  \/ \E amount \in Amounts :
       \/ Deposited(amount)
       \/ Withdrawn(amount)
       \/ \E user \in Owners : RedemptionQueued(user, amount)
  \/ NextDay

Spec == Init /\ [][Next]_vars

-----------------------------------------------------------------------------

\* An id is in the table for policies of two chains.
SharedId(id) ==
  Cardinality({chain \in Chains : onchain[chain, id] # "none"}) > 1

Total(table, field) == SumFunction([key \in DOMAIN table |-> table[key][field]])

\* The active policies of a holder, of a pool and overall are those whose row
\* says ACTIVE: counts that five handlers keep by increments agree with the
\* table.  Policy's key has no chain, and the agreement ends when the ids of
\* two chains meet.
ActiveCountsAgree ==
  (\A id \in PolicyIds : ~SharedId(id)) =>
    LET Active(p) == p.status = "ACTIVE" IN
    /\ \A o \in DOMAIN holders : holders[o].activePolicies =
         Cardinality({id \in DOMAIN policies : Active(policies[id]) /\ policies[id].owner = o})
    /\ \A r \in DOMAIN pools : pools[r].activePolicies =
         Cardinality({id \in DOMAIN policies : Active(policies[id]) /\ policies[id].risk = r})
    /\ Total(globalStats, "activePolicies") =
         Cardinality({id \in DOMAIN policies : Active(policies[id])})

\* GlobalStats counts every mint once, as the holders, the pools and the days
\* do, and as many unique holders and pools as have rows.
MintsAgree ==
  /\ Total(globalStats, "totalPolicies") = Total(holders, "totalPolicies")
  /\ Total(globalStats, "totalPolicies") = Total(pools, "totalPolicies")
  /\ Total(globalStats, "totalPolicies") = Total(dailyStats, "policiesMinted")
  /\ Total(globalStats, "uniquePolicyHolders") = Cardinality(DOMAIN holders)
  /\ Total(globalStats, "uniqueRiskPools") = Cardinality(DOMAIN pools)

\* Every payout on file is in GlobalStats and in one day; holders and pools
\* share the same payouts, never more than were made.
PayoutsAgree ==
  LET paid == SumFunction([i \in DOMAIN claims |-> claims[i].payout])
      executed == Cardinality({i \in DOMAIN claims : claims[i].status = "EXECUTED"})
  IN /\ Total(globalStats, "totalClaims") = Len(claims)
     /\ executed = Total(globalStats, "executedClaims")
     /\ executed = Total(dailyStats, "claimsExecuted")
     /\ paid = Total(globalStats, "totalPayouts")
     /\ paid = Total(dailyStats, "payoutsDistributed")
     /\ Total(holders, "totalPayouts") = Total(pools, "totalPayouts")
     /\ Total(holders, "totalPayouts") <= paid

\* The days' reserve movements add up to those on file, which GlobalStats
\* does not always reach and never exceeds.
ReserveDaysAgree ==
  /\ Total(dailyStats, "reserveDeposits") = ReserveTotal("deposit")
  /\ Total(dailyStats, "reserveWithdrawals") = ReserveTotal("withdrawal")
  /\ Total(globalStats, "totalReserveDeposits") <= ReserveTotal("deposit")
  /\ Total(globalStats, "totalReserveWithdrawals") <= ReserveTotal("withdrawal")

\* For TLC: the ids, the owners and the pools are interchangeable.
Symmetry == Permutations(PolicyIds) \cup Permutations(Owners) \cup Permutations(RiskIds)
=============================================================================
