------------------------------ MODULE WebProofs ------------------------------
(***************************************************************************)
(* What the web layer promises to whoever pays for its visitors.           *)
(*                                                                         *)
(* TestFaucet, for any number of recipients, claims, records and           *)
(* reorganizations, any window and any limit.  The argument is about the   *)
(* gap between the claim's look at the journal and its Send: whatever the  *)
(* chain, the maintenance loop and the owner do in the gap, the earlier    *)
(* transactions of the hour that may still be paid only become fewer.      *)
(*                                                                         *)
(* The gates of HttpGates, for any number of concurrent requests, any      *)
(* traffic limit and any limit of attempts.  The argument is about the gap *)
(* between the charge for a password attempt and the comparison: the one   *)
(* slot of the shared demo's writes lets only one request be in it.        *)
(***************************************************************************)
EXTENDS Web, FiniteSetTheorems, TLAPS

-----------------------------------------------------------------------------
(* The inductive invariant.  A record that was seen to have failed stays       *)
(* unpaid or is revoked; a claim that is about to send, and a payout that was  *)
(* sent, have had every earlier transaction of the hour in view.               *)

ClaimType == {Idle} \cup [pc : {"send"}, to : Recipients, known : 0 .. Len(records)]

TypeInv ==
    /\ records \in Seq(Record)
    /\ fate \in Seq({"none", "paid", "failed"}) /\ Len(fate) = Len(records)
    /\ claims \in [Claimants -> ClaimType]
    /\ clock \in Nat

\* t was seen to have failed, and has failed or is one of the exceptions.
Sunk(t) == t \in revoked \/ (records[t].state = "failed" /\ fate[t] = "failed")

FailedInv == \A t \in Txs : records[t].state = "failed" => Sunk(t)

\* One claim at a time (f.mu).
LockInv == \A c, d \in Claimants : claims[c].pc # "idle" /\ claims[d].pc # "idle" => c = d

\* The first k transactions that, seen at the given time, are of the last hour
\* and may still be paid.
Open(k, time) == {t \in Txs : t <= k /\ time - records[t].born < Hour /\ ~Sunk(t)}

\* A claim for the address `to` that knows k transactions may be paid at that time.
Clear(k, time, to) ==
    /\ \A t \in Open(k, time) : ~(records[t].to = to /\ records[t].text = FaucetText)
    /\ Cardinality(Open(k, time)) < Limit

\* What a claim has found out stays true until it sends: it knows every payout.
ClaimInv ==
    \A c \in Claimants : claims[c].pc = "send" =>
        /\ \A t \in Payouts : t <= claims[c].known
        /\ Clear(claims[c].known, clock, claims[c].to)

\* And it stays true of the payout, which is written as the next claim looks for it.
PayoutInv ==
    \A u \in Payouts :
        /\ records[u].text = FaucetText
        /\ records[u].known < u
        /\ \A t \in Payouts : t < u => t <= records[u].known
        /\ Clear(records[u].known, records[u].born, records[u].to)

FaucetInv == TypeInv /\ FailedInv /\ LockInv /\ ClaimInv /\ PayoutInv

-----------------------------------------------------------------------------
(* Types. *)

\* What the type of the journal says of one record.
LEMMA RecordTypes ==
    ASSUME TypeInv
    PROVE  /\ Len(records) \in Nat /\ Txs = 1 .. Len(records) /\ DOMAIN fate = Txs
           /\ \A t \in Txs : /\ records[t] \in Record /\ t \in Nat /\ t <= Len(records)
                             /\ records[t].born \in Nat /\ records[t].known \in Nat
                             /\ fate[t] \in {"none", "paid", "failed"}
           /\ \A c \in Claimants :
                /\ claims[c] \in ClaimType
                /\ claims[c].pc \in {"idle", "send"}
                /\ claims[c].pc = "idle" => claims[c] = Idle
                /\ claims[c].pc = "send" => /\ claims[c].to \in Recipients
                                            /\ claims[c].known \in 0 .. Len(records)
  <1>1. Len(records) \in Nat /\ Txs = 1 .. Len(records) /\ DOMAIN fate = Txs
    BY DEF TypeInv, Txs
  <1>2. ASSUME NEW t \in Txs
        PROVE  /\ records[t] \in Record /\ t \in Nat /\ t <= Len(records)
               /\ records[t].born \in Nat /\ records[t].known \in Nat
               /\ fate[t] \in {"none", "paid", "failed"}
    <2>1. records[t] \in Record /\ t \in Nat /\ t <= Len(records) /\ fate[t] \in {"none", "paid", "failed"}
      BY <1>1 DEF TypeInv
    <2> QED BY <2>1 DEF Record
  <1>3. ASSUME NEW c \in Claimants
        PROVE  /\ claims[c] \in ClaimType
               /\ claims[c].pc \in {"idle", "send"}
               /\ claims[c].pc = "idle" => claims[c] = Idle
               /\ claims[c].pc = "send" => /\ claims[c].to \in Recipients
                                           /\ claims[c].known \in 0 .. Len(records)
    <2>1. claims[c] \in ClaimType
      BY DEF TypeInv
    <2> QED BY <2>1 DEF ClaimType, Idle
  <1> QED BY <1>1, <1>2, <1>3

\* The set of a claim's earlier transactions is finite, so that its size can be
\* compared.
LEMMA OpenFinite ==
    ASSUME TypeInv, NEW k, NEW time
    PROVE  IsFiniteSet(Open(k, time)) /\ Cardinality(Open(k, time)) \in Nat
  <1>1. IsFiniteSet(1 .. Len(records))
    BY RecordTypes, FS_Interval
  <1>2. Open(k, time) \subseteq 1 .. Len(records)
    BY RecordTypes DEF Open
  <1>3. IsFiniteSet(Open(k, time))
    BY <1>1, <1>2, FS_Subset
  <1> QED BY <1>3, FS_CardinalityType

-----------------------------------------------------------------------------
(* What no step does: take a record away, change what it says, let time go     *)
(* back or bring a sunk transaction up again.                                  *)

Grows ==
    /\ clock' \in Nat /\ clock <= clock'
    /\ Len(records) <= Len(records')
    /\ \A t \in Txs : /\ t \in Txs'
                      /\ records'[t].to = records[t].to /\ records'[t].by = records[t].by
                      /\ records'[t].text = records[t].text
                      /\ records'[t].born = records[t].born
                      /\ records'[t].known = records[t].known
                      /\ Sunk(t) => Sunk(t)'

\* Appending a record: Send and the journal's Create.
LEMMA SendGrows ==
    ASSUME TypeInv, NEW r \in Record, SendFromSource(r)
    PROVE  /\ Grows
           /\ records' \in Seq(Record) /\ fate' \in Seq({"none", "paid", "failed"})
           /\ Len(records') = Len(records) + 1 /\ Len(fate') = Len(records')
           /\ Txs' = Txs \cup {Len(records) + 1}
           /\ records'[Len(records) + 1] = r /\ fate'[Len(records) + 1] = "none"
           /\ \A t \in Txs : records'[t] = records[t] /\ fate'[t] = fate[t]
           /\ clock' = clock /\ revoked' = revoked
  <1> DEFINE n == Len(records) + 1
  <1>1. n \in Nat /\ Txs = 1 .. Len(records) /\ Len(fate) = Len(records) /\ DOMAIN fate = Txs
    BY RecordTypes DEF TypeInv
  <1>2. records' = Append(records, r) /\ fate' = Append(fate,
  "none") /\ clock' = clock /\ revoked' = revoked
    BY DEF SendFromSource
  <1>3. records' \in Seq(Record) /\ Len(records') = n /\ Txs' = 1 .. n /\ records'[n] = r
        /\ \A t \in Txs : records'[t] = records[t]
    BY <1>1, <1>2 DEF TypeInv, Txs
  <1>4. fate' \in Seq({"none", "paid", "failed"}) /\ Len(fate') = n /\ fate'[n] = "none"
        /\ \A t \in Txs : fate'[t] = fate[t]
    BY <1>1, <1>2 DEF TypeInv
  <1>5. Txs' = Txs \cup {n}
    BY <1>1, <1>3, RecordTypes
  <1>6. \A t \in Txs : Sunk(t) => Sunk(t)'
    BY <1>2, <1>3, <1>4 DEF Sunk
  <1>7. Len(records) <= Len(records') /\ clock' \in Nat /\ clock <= clock'
    BY <1>1, <1>2, <1>3, RecordTypes DEF TypeInv
  <1> QED BY <1>2, <1>3, <1>4, <1>5, <1>6, <1>7 DEF Grows

\* One field of one record: Refresh and Archive.
LEMMA UpdateGrows ==
    ASSUME TypeInv, NEW t \in Txs, NEW r \in Record,
           records' = [records EXCEPT ![t] = r],
           r.to = records[t].to, r.text = records[t].text, r.by = records[t].by,
           r.born = records[t].born, r.known = records[t].known,
           Sunk(t) => r.state = "failed" \/ t \in revoked,
           UNCHANGED <<clock, chainVars>>
    PROVE  Grows /\ records' \in Seq(Record) /\ Len(records') = Len(records) /\ Txs' = Txs
  <1>1. records' \in Seq(Record) /\ Len(records') = Len(records) /\ DOMAIN records' = DOMAIN records
    BY DEF TypeInv, Txs
  <1>2. Txs' = Txs /\ fate' = fate /\ revoked' = revoked /\ clock' = clock
    BY <1>1 DEF Txs, chainVars
  <1>3. ASSUME NEW x \in Txs
        PROVE  /\ x \in Txs'
               /\ records'[x].to = records[x].to /\ records'[x].by = records[x].by
               /\ records'[x].text = records[x].text
               /\ records'[x].born = records[x].born
               /\ records'[x].known = records[x].known
               /\ Sunk(x) => Sunk(x)'
    <2>1. records'[x] = IF x = t THEN r ELSE records[x]
      BY DEF Txs
    <2>2. CASE x = t
      BY <1>2, <2>1, <2>2 DEF Sunk
    <2>3. CASE x # t
      BY <1>2, <2>1, <2>3 DEF Sunk
    <2> QED BY <2>2, <2>3
  <1>4. clock' \in Nat /\ clock <= clock' /\ Len(records) <= Len(records')
    BY <1>1, <1>2, RecordTypes DEF TypeInv
  <1> QED BY <1>1, <1>2, <1>3, <1>4 DEF Grows

-----------------------------------------------------------------------------
(* Each action keeps the types and the recorded failures, and Grows.           *)

Base == TypeInv /\ FailedInv

\* A new record is open.
LEMMA SendBase ==
    ASSUME Base, NEW r \in Record, r.state = "open", SendFromSource(r),
           claims' \in [Claimants -> ClaimType]
    PROVE  Base' /\ Grows
  <1>1. TypeInv
    BY DEF Base
  <1>2. Len(records) \in Nat /\ Len(records') = Len(records) + 1
    BY <1>1, SendGrows, RecordTypes
  <1>3. ClaimType \subseteq ClaimType'
    BY <1>2 DEF ClaimType
  <1>4. claims' \in [Claimants -> ClaimType']
    BY <1>3
  <1>5. TypeInv'
    BY <1>1, <1>4, SendGrows DEF TypeInv
  <1>6. ASSUME NEW t \in Txs', records'[t].state = "failed" PROVE Sunk(t)'
    <2>1. t \in Txs
      BY <1>1, <1>6, SendGrows
    <2>2. records'[t] = records[t] /\ (Sunk(t) => Sunk(t)')
      BY <1>1, <2>1, SendGrows DEF Grows
    <2> QED BY <1>6, <2>1, <2>2 DEF Base, FailedInv
  <1>7. Grows
    BY <1>1, SendGrows
  <1> QED BY <1>5, <1>6, <1>7 DEF Base, FailedInv

\* An update records a failure only when the chain says so.
LEMMA UpdateBase ==
    ASSUME Base, NEW t \in Txs, NEW r \in Record,
           records' = [records EXCEPT ![t] = r],
           r.to = records[t].to, r.text = records[t].text, r.by = records[t].by,
           r.born = records[t].born, r.known = records[t].known,
           Sunk(t) => r.state = "failed" \/ t \in revoked,
           r.state = "failed" => fate[t] = "failed" \/ t \in revoked,
           UNCHANGED <<claims, clock, chainVars>>
    PROVE  Base' /\ Grows
  <1>1. TypeInv
    BY DEF Base
  <1>2. Grows /\ records' \in Seq(Record) /\ Len(records') = Len(records) /\ Txs' = Txs
    BY <1>1, UpdateGrows
  <1>3. ClaimType' = ClaimType /\ claims' = claims /\ fate' = fate /\ revoked' = revoked /\ clock' = clock
    BY <1>2 DEF ClaimType, chainVars
  <1>4. TypeInv'
    BY <1>1, <1>2, <1>3 DEF TypeInv
  <1>5. ASSUME NEW x \in Txs', records'[x].state = "failed" PROVE Sunk(x)'
    <2>1. x \in Txs
      BY <1>2
    <2>2. CASE x = t
      <3>1. records'[x] = r
        BY <2>1, <2>2 DEF Txs
      <3> QED BY <1>3, <1>5, <2>2, <3>1 DEF Sunk
    <2>3. CASE x # t
      <3>1. records'[x] = records[x] /\ (Sunk(x) => Sunk(x)')
        BY <1>2, <2>1, <2>3 DEF Txs, Grows
      <3> QED BY <1>5, <2>1, <3>1 DEF Base, FailedInv
    <2> QED BY <2>2, <2>3
  <1> QED BY <1>2, <1>4, <1>5 DEF Base, FailedInv

\* Claims alone change: ClaimScan, ClaimAbort and Crash.
LEMMA ClaimsBase ==
    ASSUME Base, claims' \in [Claimants -> ClaimType], UNCHANGED <<records, clock, chainVars>>
    PROVE  Base' /\ Grows
  <1>1. TypeInv
    BY DEF Base
  <1>2. records' = records /\ fate' = fate /\ revoked' = revoked /\ clock' = clock /\ ClaimType' = ClaimType
    BY DEF chainVars, ClaimType
  <1>3. TypeInv'
    BY <1>1, <1>2 DEF TypeInv
  <1>4. \A t : Sunk(t)' = Sunk(t)
    BY <1>2 DEF Sunk
  <1>5. Txs' = Txs
    BY <1>2 DEF Txs
  <1>6. FailedInv'
    BY <1>2, <1>4, <1>5 DEF Base, FailedInv
  <1>7. clock' \in Nat /\ clock <= clock' /\ Len(records) <= Len(records')
    BY <1>1, <1>2, RecordTypes DEF TypeInv
  <1>8. Grows
    BY <1>2, <1>4, <1>5, <1>7 DEF Grows
  <1> QED BY <1>3, <1>6, <1>8 DEF Base

\* The chain includes a transaction or drops it (Include, Reorg): a recorded failure
\* stands or is revoked.
LEMMA FateBase ==
    ASSUME Base, NEW t \in Txs, NEW f \in {"none", "paid", "failed"},
           fate' = [fate EXCEPT ![t] = f],
           revoked \subseteq revoked',
           records[t].state = "failed" => t \in revoked',
           UNCHANGED <<records, claims, clock>>
    PROVE  Base' /\ Grows
  <1>1. TypeInv /\ Txs' = Txs /\ records' = records /\ claims' = claims /\ clock' = clock /\ ClaimType' = ClaimType
    BY DEF Base, Txs, ClaimType
  <1>2. fate' \in Seq({"none", "paid", "failed"}) /\ Len(fate') = Len(fate)
    <2>1. t \in DOMAIN fate /\ fate \in Seq({"none", "paid", "failed"})
      BY <1>1, RecordTypes DEF TypeInv
    <2> QED BY <2>1
  <1>3. TypeInv'
    BY <1>1, <1>2 DEF TypeInv
  <1>4. ASSUME NEW x \in Txs PROVE Sunk(x) => Sunk(x)'
    <2>1. DOMAIN fate = Txs
      BY <1>1, RecordTypes
    <2>2. fate'[x] = IF x = t THEN f ELSE fate[x]
      BY <2>1
    <2> QED BY <1>1, <2>2 DEF Sunk
  <1>5. FailedInv'
    BY <1>1, <1>4 DEF Base, FailedInv
  <1>6. clock' \in Nat /\ clock <= clock' /\ Len(records) <= Len(records')
    BY <1>1, RecordTypes DEF TypeInv
  <1>7. Grows
    BY <1>1, <1>4, <1>6 DEF Grows
  <1> QED BY <1>3, <1>5, <1>7 DEF Base

\* A claim that is over, and one that is about to send, are claims.
LEMMA ClaimTypes ==
    ASSUME TypeInv, NEW c \in Claimants
    PROVE  /\ [claims EXCEPT ![c] = Idle] \in [Claimants -> ClaimType]
           /\ [d \in Claimants |-> Idle] \in [Claimants -> ClaimType]
           /\ \A to \in Recipients :
                [claims EXCEPT ![c] = [pc |-> "send", to |-> to, known |-> Len(records)]]
                    \in [Claimants -> ClaimType]
  <1>1. claims \in [Claimants -> ClaimType] /\ Idle \in ClaimType
    BY DEF TypeInv, ClaimType
  <1>2. ASSUME NEW to \in Recipients
        PROVE  [pc |-> "send", to |-> to, known |-> Len(records)] \in ClaimType
    BY RecordTypes DEF ClaimType
  <1>3. ASSUME NEW v \in ClaimType PROVE [claims EXCEPT ![c] = v] \in [Claimants -> ClaimType]
    BY <1>1
  <1> QED BY <1>1, <1>2, <1>3

\* Every step keeps the types and the recorded failures, and takes nothing back.
LEMMA NextBase ==
    ASSUME Base, Next
    PROVE  Base' /\ Grows
  <1>1. TypeInv
    BY DEF Base
  <1>2. ASSUME NEW t \in Txs, Reorg(t) PROVE Base' /\ Grows
    <2>1. fate' = [fate EXCEPT ![t] = "none"]
          /\ revoked \subseteq revoked'
          /\ (records[t].state = "failed" => t \in revoked')
          /\ UNCHANGED <<records, claims, clock>>
      BY <1>2 DEF Reorg
    <2> QED BY <2>1, FateBase
  <1>3. ASSUME NEW t \in Txs, NEW outcome \in {"paid", "failed"}, Include(t, outcome)
        PROVE  Base' /\ Grows
    <2>1. fate' = [fate EXCEPT ![t] = outcome]
          /\ revoked' = revoked /\ fate[t] = "none"
          /\ UNCHANGED <<records, claims, clock>>
      BY <1>3 DEF Include
    <2>2. records[t].state = "failed" => t \in revoked'
      BY <2>1 DEF Base, FailedInv, Sunk
    <2> QED BY <2>1, <2>2, FateBase
  <1>4. ASSUME NEW t \in Txs, Refresh(t) PROVE Base' /\ Grows
    <2> DEFINE r == [records[t] EXCEPT !.state = Seen(t)]
    <2>1. records' = [records EXCEPT ![t] = r] /\ UNCHANGED <<claims, clock, chainVars>>
      BY <1>4 DEF Refresh
    <2>2. records[t] \in Record /\ fate[t] \in {"none", "paid", "failed"}
      BY <1>1, RecordTypes
    <2>3. Seen(t) \in {"open", "succeeded", "failed"}
          /\ (fate[t] = "failed" => Seen(t) = "failed") /\ (Seen(t) = "failed" => fate[t] = "failed")
      BY <2>2 DEF Seen
    <2>4. r \in Record /\ r.state = Seen(t)
          /\ r.to = records[t].to /\ r.text = records[t].text /\ r.by = records[t].by
          /\ r.born = records[t].born /\ r.known = records[t].known
      BY <2>2, <2>3 DEF Record
    <2>5. (Sunk(t) => r.state = "failed" \/ t \in revoked)
          /\ (r.state = "failed" => fate[t] = "failed" \/ t \in revoked)
      BY <2>3, <2>4 DEF Sunk
    <2> HIDE DEF r
    <2> QED BY <2>1, <2>4, <2>5, UpdateBase
  <1>5. ASSUME NEW t \in Txs, Archive(t) PROVE Base' /\ Grows
    <2> DEFINE r == [records[t] EXCEPT !.archived = TRUE]
    <2>1. records' = [records EXCEPT ![t] = r] /\ UNCHANGED <<claims, clock, chainVars>>
      BY <1>5 DEF Archive
    <2>2. records[t] \in Record
      BY <1>1, RecordTypes
    <2>3. r \in Record /\ r.state = records[t].state
          /\ r.to = records[t].to /\ r.text = records[t].text /\ r.by = records[t].by
          /\ r.born = records[t].born /\ r.known = records[t].known
      BY <2>2 DEF Record
    <2>4. (Sunk(t) => r.state = "failed" \/ t \in revoked)
          /\ (r.state = "failed" => fate[t] = "failed" \/ t \in revoked)
      BY <2>3 DEF Sunk, Base, FailedInv
    <2> HIDE DEF r
    <2> QED BY <2>1, <2>3, <2>4, UpdateBase
  <1>6. ASSUME NEW c \in Claimants, ClaimSend(c) PROVE Base' /\ Grows
    <2>1. Payout(claims[c]) \in Record /\ Payout(claims[c]).state = "open"
      BY <1>1, <1>6, RecordTypes DEF ClaimSend, Payout, Record, Texts, TypeInv
    <2>2. SendFromSource(Payout(claims[c])) /\ claims' \in [Claimants -> ClaimType]
      BY <1>1, <1>6, ClaimTypes DEF ClaimSend
    <2> QED BY <2>1, <2>2, SendBase
  <1>7. ASSUME NEW c \in Claimants, ClaimAbort(c) PROVE Base' /\ Grows
    BY <1>1, <1>7, ClaimTypes, ClaimsBase DEF ClaimAbort
  <1>8. ASSUME NEW c \in Claimants, NEW to \in Recipients, ClaimScan(c, to) PROVE Base' /\ Grows
    BY <1>1, <1>8, ClaimTypes, ClaimsBase DEF ClaimScan
  <1>9. ASSUME NEW to \in Recipients, NEW text \in Texts, OwnerSend(to, text)
        PROVE  Base' /\ Grows
    <2> DEFINE r == [to |-> to, text |-> text, by |-> "owner", state |-> "open", archived |-> FALSE,
                     born |-> clock, known |-> Len(records)]
    <2>1. r \in Record /\ r.state = "open"
      BY <1>1, RecordTypes DEF Record, TypeInv
    <2>2. SendFromSource(r) /\ claims' \in [Claimants -> ClaimType]
      BY <1>1, <1>9 DEF OwnerSend, TypeInv
    <2> HIDE DEF r
    <2> QED BY <2>1, <2>2, SendBase
  <1>10. CASE Tick
    <2>1. clock \in Nat /\ clock' = clock + 1 /\ records' = records /\ claims' = claims
          /\ fate' = fate /\ revoked' = revoked /\ Txs' = Txs /\ ClaimType' = ClaimType
      BY <1>1, <1>10 DEF Tick, chainVars, Txs, ClaimType, TypeInv
    <2>2. \A t : Sunk(t)' = Sunk(t)
      BY <2>1 DEF Sunk
    <2>3. TypeInv'
      BY <1>1, <2>1 DEF TypeInv
    <2>4. FailedInv'
      BY <2>1, <2>2 DEF Base, FailedInv
    <2>5. clock' \in Nat /\ clock <= clock' /\ Len(records) <= Len(records')
      BY <1>1, <2>1, RecordTypes
    <2>6. Grows
      BY <2>1, <2>2, <2>5 DEF Grows
    <2> QED BY <2>3, <2>4, <2>6 DEF Base
  <1>11. CASE Crash
    <2>1. claims' \in [Claimants -> ClaimType] /\ UNCHANGED <<records, clock, chainVars>>
      BY <1>11 DEF Crash, ClaimType
    <2> QED BY <2>1, ClaimsBase
  <1> QED BY <1>2, <1>3, <1>4, <1>5, <1>6, <1>7, <1>8, <1>9, <1>10, <1>11 DEF Next

-----------------------------------------------------------------------------
(* The gap between the look and the Send.                                      *)

\* The known transactions of the hour that may still be paid only become fewer, and
\* a claim that was clear stays clear.
LEMMA ClearKept ==
    ASSUME TypeInv, TypeInv', Grows, NEW k \in Nat, k <= Len(records),
           NEW a \in Nat, NEW b \in Nat, a <= b, NEW to, Clear(k, a, to)
    PROVE  Clear(k, b, to)'
  <1>1. ASSUME NEW t \in Open(k, b)' PROVE  /\ t \in Open(k, a)
               /\ records'[t].to = records[t].to /\ records'[t].text = records[t].text
    <2>1. t \in Txs' /\ t <= k /\ b - records'[t].born < Hour /\ ~Sunk(t)'
      BY <1>1 DEF Open
    <2>2. t \in Txs
      <3>1. Txs' = 1 .. Len(records') /\ Len(records') \in Nat
        BY DEF TypeInv, Txs
      <3>2. Txs = 1 .. Len(records) /\ Len(records) \in Nat
        BY RecordTypes
      <3> QED BY <2>1, <3>1, <3>2
    <2>3. records'[t].born = records[t].born /\ records'[t].to = records[t].to
          /\ records'[t].text = records[t].text /\ (Sunk(t) => Sunk(t)')
      BY <2>2 DEF Grows
    <2>4. records[t].born \in Nat
      BY <2>2, RecordTypes
    <2>5. a - records[t].born < Hour
      BY <2>1, <2>3, <2>4, FaucetAssumption
    <2> QED BY <2>1, <2>2, <2>3, <2>5 DEF Open
  <1>2. IsFiniteSet(Open(k, a)) /\ Cardinality(Open(k, a)) \in Nat
    BY OpenFinite
  <1>3. Open(k, b)' \subseteq Open(k, a)
    BY <1>1
  <1>4. IsFiniteSet(Open(k, b)') /\ Cardinality(Open(k, b)') <= Cardinality(Open(k, a))
    BY <1>2, <1>3, FS_Subset
  <1>5. Cardinality(Open(k, b)') \in Nat
    BY <1>4, FS_CardinalityType
  <1>6. Cardinality(Open(k, b)') < Limit
    BY <1>2, <1>4, <1>5, FaucetAssumption DEF Clear
  <1> QED BY <1>1, <1>6 DEF Clear

-----------------------------------------------------------------------------
(* Claims and payouts. *)

\* The lock: a claim starts only when no other is under way.
LEMMA NextLock ==
    ASSUME TypeInv, LockInv, Next
    PROVE  LockInv'
  <1> SUFFICES ASSUME NEW c \in Claimants, NEW d \in Claimants,
                      claims'[c].pc # "idle", claims'[d].pc # "idle"
               PROVE  c = d
    BY DEF LockInv
  <1>1. claims \in [Claimants -> ClaimType] /\ Idle.pc = "idle"
    BY DEF TypeInv, Idle
  <1>2. CASE claims' = claims
    BY <1>2 DEF LockInv
  <1>3. ASSUME NEW x \in Claimants, claims' = [claims EXCEPT ![x] = Idle] PROVE c = d
    BY <1>1, <1>3 DEF LockInv
  <1>4. ASSUME NEW x \in Claimants, NEW to \in Recipients, ClaimScan(x, to) PROVE c = d
    BY <1>1, <1>4 DEF ClaimScan, LockFree
  <1>5. CASE Crash
    BY <1>1, <1>5 DEF Crash
  <1>6. \/ claims' = claims \/ Crash
        \/ \E x \in Claimants : claims' = [claims EXCEPT ![x] = Idle]
        \/ \E x \in Claimants, to \in Recipients : ClaimScan(x, to)
    BY DEF Next, Reorg, Refresh, Archive, Include, ClaimSend, ClaimAbort, OwnerSend, Tick
  <1> QED BY <1>2, <1>3, <1>4, <1>5, <1>6

\* A new payout comes from a claim under way.
LEMMA NewPayout ==
    ASSUME TypeInv, Next, Grows, NEW u \in Payouts', u \notin Payouts
    PROVE  \E c \in Claimants : /\ ClaimSend(c) /\ u = Len(records) + 1
                                /\ records'[u] = Payout(claims[c])
  <1>1. u \in Txs' /\ records'[u].by = "faucet"
    BY DEF Payouts
  <1>2. u \notin Txs
    BY <1>1 DEF Payouts, Grows
  <1>3. ASSUME NEW t \in Txs, NEW r, records' = [records EXCEPT ![t] = r] PROVE FALSE
    BY <1>1, <1>2, <1>3 DEF Txs
  <1>4. ASSUME records' = records PROVE FALSE
    BY <1>1, <1>2, <1>4 DEF Txs
  <1>5. ASSUME NEW r \in Record, SendFromSource(r) PROVE u = Len(records) + 1 /\ records'[u] = r
    BY <1>1, <1>2, <1>5, SendGrows
  <1>6. ASSUME NEW to \in Recipients, NEW text \in Texts, OwnerSend(to, text)
        PROVE  FALSE
    <2> DEFINE r == [to |-> to, text |-> text, by |-> "owner", state |-> "open", archived |-> FALSE,
                     born |-> clock, known |-> Len(records)]
    <2>1. r \in Record /\ r.by = "owner"
      BY RecordTypes DEF Record, TypeInv
    <2>2. SendFromSource(r)
      BY <1>6 DEF OwnerSend
    <2> HIDE DEF r
    <2> QED BY <1>1, <1>5, <2>1, <2>2
  <1>7. ASSUME NEW c \in Claimants, ClaimSend(c)
        PROVE  u = Len(records) + 1 /\ records'[u] = Payout(claims[c])
    <2>1. Payout(claims[c]) \in Record
      BY <1>7, RecordTypes DEF ClaimSend, Payout, Record, Texts, TypeInv
    <2> QED BY <1>5, <1>7, <2>1 DEF ClaimSend
  <1>8. \/ records' = records
        \/ \E t \in Txs : \E r : records' = [records EXCEPT ![t] = r]
        \/ \E to \in Recipients, text \in Texts : OwnerSend(to, text)
        \/ \E c \in Claimants : ClaimSend(c)
    BY DEF Next, Reorg, Refresh, Archive, Include, ClaimScan, ClaimAbort, Tick, Crash
  <1> QED BY <1>3, <1>4, <1>6, <1>7, <1>8

\* A claim under way was so before, or has just looked.
LEMMA ClaimOrigin ==
    ASSUME TypeInv, Next, NEW c \in Claimants, claims'[c].pc = "send"
    PROVE  \/ claims'[c] = claims[c]
           \/ \E to \in Recipients :
                 /\ ClaimScan(c, to)
                 /\ claims'[c] = [pc |-> "send", to |-> to, known |-> Len(records)]
  <1>1. claims \in [Claimants -> ClaimType] /\ Idle.pc # "send"
    BY DEF TypeInv, Idle
  <1>2. ASSUME NEW x \in Claimants,
  claims' = [claims EXCEPT ![x] = Idle] PROVE claims'[c] = claims[c]
    BY <1>1, <1>2
  <1>3. ASSUME NEW x \in Claimants, NEW to \in Recipients, ClaimScan(x, to)
        PROVE  \/ claims'[c] = claims[c]
               \/ /\ x = c
                  /\ claims'[c] = [pc |-> "send", to |-> to, known |-> Len(records)]
    BY <1>1, <1>3 DEF ClaimScan
  <1>4. ~Crash
    BY <1>1 DEF Crash
  <1>5. \/ claims' = claims \/ Crash
        \/ \E x \in Claimants : claims' = [claims EXCEPT ![x] = Idle]
        \/ \E x \in Claimants, to \in Recipients : ClaimScan(x, to)
    BY DEF Next, Reorg, Refresh, Archive, Include, ClaimSend, ClaimAbort, OwnerSend, Tick
  <1> QED BY <1>2, <1>3, <1>4, <1>5

\* What the scan finds is what ClaimInv asks for.
LEMMA ScanIsClear ==
    ASSUME Base, NEW c \in Claimants, NEW to \in Recipients, ClaimScan(c, to)
    PROVE  Clear(Len(records), clock, to)
  <1>1. TypeInv /\ Previous(to) = {} /\ ~AtLimit
    BY DEF Base, ClaimScan
  <1>2. Open(Len(records), clock) \subseteq Recent
    BY DEF Open, Recent, Base, FailedInv
  <1>3. IsFiniteSet(Recent)
    <2>1. Txs = 1 .. Len(records) /\ Len(records) \in Nat
      BY <1>1, RecordTypes
    <2>2. Recent \subseteq 1 .. Len(records)
      BY <2>1 DEF Recent
    <2>3. IsFiniteSet(1 .. Len(records))
      BY <2>1, FS_Interval
    <2> QED BY <2>2, <2>3, FS_Subset
  <1>4. Cardinality(Open(Len(records), clock)) <= Cardinality(Recent)
    BY <1>2, <1>3, FS_Subset
  <1>5. Cardinality(Open(Len(records), clock)) \in Nat /\ Cardinality(Recent) \in Nat
    BY <1>1, <1>3, OpenFinite, FS_CardinalityType
  <1>6. Cardinality(Open(Len(records), clock)) < Limit
    BY <1>1, <1>4, <1>5, FaucetAssumption DEF AtLimit
  <1>7. \A t \in Open(Len(records), clock) : ~(records[t].to = to /\ records[t].text = FaucetText)
    BY <1>1, <1>2 DEF Previous
  <1> QED BY <1>6, <1>7 DEF Clear

\* A claim's knowledge survives every step, the owner's transactions included; only
\* its own Send adds a payout, by the lock.
LEMMA NextClaim ==
    ASSUME FaucetInv, TypeInv', Grows, LockInv', Next
    PROVE  ClaimInv'
  <1> SUFFICES ASSUME NEW c \in Claimants, claims'[c].pc = "send"
               PROVE  /\ \A t \in Payouts' : t <= claims'[c].known
                      /\ Clear(claims[c].known, clock, claims[c].to)'
    BY DEF ClaimInv
  <1>1. TypeInv /\ Base /\ clock \in Nat /\ clock' \in Nat /\ clock <= clock'
    BY DEF FaucetInv, Base, TypeInv, Grows
  <1>2. CASE claims'[c] = claims[c]
    <2>1. PICK k, to, before, after : /\ k = claims[c].known /\ to = claims[c].to
                                 /\ before = clock /\ after = clock'
      OBVIOUS
    <2>2. k \in Nat /\ k <= Len(records) /\ before \in Nat /\ after \in Nat /\ before <= after
      BY <1>1, <1>2, <2>1, RecordTypes
    <2>3. Clear(k, before, to) /\ \A t \in Payouts : t <= k
      BY <1>2, <2>1 DEF FaucetInv, ClaimInv
    <2>4. Clear(k, after, to)'
      BY <1>1, <2>2, <2>3, ClearKept
    <2>5. Clear(claims[c].known, clock, claims[c].to)'
      BY <1>2, <2>1, <2>4
    <2>6. ASSUME NEW u \in Payouts' PROVE u \in Payouts
      <3>1. SUFFICES ASSUME u \notin Payouts PROVE FALSE
        OBVIOUS
      <3>2. PICK d \in Claimants : ClaimSend(d)
        BY <1>1, <3>1, NewPayout
      <3>3. claims[d].pc # "idle" /\ claims' = [claims EXCEPT ![d] = Idle]
        BY <3>2 DEF ClaimSend
      <3>4. c = d
        BY <1>2, <3>3 DEF FaucetInv, LockInv
      <3>5. claims'[c] = Idle
        BY <1>1, <3>3, <3>4 DEF TypeInv
      <3> QED BY <3>5 DEF Idle
    <2> QED BY <1>2, <2>1, <2>3, <2>5, <2>6
  <1>3. ASSUME NEW to \in Recipients, ClaimScan(c, to),
               claims'[c] = [pc |-> "send", to |-> to, known |-> Len(records)]
        PROVE  /\ \A t \in Payouts' : t <= claims'[c].known
               /\ Clear(claims[c].known, clock, claims[c].to)'
    <2>1. PICK k, before, after : k = Len(records) /\ before = clock /\ after = clock'
      OBVIOUS
    <2>2. k \in Nat /\ k <= Len(records) /\ before \in Nat /\ after \in Nat /\ before <= after
      BY <1>1, <2>1, RecordTypes
    <2>3. Clear(k, before, to)
      BY <1>1, <1>3, <2>1, ScanIsClear
    <2>4. Clear(k, after, to)'
      BY <1>1, <2>2, <2>3, ClearKept
    <2>5. claims'[c].known = k /\ claims'[c].to = to
      BY <1>3, <2>1
    <2>6. Clear(claims[c].known, clock, claims[c].to)'
      BY <2>1, <2>4, <2>5
    <2>7. \A t \in Payouts' : t <= k
      <3>1. Payouts' = Payouts
        BY <1>3 DEF ClaimScan, Payouts, Txs
      <3> QED BY <1>1, <2>1, <3>1, RecordTypes DEF Payouts
    <2> QED BY <2>5, <2>6, <2>7
  <1> QED BY <1>1, <1>2, <1>3, ClaimOrigin

\* What held of a payout when it was sent still holds.
LEMMA NextPayout ==
    ASSUME FaucetInv, TypeInv', Grows, Next
    PROVE  PayoutInv'
  <1> SUFFICES ASSUME NEW u \in Payouts'
               PROVE  /\ records'[u].text = FaucetText
                      /\ records'[u].known < u
                      /\ \A t \in Payouts' : t < u => t <= records'[u].known
                      /\ Clear(records[u].known, records[u].born, records[u].to)'
    BY DEF PayoutInv
  <1>1. TypeInv /\ clock \in Nat /\ Len(records) \in Nat
    BY RecordTypes DEF FaucetInv, TypeInv
  <1>2. ASSUME NEW t \in Payouts', t \notin Payouts PROVE t = Len(records) + 1
    BY <1>1, <1>2, NewPayout
  <1>3. CASE u \in Payouts
    <2>1. u \in Txs /\ records'[u].to = records[u].to /\ records'[u].born = records[u].born
          /\ records'[u].known = records[u].known /\ records'[u].text = records[u].text
      BY <1>3 DEF Payouts, Grows
    <2>2. PICK k, to, born : k = records[u].known /\ to = records[u].to /\ born = records[u].born
      OBVIOUS
    <2>3. k \in Nat /\ born \in Nat /\ u \in Nat /\ u <= Len(records)
      BY <1>1, <2>1, <2>2, RecordTypes
    <2>4. k < u /\ Clear(k, born, to) /\ (\A t \in Payouts : t < u => t <= k)
          /\ records[u].text = FaucetText
      BY <1>3, <2>2 DEF FaucetInv, PayoutInv
    <2>5. Clear(k, born, to)'
      <3>1. k <= Len(records) /\ born <= born
        BY <1>1, <2>3, <2>4
      <3> QED BY <1>1, <2>3, <2>4, <3>1, ClearKept
    <2>6. Clear(records[u].known, records[u].born, records[u].to)'
      BY <2>1, <2>2, <2>5
    <2>7. \A t \in Payouts' : t < u => t <= k
      BY <1>1, <1>2, <2>3, <2>4
    <2> QED BY <2>1, <2>2, <2>4, <2>6, <2>7
  <1>4. CASE u \notin Payouts
    <2>1. PICK c \in Claimants : ClaimSend(c) /\ u = Len(records) + 1 /\ records'[u] = Payout(claims[c])
      BY <1>1, <1>4, NewPayout
    <2>2. PICK k, to, born : k = claims[c].known /\ to = claims[c].to /\ born = clock
      OBVIOUS
    <2>3. claims[c].pc = "send" /\ records'[u].known = k /\ records'[u].to = to /\ records'[u].born = born
          /\ records'[u].text = FaucetText
      BY <2>1, <2>2 DEF ClaimSend, Payout
    <2>4. k \in Nat /\ k <= Len(records) /\ born \in Nat /\ born <= born
      BY <1>1, <2>2, <2>3, RecordTypes
    <2>5. Clear(k, born, to) /\ \A t \in Payouts : t <= k
      BY <2>2, <2>3 DEF FaucetInv, ClaimInv
    <2>6. Clear(k, born, to)'
      BY <1>1, <2>4, <2>5, ClearKept
    <2>7. Clear(records[u].known, records[u].born, records[u].to)'
      BY <2>3, <2>6
    <2>8. \A t \in Payouts' : t < u => t <= k
      <3> SUFFICES ASSUME NEW t \in Payouts', t < u PROVE t <= k
        OBVIOUS
      <3>1. t \in Payouts
        BY <1>1, <1>2, <2>1
      <3> QED BY <2>5, <3>1
    <2> QED BY <1>1, <2>1, <2>3, <2>4, <2>7, <2>8
  <1> QED BY <1>3, <1>4

-----------------------------------------------------------------------------
(* Theorems. *)

\* The invariant is inductive: Init establishes it and every step keeps it.
THEOREM FaucetInvariant == Spec => []FaucetInv
  <1>1. Init => FaucetInv
    <2> SUFFICES ASSUME Init PROVE FaucetInv
      OBVIOUS
    <2>1. TypeInv
      BY DEF Init, TypeInv, ClaimType
    <2>2. Txs = {} /\ \A c \in Claimants : claims[c].pc = "idle"
      BY DEF Init, Txs, Idle
    <2> QED BY <2>1, <2>2 DEF FaucetInv, FailedInv, LockInv, ClaimInv, PayoutInv, Payouts
  <1>2. FaucetInv /\ [Next]_vars => FaucetInv'
    <2> SUFFICES ASSUME FaucetInv, [Next]_vars PROVE FaucetInv'
      OBVIOUS
    <2>1. CASE Next
      <3>1. Base' /\ Grows /\ Base /\ TypeInv /\ LockInv
        BY <2>1, NextBase DEF FaucetInv, Base
      <3>2. TypeInv' /\ FailedInv'
        BY <3>1 DEF Base
      <3>3. LockInv'
        BY <2>1, <3>1, NextLock
      <3>4. ClaimInv'
        BY <2>1, <3>1, <3>2, <3>3, NextClaim
      <3>5. PayoutInv'
        BY <2>1, <3>1, <3>2, NextPayout
      <3> QED BY <3>2, <3>3, <3>4, <3>5 DEF FaucetInv
    <2>2. CASE UNCHANGED vars
      <3>1. records' = records /\ claims' = claims /\ clock' = clock /\ fate' = fate /\ revoked' = revoked
        BY <2>2 DEF vars, chainVars
      <3>2. Txs' = Txs /\ Payouts' = Payouts /\ ClaimType' = ClaimType /\ \A t : Sunk(t)' = Sunk(t)
        BY <3>1 DEF Txs, Payouts, ClaimType, Sunk
      <3>3. \A k, time : Open(k, time)' = Open(k, time)
        BY <3>1, <3>2 DEF Open
      <3>4. \A k, time, to : Clear(k, time, to)' = Clear(k, time, to)
        BY <3>1, <3>3 DEF Clear
      <3>5. TypeInv' /\ FailedInv' /\ LockInv'
        BY <3>1, <3>2 DEF FaucetInv, TypeInv, FailedInv, LockInv
      <3>6. ClaimInv' /\ PayoutInv'
        BY <3>1, <3>2, <3>4 DEF FaucetInv, ClaimInv, PayoutInv
      <3> QED BY <3>5, <3>6 DEF FaucetInv
    <2> QED BY <2>1, <2>2
  <1> QED BY <1>1, <1>2, PTL DEF Spec

\* The chain never holds a payout next to an earlier payout to the same address from
\* the same hour, nor next to an earlier manual transfer written as the faucet writes
\* its own (TestFaucet.Claim, ClaimTRX), up to the exceptions the property names.
THEOREM FaucetPaysOnce == Spec => []PaidOncePerHour
  <1>1. FaucetInv => PaidOncePerHour
    <2> SUFFICES ASSUME FaucetInv, NEW t \in Txs \ revoked, NEW u \in Payouts,
                        t < u, SameHour(t, u),
                        t \in Payouts \/ (t <= records[u].known /\ records[t].text = FaucetText),
                        records[t].to = records[u].to, fate[t] = "paid"
                 PROVE  FALSE
      BY DEF PaidOncePerHour
    <2>1. t <= records[u].known /\ Clear(records[u].known, records[u].born, records[u].to)
          /\ records[t].text = FaucetText
      BY DEF FaucetInv, PayoutInv
    <2>2. ~Sunk(t)
      BY DEF Sunk
    <2>3. t \in Open(records[u].known, records[u].born)
      BY <2>1, <2>2 DEF Open, SameHour
    <2> QED BY <2>1, <2>3 DEF Clear
  <1> QED BY <1>1, FaucetInvariant, PTL

\* A payout has fewer than Limit transactions of its last hour behind it that are
\* paid (the count over the journal in Claim and ClaimTRX), up to the two exceptions
\* of HourlyLimit.
THEOREM FaucetHourlyLimit == Spec => []HourlyLimit
  <1>1. FaucetInv => HourlyLimit
    <2> SUFFICES ASSUME FaucetInv, NEW u \in Payouts
                 PROVE  Cardinality({t \in Txs \ revoked :
                                        /\ t < u /\ SameHour(t, u)
                                        /\ t \in Payouts \/ t <= records[u].known
                                        /\ fate[t] = "paid"}) < Limit
      BY DEF HourlyLimit
    <2> DEFINE paid == {t \in Txs \ revoked : /\ t < u /\ SameHour(t, u)
                                              /\ t \in Payouts \/ t <= records[u].known
                                              /\ fate[t] = "paid"}
               open == Open(records[u].known, records[u].born)
    <2>1. TypeInv /\ PayoutInv
      BY DEF FaucetInv
    <2>2. paid \subseteq open
      BY <2>1 DEF Open, SameHour, Sunk, PayoutInv
    <2>3. IsFiniteSet(open) /\ Cardinality(open) \in Nat /\ Cardinality(open) < Limit
      BY <2>1, OpenFinite DEF PayoutInv, Clear
    <2> HIDE DEF paid, open
    <2>4. IsFiniteSet(paid) /\ Cardinality(paid) <= Cardinality(open)
      BY <2>2, <2>3, FS_Subset
    <2>5. Cardinality(paid) \in Nat
      BY <2>4, FS_CardinalityType
    <2>6. Cardinality(paid) < Limit
      BY <2>3, <2>4, <2>5, FaucetAssumption
    <2> QED BY <2>6 DEF paid
  <1> QED BY <1>1, FaucetInvariant, PTL
-----------------------------------------------------------------------------
(* The gates.                                                                  *)

-----------------------------------------------------------------------------
(* The table of routes: no route that visitors may use without the shared demo *)
(* belongs to a wallet, and every route of the shared demo that compares a     *)
(* password is charged for it.                                                 *)

Unfiltered == {"healthz", "network", "balance", "transaction", "watch/token"}

RouteOk(route) ==
    /\ route.post \in BOOLEAN
    /\ route.does \subseteq {"filter", "charge", "verify"}
    /\ route.path \in Unfiltered => "filter" \notin route.does
    /\ route.path \in Unfiltered \/ ~route.post => "charge" \notin route.does /\ "verify" \notin route.does
    /\ "verify" \in route.does /\ route.path \in Gates!SharedPosts
           => "charge" \in route.does /\ Gates!Metered(route)

\* Reads of a wallet need no password.
LEMMA GetOk ==
    ASSUME NEW paths, \A p \in paths : p \notin Unfiltered, NEW route \in Gates!Get(paths)
    PROVE  RouteOk(route)
  <1>1. PICK p \in paths : route = [path |-> p, post |-> FALSE, does |-> {"filter"}]
    BY DEF Gates!Get, Gates!Route
  <1>2. route.path = p /\ route.post = FALSE /\ route.does = {"filter"}
    BY <1>1
  <1> QED BY <1>2 DEF RouteOk

\* A route that does nothing before its service is called.
LEMMA OpenOk ==
    ASSUME NEW p, NEW post \in BOOLEAN
    PROVE  RouteOk(Gates!Route(p, post, {}))
  <1>1. PICK route : route = [path |-> p, post |-> post, does |-> {}]
    OBVIOUS
  <1>2. route.path = p /\ route.post = post /\ route.does = {}
    BY <1>1
  <1> QED BY <1>1, <1>2 DEF RouteOk, Gates!Route

\* Posts to a wallet: one that compares a password is not of the shared demo, or it is
\* charged and metered.
LEMMA PostOk ==
    ASSUME NEW paths, NEW does, does \subseteq {"charge", "verify"},
           \A p \in paths : p \notin Unfiltered,
           "verify" \in does => \/ \A p \in paths : p \notin Gates!SharedPosts
                                \/ /\ "charge" \in does
                                   /\ \A p \in paths : p \in {"accounts", "send", "solana/send", "tron/send",
                                                             "backup", "solana/backup", "tron/backup"},
           NEW route \in Gates!Post(paths, does)
    PROVE  RouteOk(route)
  <1>1. PICK p \in paths : route = [path |-> p, post |-> TRUE, does |-> {"filter"} \cup does]
    BY DEF Gates!Post, Gates!Route
  <1>2. route.path = p /\ route.post = TRUE /\ route.does = {"filter"} \cup does
    BY <1>1
  <1> QED BY <1>2 DEF RouteOk, Gates!Metered

\* Every route the service registers.
LEMMA RoutesOk == ASSUME NEW route \in Gates!Routes PROVE RouteOk(route)
  <1> USE DEF Unfiltered, Gates!SharedPosts
  <1>1. CASE route \in Gates!PageRoutes
    BY <1>1, OpenOk DEF Gates!PageRoutes
  <1>2. CASE route \in Gates!NetworkRoutes
    BY <1>2, OpenOk DEF Gates!NetworkRoutes
  <1>3. CASE route \in Gates!ObservationRoutes
    BY <1>3, OpenOk DEF Gates!ObservationRoutes
  <1>4. CASE route \in Gates!PoolsRoute
    BY <1>4, PostOk DEF Gates!PoolsRoute
  <1>5. CASE route \in Gates!StatusRoutes
    BY <1>5, GetOk DEF Gates!StatusRoutes
  <1>6. CASE route \in Gates!ImportRoutes
    BY <1>6, PostOk DEF Gates!ImportRoutes
  <1>7. CASE route \in Gates!AccountRoutes
    <2>1. CASE route \in Gates!Get({"accounts"})
      BY <2>1, GetOk
    <2>2. CASE route \in Gates!Post({"accounts"}, {"charge"})
      BY <2>2, PostOk
    <2>3. CASE route \in Gates!Post({"accounts/update"}, {})
      BY <2>3, PostOk
    <2> QED BY <1>7, <2>1, <2>2, <2>3 DEF Gates!AccountRoutes
  <1>8. CASE route \in Gates!CreateRoutes
    BY <1>8, PostOk DEF Gates!CreateRoutes
  <1>9. CASE route \in Gates!BackupRoute
    BY <1>9, PostOk DEF Gates!BackupRoute
  <1>10. CASE route \in Gates!TokenRoutes
    <2>1. CASE route \in Gates!Get({"token"})
      BY <2>1, GetOk
    <2>2. CASE route \in Gates!Post({"token"}, {})
      BY <2>2, PostOk
    <2> QED BY <1>10, <2>1, <2>2 DEF Gates!TokenRoutes
  <1>11. CASE route \in Gates!QuoteRoute
    BY <1>11, PostOk DEF Gates!QuoteRoute
  <1>12. CASE route \in Gates!SendRoute
    BY <1>12, PostOk DEF Gates!SendRoute
  <1>13. CASE route \in Gates!RetryRoute
    BY <1>13, PostOk DEF Gates!RetryRoute
  <1>14. CASE route \in Gates!ActivityRoutes
    <2>1. CASE route \in Gates!Get({"activity"})
      BY <2>1, GetOk
    <2>2. CASE route \in Gates!Post({"activity/import", "activity/sync"}, {})
      BY <2>2, PostOk
    <2> QED BY <1>14, <2>1, <2>2 DEF Gates!ActivityRoutes
  <1>15. CASE route \in Gates!ScanRoutes
    <2>1. CASE route \in Gates!Get({"scan"})
      BY <2>1, GetOk
    <2>2. CASE route \in Gates!Post({"scan"}, {})
      BY <2>2, PostOk
    <2> QED BY <1>15, <2>1, <2>2 DEF Gates!ScanRoutes
  <1>16. CASE route \in Gates!HistoryRoute
    BY <1>16, GetOk DEF Gates!HistoryRoute
  <1>17. CASE route \in Gates!EscrowRoutes
    BY <1>17, GetOk DEF Gates!EscrowRoutes
  <1>18. CASE route \in Gates!FaucetRoutes
    <2>1. CASE route \in Gates!Get({"faucet", "faucet/tron/hash"})
      BY <2>1, GetOk
    <2>2. CASE route \in Gates!Post({"faucet", "faucet/solana", "faucet/tron"}, {})
      BY <2>2, PostOk
    <2> QED BY <1>18, <2>1, <2>2 DEF Gates!FaucetRoutes
  <1>19. CASE route \in Gates!KeyRoutes
    <2>1. CASE route \in Gates!Post({"solana/backup", "tron/backup"}, {"charge", "verify"})
      BY <2>1, PostOk
    <2>2. CASE route \in Gates!Post({"solana/restore", "tron/restore", "solana/password",
                                     "tron/password"}, {"verify"})
      BY <2>2, PostOk
    <2> QED BY <1>19, <2>1, <2>2 DEF Gates!KeyRoutes
  <1>20. CASE route \in Gates!SolanaRoutes
    <2>1. CASE route \in Gates!Get({"solana/status", "solana/balance", "solana/history"})
      BY <2>1, GetOk
    <2>2. CASE route \in Gates!Post({"solana/create", "solana/quote", "solana/retry"}, {})
      BY <2>2, PostOk
    <2>3. CASE route \in Gates!Post({"solana/send"}, {"charge", "verify"})
      BY <2>3, PostOk
    <2> QED BY <1>20, <2>1, <2>2, <2>3 DEF Gates!SolanaRoutes
  <1>21. CASE route \in Gates!TronRoutes
    <2>1. CASE route \in Gates!Get({"tron/status", "tron/balance", "tron/history", "tron/token"})
      BY <2>1, GetOk
    <2>2. CASE route \in Gates!Post({"tron/create", "tron/quote", "tron/retry"}, {})
      BY <2>2, PostOk
    <2>3. CASE route \in Gates!Post({"tron/send"}, {"charge", "verify"})
      BY <2>3, PostOk
    <2> QED BY <1>21, <2>1, <2>2, <2>3 DEF Gates!TronRoutes
  <1>22. CASE route = Gates!Route("login", TRUE, {})
    BY <1>22, OpenOk
  <1> QED BY <1>1, <1>2, <1>3, <1>4, <1>5, <1>6, <1>7, <1>8, <1>9, <1>10, <1>11, <1>12, <1>13,
            <1>14, <1>15, <1>16, <1>17, <1>18, <1>19, <1>20, <1>21, <1>22 DEF Gates!Routes

-----------------------------------------------------------------------------
(* The outer gates. *)

Pcs == {"traffic", "slot", "handler", "service"}

UnderWayAt(pcs) ==
    [pc : pcs, slot : {"none", "reads", "writes"}, own : BOOLEAN,
     does : SUBSET {"filter", "charge", "verify"}, to : Gates!Instances, operator : BOOLEAN]

\* What a gate may forward: nothing of a visitor into the operator's budget, nothing
\* of a wallet without the shared demo, no password check that is not charged, and
\* no charge outside the writes of the shared demo.
Allowed(shared, q) ==
    /\ ~q.operator /\ q.to = "authenticated" => q.slot = "none"
    /\ ~q.operator /\ ~shared => "filter" \notin q.does
    /\ ~q.operator /\ "verify" \in q.does => "charge" \in q.does
    /\ "charge" \in q.does => q.slot = "writes" /\ q.to = "shared"

ForwardOk(shared, pcs, q) == q = Gates!Idle \/ (q \in UnderWayAt(pcs) /\ Allowed(shared, q))

\* The fields of a request that is forwarded.
LEMMA ForwardTypes ==
    ASSUME NEW route, RouteOk(route), NEW site
    PROVE  /\ Gates!SlotFor(route) \in {"none", "reads", "writes"}
           /\ (site = "own" \/ "filter" \notin route.does) \in BOOLEAN
           /\ \A does : does \subseteq route.does => does \in SUBSET {"filter", "charge", "verify"}
           /\ {"authenticated", "public", "shared"} \subseteq Gates!Instances
BY DEF RouteOk, Gates!SlotFor, Gates!Instances

\* The operator may do everything, and is never charged.
LEMMA OperatorForward ==
    ASSUME NEW route, RouteOk(route), NEW site, NEW shared
    PROVE  ForwardOk(shared, {"traffic"}, Gates!Forward(route, site, "authenticated", TRUE, FALSE))
  <1>1. PICK slot, own, does, q :
          /\ slot = Gates!SlotFor(route) /\ own = (site = "own" \/ "filter" \notin route.does)
          /\ does = route.does \ {"charge"}
          /\ q = [pc |-> "traffic", slot |-> slot, own |-> own, does |-> does, to |-> "authenticated",
                  operator |-> TRUE]
    OBVIOUS
  <1>2. slot \in {"none", "reads", "writes"} /\ own \in BOOLEAN
        /\ does \in SUBSET {"filter", "charge", "verify"} /\ "authenticated" \in Gates!Instances
    BY <1>1, ForwardTypes
  <1>3. q \in UnderWayAt({"traffic"}) /\ q.operator /\ "charge" \notin q.does
    BY <1>1, <1>2 DEF UnderWayAt
  <1>4. Gates!Forward(route, site, "authenticated", TRUE, FALSE) = q
    BY <1>1 DEF Gates!Forward
  <1> QED BY <1>3, <1>4 DEF ForwardOk, Allowed

\* A visitor without the shared demo gets the health check and public reads.
LEMMA VisitorForward ==
    ASSUME NEW route, RouteOk(route), NEW site, NEW shared, route.path \in Unfiltered,
           NEW to \in {"authenticated", "public"}, to = "authenticated" => route.path = "healthz"
    PROVE  ForwardOk(shared, {"traffic"}, Gates!Forward(route, site, to, FALSE, FALSE))
  <1>1. PICK slot, own, does, q :
          /\ slot = Gates!SlotFor(route) /\ own = (site = "own" \/ "filter" \notin route.does)
          /\ does = route.does \ {"charge"}
          /\ q = [pc |-> "traffic", slot |-> slot, own |-> own, does |-> does, to |-> to,
                  operator |-> FALSE]
    OBVIOUS
  <1>2. slot \in {"none", "reads", "writes"} /\ own \in BOOLEAN
        /\ does \in SUBSET {"filter", "charge", "verify"} /\ to \in Gates!Instances
    BY <1>1, ForwardTypes
  <1>3. "filter" \notin does /\ "verify" \notin does /\ "charge" \notin does
    BY <1>1 DEF RouteOk
  <1>4. to = "authenticated" => slot = "none"
    BY <1>1 DEF Gates!SlotFor
  <1>5. q \in UnderWayAt({"traffic"}) /\ q.to = to /\ q.slot = slot /\ q.does = does
    BY <1>1, <1>2 DEF UnderWayAt
  <1>6. Gates!Forward(route, site, to, FALSE, FALSE) = q
    BY <1>1 DEF Gates!Forward
  <1> QED BY <1>3, <1>4, <1>5, <1>6 DEF ForwardOk, Allowed

\* A visitor of the shared demo is charged for what is metered.
LEMMA SharedForward ==
    ASSUME NEW route, RouteOk(route), NEW site, NEW shared, shared,
           route.post => route.path \in Gates!SharedPosts
    PROVE  ForwardOk(shared, {"traffic"},
                     Gates!Forward(route, site, "shared", FALSE, route.post /\ Gates!Metered(route)))
  <1>1. PICK slot, own, does, q :
          /\ slot = Gates!SlotFor(route) /\ own = (site = "own" \/ "filter" \notin route.does)
          /\ does = IF route.post /\ Gates!Metered(route) THEN route.does ELSE route.does \ {"charge"}
          /\ q = [pc |-> "traffic", slot |-> slot, own |-> own, does |-> does, to |-> "shared",
                  operator |-> FALSE]
    OBVIOUS
  <1>2. slot \in {"none", "reads", "writes"} /\ own \in BOOLEAN
        /\ does \in SUBSET {"filter", "charge", "verify"} /\ "shared" \in Gates!Instances
    <2>1. does \subseteq route.does
      BY <1>1
    <2> QED BY <1>1, <2>1, ForwardTypes
  <1>3. "charge" \in does => slot = "writes"
    BY <1>1 DEF Gates!Metered, Gates!SlotFor, RouteOk
  <1>4. "verify" \in does => "charge" \in does
    BY <1>1 DEF RouteOk
  <1>5. q \in UnderWayAt({"traffic"}) /\ q.to = "shared" /\ q.slot = slot /\ q.does = does
    BY <1>1, <1>2 DEF UnderWayAt
  <1>6. Gates!Forward(route, site, "shared", FALSE, route.post /\ Gates!Metered(route)) = q
    BY <1>1 DEF Gates!Forward
  <1> QED BY <1>3, <1>4, <1>5, <1>6 DEF ForwardOk, Allowed

\* RequireAccessToken forwards the operator, the health check and public reads.
LEMMA TokenGateOk ==
    ASSUME NEW c, NEW route, RouteOk(route), NEW site, NEW cred
    PROVE  ForwardOk(c.shared, {"traffic"}, Gates!RequireAccessToken(c, route, site, cred).next)
  <1>1. PICK asOperator : asOperator = Gates!Forward(route, site, "authenticated", TRUE, FALSE)
    OBVIOUS
  <1>2. ForwardOk(c.shared, {"traffic"}, Gates!Idle) /\ ForwardOk(c.shared, {"traffic"}, asOperator)
    BY <1>1, OperatorForward DEF ForwardOk
  <1>3. CASE route.path = "healthz"
    <2>1. Gates!RequireAccessToken(c, route, site, cred).next
             = Gates!Forward(route, site, "authenticated", FALSE, FALSE)
      BY <1>3 DEF Gates!RequireAccessToken
    <2>2. ForwardOk(c.shared, {"traffic"}, Gates!Forward(route, site, "authenticated", FALSE,
    FALSE))
      <3>1. route.path \in Unfiltered /\ "authenticated" \in {"authenticated", "public"}
            /\ ("authenticated" = "authenticated" => route.path = "healthz")
        BY <1>3 DEF Unfiltered
      <3> QED BY <3>1, VisitorForward
    <2> QED BY <2>1, <2>2
  <1>4. CASE route.path # "healthz" /\ ~route.post
             /\ route.path \in {"network", "balance", "transaction", "watch/token"}
    <2>1. PICK open : open = Gates!Forward(route, site, "public", FALSE, FALSE)
      OBVIOUS
    <2>2. ForwardOk(c.shared, {"traffic"}, open)
      <3>1. route.path \in Unfiltered /\ "public" \in {"authenticated", "public"}
            /\ ("public" = "authenticated" => route.path = "healthz")
        BY <1>4 DEF Unfiltered
      <3> QED BY <2>1, <3>1, VisitorForward
    <2>3. Gates!RequireAccessToken(c, route, site, cred).next \in {Gates!Idle, open, asOperator}
      BY <1>1, <1>4, <2>1 DEF Gates!RequireAccessToken
    <2> QED BY <1>2, <2>2, <2>3
  <1>5. CASE route.path # "healthz"
             /\ ~(~route.post /\ route.path \in {"network", "balance", "transaction", "watch/token"})
    <2>1. Gates!RequireAccessToken(c, route, site, cred).next \in {Gates!Idle, asOperator}
      BY <1>1, <1>5 DEF Gates!RequireAccessToken, Gates!PublicRead
    <2> QED BY <1>2, <2>1
  <1> QED BY <1>3, <1>4, <1>5

\* SharedDemo forwards its own routes, with a charge for those that are metered.
LEMMA SharedGateOk ==
    ASSUME NEW c, c.shared, NEW route, RouteOk(route), NEW site, NEW cred
    PROVE  ForwardOk(c.shared, {"traffic"}, Gates!SharedDemo(c, route, site, cred).next)
  <1>1. CASE route.path \in Gates!InitializePosts /\ c.token
    BY <1>1, TokenGateOk DEF Gates!SharedDemo
  <1>2. CASE ~(route.path \in Gates!InitializePosts /\ c.token)
    <2>1. CASE route.path # "login" /\ (route.post => route.path \in Gates!SharedPosts)
      <3>1. ForwardOk(c.shared, {"traffic"},
                      Gates!Forward(route, site, "shared", FALSE, route.post /\ Gates!Metered(route)))
        BY <2>1, SharedForward
      <3>2. Gates!SharedDemo(c, route, site, cred).next
              = Gates!Forward(route, site, "shared", FALSE, route.post /\ Gates!Metered(route))
        BY <1>2, <2>1 DEF Gates!SharedDemo
      <3> QED BY <3>1, <3>2
    <2>2. CASE ~(route.path # "login" /\ (route.post => route.path \in Gates!SharedPosts))
      <3>1. Gates!SharedDemo(c, route, site, cred).next = Gates!Idle
        BY <1>2, <2>2 DEF Gates!SharedDemo
      <3> QED BY <3>1 DEF ForwardOk
    <2> QED BY <2>1, <2>2
  <1> QED BY <1>1, <1>2

\* So does every gate, in every configuration.
LEMMA VerdictsOk ==
    ASSUME NEW v \in Gates!Verdicts
    PROVE  /\ ForwardOk(v[1].shared, {"traffic"}, v[2].next)
           /\ v[2].compares => v[2].guess
  <1>0. PICK a \in Gates!Admitted :
            v = <<a.config, Gates!Verdict(a.config, a.route, a.site, a.cred)>>
    BY DEF Gates!Verdicts
  <1>1. PICK c, route, site, cred : /\ v = <<c, Gates!Verdict(c, route, site, cred)>>
                                   /\ route = a.route
    BY <1>0
  <1>2. RouteOk(route)
    BY <1>1, RoutesOk DEF Gates!Admitted
  <1>3. v[1] = c /\ v[2] = Gates!Verdict(c, route, site, cred)
    BY <1>1
  <1>4. ForwardOk(c.shared, {"traffic"}, Gates!Verdict(c, route, site, cred).next)
    BY <1>2, TokenGateOk, SharedGateOk DEF Gates!Verdict
  <1>5. Gates!Verdict(c, route, site, cred).compares => Gates!Verdict(c, route, site, cred).guess
    BY DEF Gates!Verdict, Gates!SharedDemo, Gates!RequireAccessToken
  <1> QED BY <1>3, <1>4, <1>5

-----------------------------------------------------------------------------
(* The inductive invariant of the gates. *)

Budgets == {"password", "login"}

CountersInv ==
    /\ now \in Nat
    /\ budget \in [Budgets -> [window : Nat, attempts : 0 .. Attempts]]
    /\ checks \in [Budgets -> Seq(Nat)]
    /\ counted \in [Gates!Instances -> SUBSET {"operator", "visitor"}]
    /\ \A b \in Budgets : budget[b].window <= now /\ \A i \in DOMAIN checks[b] : checks[b][i] <= now

ReqInv ==
    /\ req = [r \in Requests |-> req[r]]
    /\ \A r \in Requests : ForwardOk(config.shared, Pcs, req[r])

\* r holds the slot of the shared demo's writes.
Holds(r) ==
    req[r].pc \in {"handler", "service"} /\ req[r].slot = "writes" /\ req[r].to = "shared"

SlotInv == \A r, q \in Requests : Holds(r) /\ Holds(q) => r = q

\* The attempt that was charged and has not been made.
Due(r) == req[r].pc = "service" /\ "charge" \in req[r].does

Pending(b) == IF b = "password" /\ \E r \in Requests : Due(r) THEN 1 ELSE 0

\* Of the attempts at the given times, those after the first k were charged in the
\* current window, as was the one that is pending; and the k earlier ones, but for the
\* last Attempts of them, are a minute older than the window.
Spread(times, window, attempts, pending) ==
    \E k \in 0 .. Len(times) :
        /\ Len(times) - k + pending <= attempts
        /\ \A i \in 1 .. k : /\ times[i] <= window
                             /\ i + Attempts <= k => window - times[i] >= Minute

Apart(times) ==
    \A i, j \in DOMAIN times : j - i >= 2 * Attempts => times[j] - times[i] >= Minute

GuessInv ==
    \A b \in Budgets : /\ Spread(checks[b], budget[b].window, budget[b].attempts, Pending(b))
                       /\ Apart(checks[b])

GatesInv ==
    CountersInv /\ ReqInv /\ SlotInv /\ GuessInv /\ "visitor" \notin counted["authenticated"]

-----------------------------------------------------------------------------
(* A budget and the attempts it was charged for. *)

\* A charge is counted, in this window or in a new one, or the budget is used up.
LEMMA ChargeSpread ==
    ASSUME NEW s \in Seq(Nat), now \in Nat,
           NEW w \in Nat, NEW a \in 0 .. Attempts, w <= now,
           \A i \in DOMAIN s : s[i] <= now, Spread(s, w, a, 0),
           NEW b, b = [window |-> w, attempts |-> a]
    PROVE  \E v \in Nat, c \in 0 .. Attempts :
              /\ Gates!Charged(b) = [window |-> v, attempts |-> c] /\ v <= now
              /\ Spread(s, v, c, 0)
              /\ ~Gates!Limited(b) => Spread(s, v, c, 1)
  <1>1. Attempts \in Nat /\ Attempts # 0 /\ Minute \in Nat /\ a \in Nat /\ a <= Attempts /\ Len(s) \in Nat
        /\ DOMAIN s = 1 .. Len(s) /\ \A i \in 1 .. Len(s) : s[i] \in Nat /\ s[i] <= now
    BY GatesAssumption
  <1>2. PICK k \in 0 .. Len(s) : /\ Len(s) - k <= a
                                /\ \A i \in 1 .. k : /\ s[i] <= w
                                                     /\ i + Attempts <= k => w - s[i] >= Minute
    BY <1>1 DEF Spread
  <1>3. b.window = w /\ b.attempts = a
    OBVIOUS
  <1>4. CASE now - w >= Minute
    <2>1. Gates!Charged(b) = [window |-> now, attempts |-> 1]
      BY <1>1, <1>3, <1>4 DEF Gates!Charged
    <2>2. \A i \in 1 .. Len(s) : i + Attempts <= Len(s) => now - s[i] >= Minute
      BY <1>1, <1>2, <1>4
    <2>3. Spread(s, now, 1, 0) /\ Spread(s, now, 1, 1)
      <3>1. PICK n : n = Len(s)
        OBVIOUS
      <3>2. n \in 0 .. Len(s) /\ Len(s) - n + 0 <= 1 /\ Len(s) - n + 1 <= 1
        BY <1>1, <3>1
      <3>3. \A i \in 1 .. n : /\ s[i] <= now
                             /\ i + Attempts <= n => now - s[i] >= Minute
        BY <1>1, <2>2, <3>1
      <3>4. Spread(s, now, 1, 0)
        BY <3>2, <3>3 DEF Spread
      <3>5. Spread(s, now, 1, 1)
        BY SMTT(30), <3>2, <3>3 DEF Spread
      <3> QED BY <3>4, <3>5
    <2> QED BY <1>1, <2>1, <2>3
  <1>5. CASE ~(now - w >= Minute) /\ a >= Attempts
    <2>1. Gates!Charged(b) = b /\ Gates!Limited(b)
      BY <1>1, <1>3, <1>5 DEF Gates!Charged, Gates!Limited
    <2> QED BY <2>1
  <1>6. CASE ~(now - w >= Minute) /\ a < Attempts
    <2>1. Gates!Charged(b) = [window |-> w, attempts |-> a + 1]
      BY <1>1, <1>3, <1>6 DEF Gates!Charged
    <2>2. Spread(s, w, a + 1, 0) /\ Spread(s, w, a + 1, 1)
      BY SMTT(30), <1>1, <1>2 DEF Spread
    <2>3. a + 1 \in 0 .. Attempts
      BY <1>1, <1>6
    <2>4. w \in Nat /\ w <= now
      OBVIOUS
    <2> QED BY <2>1, <2>2, <2>3, <2>4
  <1>7. a >= Attempts \/ a < Attempts
    BY <1>1
  <1> QED BY <1>4, <1>5, <1>6, <1>7

\* An attempt that was charged for is made, or is not made.
LEMMA AttemptSpread ==
    ASSUME NEW s \in Seq(Nat), now \in Nat, NEW w \in Nat, NEW a \in 0 .. Attempts, w <= now,
           Spread(s, w, a, 1), Apart(s)
    PROVE  /\ Spread(s, w, a, 0)
           /\ Spread(Append(s, now), w, a, 0) /\ Apart(Append(s, now))
  <1>1. Attempts \in Nat /\ Minute \in Nat /\ a \in Nat /\ a <= Attempts /\ Len(s) \in Nat
        /\ DOMAIN s = 1 .. Len(s) /\ \A i \in 1 .. Len(s) : s[i] \in Nat
    BY GatesAssumption
  <1>2. PICK k \in 0 .. Len(s) : /\ Len(s) - k + 1 <= a
                                /\ \A i \in 1 .. k : /\ s[i] <= w
                                                     /\ i + Attempts <= k => w - s[i] >= Minute
    BY <1>1 DEF Spread
  <1>3. Spread(s, w, a, 0)
    BY <1>1, <1>2 DEF Spread
  <1>4. PICK t : t = Append(s, now)
    OBVIOUS
  <1>5. t \in Seq(Nat) /\ Len(t) = Len(s) + 1 /\ DOMAIN t = 1 .. Len(s) + 1 /\ t[Len(s) + 1] = now
        /\ \A i \in 1 .. Len(s) : t[i] = s[i]
    BY <1>1, <1>4
  <1>6. Spread(t, w, a, 0)
    <2>1. Len(t) - k <= a /\ k \in 0 .. Len(t)
      BY <1>1, <1>2, <1>5
    <2>2. \A i \in 1 .. k : t[i] = s[i]
      BY <1>1, <1>2, <1>5
    <2> QED BY SMTT(30), <1>1, <1>2, <2>1, <2>2 DEF Spread
  <1>7. Apart(t)
    <2> SUFFICES ASSUME NEW i \in 1 .. Len(s) + 1, NEW j \in 1 .. Len(s) + 1, j - i >= 2 * Attempts
                 PROVE  t[j] - t[i] >= Minute
      BY <1>5 DEF Apart
    <2>1. CASE j <= Len(s)
      <3>1. i \in DOMAIN s /\ j \in DOMAIN s /\ t[i] = s[i] /\ t[j] = s[j]
        BY SMTT(30), <1>1, <1>5, <2>1
      <3> QED BY <3>1 DEF Apart
    <2>2. CASE j = Len(s) + 1
      <3>1. i \in 1 .. k /\ i + Attempts <= k /\ i \in 1 .. Len(s)
        BY <1>1, <1>2, <2>2
      <3>2. t[i] = s[i] /\ t[j] = now /\ w - s[i] >= Minute /\ s[i] \in Nat
        BY <1>1, <1>2, <1>5, <2>2, <3>1
      <3> QED BY <1>1, <3>2
    <2> QED BY <1>1, <2>1, <2>2
  <1> QED BY <1>3, <1>4, <1>6, <1>7

-----------------------------------------------------------------------------
(* One request moves at a time. *)

\* The others stay where they are, and r stays within what a gate forwards.
LEMMA OneMoves ==
    ASSUME ReqInv, config' = config, NEW r \in Requests, NEW q, req' = [req EXCEPT ![r] = q],
           ForwardOk(config.shared, Pcs, q)
    PROVE  /\ ReqInv' /\ req'[r] = q
           /\ \A x \in Requests \ {r} : req'[x] = req[x]
  <1>1. req' = [x \in Requests |-> req'[x]] /\ req'[r] = q
        /\ \A x \in Requests \ {r} : req'[x] = req[x]
    BY DEF ReqInv
  <1> QED BY <1>1 DEF ReqInv

\* A request that does not take the slot.
LEMMA SlotKept ==
    ASSUME SlotInv, NEW r \in Requests, \A x \in Requests \ {r} : req'[x] = req[x], Holds(r)' => Holds(r)
    PROVE  SlotInv'
  <1>1. \A x \in Requests : Holds(x)' => Holds(x)
    BY DEF Holds
  <1> QED BY <1>1 DEF SlotInv

\* A request that has nothing pending before and after.
LEMMA PendingKept ==
    ASSUME NEW r \in Requests, \A x \in Requests \ {r} : req'[x] = req[x], Due(r)' <=> Due(r), NEW b
    PROVE  Pending(b)' = Pending(b)
  <1>1. \A x \in Requests : Due(x)' <=> Due(x)
    BY DEF Due
  <1> QED BY <1>1 DEF Pending

\* A step that neither charges nor attempts.
LEMMA GuessKept ==
    ASSUME GuessInv, \A b \in Budgets : Pending(b)' = Pending(b), budget' = budget, checks' = checks
    PROVE  GuessInv'
BY DEF GuessInv

\* The counters do not move.
LEMMA CountersKept ==
    ASSUME CountersInv, now' = now, budget' = budget, checks' = checks, counted' = counted
    PROVE  CountersInv'
BY DEF CountersInv

\* What is pending belongs to the holder of the slot.
LEMMA DueHolds ==
    ASSUME ReqInv, NEW r \in Requests, Due(r)
    PROVE  Holds(r)
BY DEF ReqInv, ForwardOk, Allowed, Due, Holds, Gates!Idle

\* A request under way.
LEMMA UnderWayTypes ==
    ASSUME ReqInv, NEW r \in Requests, req[r].pc \in Pcs
    PROVE  req[r] \in UnderWayAt(Pcs) /\ Allowed(config.shared, req[r])
BY DEF ReqInv, ForwardOk, Gates!Idle, Pcs

-----------------------------------------------------------------------------
(* The gates: each action keeps the invariant. *)

\* The clock.
LEMMA TickStep == ASSUME GatesInv, Gates!Tick PROVE GatesInv'
  <1>1. now' = now + 1 /\ config' = config /\ budget' = budget /\ req' = req /\ checks' = checks
        /\ counted' = counted
    BY DEF Gates!Tick
  <1>2. now \in Nat
    BY DEF GatesInv, CountersInv
  <1>3. CountersInv'
    <2>1. now' \in Nat
      BY <1>1, <1>2
    <2>2. ASSUME NEW b \in Budgets PROVE budget[b].window <= now' /\ \A i \in DOMAIN checks[b] : checks[b][i] <= now'
      <3>1. budget[b].window \in Nat /\ budget[b].window <= now /\ checks[b] \in Seq(Nat)
            /\ \A i \in DOMAIN checks[b] : checks[b][i] <= now
        BY DEF GatesInv, CountersInv
      <3>2. \A i \in DOMAIN checks[b] : checks[b][i] \in Nat
        BY <3>1
      <3> QED BY <1>1, <1>2, <3>1, <3>2
    <2> QED BY <1>1, <2>1, <2>2 DEF GatesInv, CountersInv
  <1>4. ReqInv' /\ SlotInv'
    BY <1>1 DEF GatesInv, ReqInv, SlotInv, Holds
  <1>5. \A b : Pending(b)' = Pending(b)
    BY <1>1 DEF Pending, Due
  <1>6. GuessInv'
    BY <1>1, <1>5 DEF GatesInv, GuessInv
  <1> QED BY <1>1, <1>3, <1>4, <1>6 DEF GatesInv

\* A request that goes on or ends, without a slot, a charge or an attempt.
LEMMA MovesOn ==
    ASSUME GatesInv, config' = config, now' = now, budget' = budget, checks' = checks,
           counted' \in [Gates!Instances -> SUBSET {"operator", "visitor"}],
           "visitor" \notin counted'["authenticated"],
           NEW r \in Requests, NEW q, req' = [req EXCEPT ![r] = q],
           ForwardOk(config.shared, Pcs, q), ~Due(r), ~Due(r)', Holds(r)' => Holds(r)
    PROVE  GatesInv'
  <1>1. ReqInv' /\ \A x \in Requests \ {r} : req'[x] = req[x]
    BY OneMoves DEF GatesInv
  <1>2. SlotInv'
    BY <1>1, SlotKept DEF GatesInv
  <1>3. \A b \in Budgets : Pending(b)' = Pending(b)
    BY <1>1, PendingKept
  <1>4. GuessInv'
    BY <1>3, GuessKept DEF GatesInv
  <1>5. CountersInv'
    BY DEF GatesInv, CountersInv
  <1> QED BY <1>1, <1>2, <1>4, <1>5 DEF GatesInv

\* The idle request.
LEMMA IdleOk ==
    ASSUME NEW shared
    PROVE  ForwardOk(shared, Pcs, Gates!Idle) /\ Gates!Idle.pc = "idle"
BY DEF ForwardOk, Gates!Idle

\* A request under way that only changes its place.
LEMMA PlaceOk ==
    ASSUME ReqInv, NEW r \in Requests, req[r].pc \in Pcs, NEW pc \in Pcs,
           NEW q, q = [req[r] EXCEPT !.pc = pc]
    PROVE  /\ ForwardOk(config.shared, Pcs, q) /\ q.pc = pc
           /\ q.slot = req[r].slot /\ q.to = req[r].to /\ q.does = req[r].does
           /\ q.operator = req[r].operator
  <1>1. req[r] \in UnderWayAt(Pcs) /\ Allowed(config.shared, req[r])
    BY UnderWayTypes
  <1>2. /\ q \in UnderWayAt(Pcs) /\ q.pc = pc
        /\ q.slot = req[r].slot /\ q.to = req[r].to /\ q.does = req[r].does
        /\ q.operator = req[r].operator
    BY <1>1 DEF UnderWayAt
  <1> QED BY <1>1, <1>2 DEF ForwardOk, Allowed

\* Pages and the health check are not limited.
LEMMA UnlimitedStep ==
    ASSUME GatesInv, NEW r \in Requests, Gates!Unlimited(r)
    PROVE  GatesInv'
  <1>1. req[r].pc = "traffic" /\ req[r].slot = "none" /\ ReqInv
    BY DEF Gates!Unlimited, Gates!At, Gates!Counted, GatesInv
  <1>2. PICK q : q = [req[r] EXCEPT !.pc = "handler"]
    OBVIOUS
  <1>3. ForwardOk(config.shared, Pcs, q) /\ q.pc = "handler" /\ q.slot = "none"
    BY <1>1, <1>2, PlaceOk DEF Pcs
  <1>4. req' = [req EXCEPT ![r] = q] /\ UNCHANGED <<config, now, budget, checks, counted>>
    BY <1>2 DEF Gates!Unlimited
  <1>5. req'[r] = q
    BY <1>1, <1>4 DEF ReqInv
  <1>6. ~Due(r) /\ ~Due(r)' /\ ~Holds(r)'
    BY <1>1, <1>3, <1>5 DEF Due, Holds
  <1> QED BY <1>3, <1>4, <1>6, MovesOn DEF GatesInv, CountersInv

\* The traffic window: a visitor is never counted in the operator's.
LEMMA CountStep == ASSUME GatesInv, NEW r \in Requests, Gates!Count(r) PROVE GatesInv'
  <1>1. req[r].pc = "traffic" /\ req[r].slot # "none" /\ ReqInv
        /\ UNCHANGED <<config, now, budget, checks>>
    BY DEF Gates!Count, Gates!At, Gates!Counted, GatesInv
  <1>2. req[r] \in UnderWayAt(Pcs) /\ Allowed(config.shared, req[r])
    BY <1>1, UnderWayTypes DEF Pcs
  <1>3. PICK q \in {Gates!Idle, [req[r] EXCEPT !.pc = "slot"]} : req' = [req EXCEPT ![r] = q]
    BY DEF Gates!Count
  <1>4. ForwardOk(config.shared, Pcs, q) /\ q.pc \in {"idle", "slot"}
    BY <1>1, <1>3, IdleOk, PlaceOk DEF Pcs
  <1>5. req'[r] = q
    BY <1>1, <1>3 DEF ReqInv
  <1>6. ~Due(r) /\ ~Due(r)' /\ ~Holds(r)'
    BY <1>1, <1>4, <1>5 DEF Due, Holds
  <1>7. PICK to, who : to = req[r].to /\ who = Gates!Who(r)
    OBVIOUS
  <1>8. to \in Gates!Instances /\ who \in {"operator", "visitor"}
        /\ (to = "authenticated" => who = "operator")
    BY <1>1, <1>2, <1>7 DEF UnderWayAt, Allowed, Gates!Who
  <1>9. PICK c : c \subseteq counted[to] \cup {who} /\ counted' = [counted EXCEPT ![to] = c]
    BY <1>7 DEF Gates!Count, Gates!To
  <1>10. counted \in [Gates!Instances -> SUBSET {"operator", "visitor"}]
         /\ "visitor" \notin counted["authenticated"] /\ "authenticated" \in Gates!Instances
    BY DEF GatesInv, CountersInv, Gates!Instances
  <1>11. counted' \in [Gates!Instances -> SUBSET {"operator", "visitor"}]
    BY <1>8, <1>9, <1>10
  <1>12. "visitor" \notin counted'["authenticated"]
    BY <1>8, <1>9, <1>10
  <1> QED BY <1>1, <1>3, <1>4, <1>6, <1>11, <1>12, MovesOn

\* A slot is taken when one is free: there is one for the writes.
LEMMA SlotStep ==
    ASSUME GatesInv, NEW r \in Requests, Gates!Slot(r)
    PROVE  GatesInv'
  <1>1. req[r].pc = "slot" /\ ReqInv /\ SlotInv /\ UNCHANGED <<config, now, budget, checks, counted>>
    BY DEF Gates!Slot, Gates!At, GatesInv
  <1>2. CASE req' = [req EXCEPT ![r] = Gates!Idle]
    <2>1. req'[r] = Gates!Idle
      BY <1>1, <1>2 DEF ReqInv
    <2>2. ForwardOk(config.shared, Pcs, Gates!Idle) /\ ~Due(r) /\ ~Due(r)' /\ ~Holds(r)'
      BY <1>1, <2>1, IdleOk DEF Due, Holds
    <2> QED BY <1>1, <1>2, <2>2, MovesOn DEF GatesInv, CountersInv
  <1>3. CASE /\ Gates!Cardinality(Gates!Holders(req[r].slot, req[r].to)) < Gates!Slots[req[r].slot]
             /\ req' = [req EXCEPT ![r].pc = "handler"]
    <2>1. PICK q : q = [req[r] EXCEPT !.pc = "handler"]
      OBVIOUS
    <2>2. ForwardOk(config.shared, Pcs, q) /\ q.pc = "handler" /\ q.slot = req[r].slot /\ q.to = req[r].to
      BY <1>1, <2>1, PlaceOk DEF Pcs
    <2>3. req' = [req EXCEPT ![r] = q]
      BY <1>3, <2>1
    <2>4. ReqInv' /\ req'[r] = q /\ \A x \in Requests \ {r} : req'[x] = req[x]
      BY <1>1, <2>2, <2>3, OneMoves
    <2>5. ~Due(r) /\ ~Due(r)'
      BY <1>1, <2>2, <2>4 DEF Due
    <2>6. SlotInv'
      <3>1. CASE req[r].slot = "writes" /\ req[r].to = "shared"
        <4>1. PICK holders : holders = Gates!Holders("writes", "shared")
          OBVIOUS
        <4>2. holders = {x \in Requests : Holds(x)}
          BY <4>1 DEF Gates!Holders, Holds, Gates!To
        <4>3. Gates!Slots["writes"] = 1
          BY GatesAssumption DEF Gates!Slots
        <4>4. Cardinality(holders) < 1
          <5>1. Gates!Cardinality(holders) < 1
            BY <1>3, <3>1, <4>1, <4>3
          <5>2. Gates!Cardinality(holders) = Cardinality(holders)
            BY DEF Gates!Cardinality, Cardinality
          <5> QED BY <5>1, <5>2
        <4>5. IsFiniteSet(holders)
          BY <4>2, FS_Subset, GatesAssumption
        <4>6. holders = {}
          BY <4>4, <4>5, FS_EmptySet, FS_CardinalityType
        <4>7. \A x \in Requests : Holds(x)' => x = r
          BY <2>4, <4>2, <4>6 DEF Holds
        <4> QED BY <4>7 DEF SlotInv
      <3>2. CASE ~(req[r].slot = "writes" /\ req[r].to = "shared")
        <4>1. ~Holds(r)'
          BY <2>2, <2>4, <3>2 DEF Holds
        <4> QED BY <1>1, <2>4, <4>1, SlotKept
      <3> QED BY <3>1, <3>2
    <2>7. \A b \in Budgets : Pending(b)' = Pending(b)
      BY <2>4, <2>5, PendingKept
    <2>8. GuessInv' /\ CountersInv'
      BY <1>1, <2>7, GuessKept, CountersKept DEF GatesInv
    <2> QED BY <1>1, <2>4, <2>6, <2>8 DEF GatesInv
  <1>4. \/ req' = [req EXCEPT ![r] = Gates!Idle]
        \/ /\ Gates!Cardinality(Gates!Holders(req[r].slot, req[r].to)) < Gates!Slots[req[r].slot]
           /\ req' = [req EXCEPT ![r].pc = "handler"]
    BY Zenon DEF Gates!Slot, Gates!Answer, Gates!To
  <1> QED BY <1>2, <1>3, <1>4

\* The handler refuses.
LEMMA RefuseStep == ASSUME GatesInv, NEW r \in Requests, Gates!Refuse(r) PROVE GatesInv'
  <1>1. req[r].pc = "handler" /\ ReqInv /\ UNCHANGED <<config, now, budget, checks, counted>>
        /\ req' = [req EXCEPT ![r] = Gates!Idle]
    BY DEF Gates!Refuse, Gates!At, Gates!Answer, GatesInv
  <1>2. req'[r] = Gates!Idle
    BY <1>1 DEF ReqInv
  <1>3. ForwardOk(config.shared, Pcs, Gates!Idle) /\ ~Due(r) /\ ~Due(r)' /\ ~Holds(r)'
    BY <1>1, <1>2, IdleOk DEF Due, Holds
  <1> QED BY <1>1, <1>3, MovesOn DEF GatesInv, CountersInv

\* The service is called without a charge.
LEMMA ProceedStep == ASSUME GatesInv, NEW r \in Requests, Gates!Proceed(r) PROVE GatesInv'
  <1>1. req[r].pc = "handler" /\ ReqInv /\ "charge" \notin req[r].does
        /\ UNCHANGED <<config, now, budget, checks, counted>>
    BY DEF Gates!Proceed, Gates!At, GatesInv
  <1>2. PICK q : q = [req[r] EXCEPT !.pc = "service"]
    OBVIOUS
  <1>3. ForwardOk(config.shared, Pcs, q) /\ q.pc = "service" /\ q.slot = req[r].slot /\ q.to = req[r].to
        /\ q.does = req[r].does
    BY <1>1, <1>2, PlaceOk DEF Pcs
  <1>4. req' = [req EXCEPT ![r] = q]
    BY <1>2 DEF Gates!Proceed
  <1>5. req'[r] = q
    BY <1>1, <1>4 DEF ReqInv
  <1>6. ~Due(r) /\ ~Due(r)' /\ (Holds(r)' => Holds(r))
    BY <1>1, <1>3, <1>5 DEF Due, Holds
  <1> QED BY <1>1, <1>3, <1>4, <1>6, MovesOn DEF GatesInv, CountersInv

\* A budget moves: its window, its count and the attempts made are replaced.
LEMMA BudgetMoves ==
    ASSUME CountersInv, GuessInv, now' = now, counted' = counted,
           NEW b \in Budgets, NEW w \in Nat, NEW a \in 0 .. Attempts, w <= now,
           NEW t \in Seq(Nat), \A i \in DOMAIN t : t[i] <= now,
           Spread(t, w, a, Pending(b)'), Apart(t),
           \A d \in Budgets \ {b} : Pending(d)' = Pending(d),
           budget' = [budget EXCEPT ![b] = [window |-> w, attempts |-> a]],
           checks' = [checks EXCEPT ![b] = t]
    PROVE  CountersInv' /\ GuessInv'
  <1>1. budget \in [Budgets -> [window : Nat, attempts : 0 .. Attempts]] /\ checks \in [Budgets -> Seq(Nat)]
    BY DEF CountersInv
  <1>2. PICK n : n = [window |-> w, attempts |-> a]
    OBVIOUS
  <1>3. n \in [window : Nat, attempts : 0 .. Attempts] /\ n.window = w /\ n.attempts = a
    BY <1>2
  <1>4. budget' = [budget EXCEPT ![b] = n]
    BY <1>2
  <1>5. budget' \in [Budgets -> [window : Nat,
  attempts : 0 .. Attempts]] /\ checks' \in [Budgets -> Seq(Nat)]
    BY <1>1, <1>3, <1>4
  <1>6. /\ budget'[b].window = w /\ budget'[b].attempts = a /\ checks'[b] = t
        /\ \A d \in Budgets \ {b} : budget'[d] = budget[d] /\ checks'[d] = checks[d]
    BY <1>1, <1>3, <1>4
  <1>7. ASSUME NEW d \in Budgets
        PROVE  budget'[d].window <= now' /\ \A i \in DOMAIN checks'[d] : checks'[d][i] <= now'
    BY <1>6 DEF CountersInv
  <1>8. ASSUME NEW d \in Budgets
        PROVE  /\ Spread(checks'[d], budget'[d].window, budget'[d].attempts, Pending(d)')
               /\ Apart(checks'[d])
    <2>1. CASE d = b
      BY <1>6, <2>1
    <2>2. CASE d # b
      BY <1>6, <2>2 DEF GuessInv
    <2> QED BY <2>1, <2>2
  <1>9. CountersInv'
    BY <1>5, <1>7 DEF CountersInv
  <1>10. GuessInv'
    BY <1>8 DEF GuessInv
  <1> QED BY <1>9, <1>10

\* What the invariant says of one budget.
LEMMA BudgetFacts ==
    ASSUME GatesInv, NEW b \in Budgets
    PROVE  \E w \in Nat, a \in 0 .. Attempts :
              /\ budget[b] = [window |-> w, attempts |-> a] /\ w <= now /\ now \in Nat
              /\ checks[b] \in Seq(Nat) /\ \A i \in DOMAIN checks[b] : checks[b][i] <= now
              /\ Spread(checks[b], w, a, Pending(b)) /\ Apart(checks[b])
  <1>1. PICK w, a : w = budget[b].window /\ a = budget[b].attempts
    OBVIOUS
  <1>2. w \in Nat /\ a \in 0 .. Attempts /\ budget[b] = [window |-> w, attempts |-> a]
    BY <1>1 DEF GatesInv, CountersInv
  <1>3. /\ w <= now /\ now \in Nat
        /\ checks[b] \in Seq(Nat) /\ \A i \in DOMAIN checks[b] : checks[b][i] <= now
    BY <1>1 DEF GatesInv, CountersInv
  <1>4. Spread(checks[b], w, a, Pending(b)) /\ Apart(checks[b])
    BY <1>1 DEF GatesInv, GuessInv
  <1> QED BY <1>2, <1>3, <1>4

\* What it says of a budget that is charged.
LEMMA BudgetCharged ==
    ASSUME GatesInv, NEW b \in Budgets, Pending(b) = 0
    PROVE  \E x \in Nat, c \in 0 .. Attempts :
              /\ Gates!Charged(budget[b]) = [window |-> x, attempts |-> c] /\ x <= now /\ now \in Nat
              /\ checks[b] \in Seq(Nat) /\ \A i \in DOMAIN checks[b] : checks[b][i] <= now
              /\ Spread(checks[b], x, c, 0) /\ Apart(checks[b])
              /\ ~Gates!Limited(budget[b]) => Spread(checks[b], x, c, 1)
  <1>1. PICK s, d : s = checks[b] /\ d = budget[b]
    OBVIOUS
  <1>2. PICK w \in Nat, a \in 0 .. Attempts :
            /\ d = [window |-> w, attempts |-> a] /\ w <= now /\ now \in Nat
            /\ s \in Seq(Nat) /\ \A i \in DOMAIN s : s[i] <= now
            /\ Spread(s, w, a, Pending(b)) /\ Apart(s)
    BY <1>1, BudgetFacts
  <1>3. Spread(s, w, a, 0)
    BY <1>2
  <1>4. \E x \in Nat, c \in 0 .. Attempts :
            /\ Gates!Charged(d) = [window |-> x, attempts |-> c] /\ x <= now
            /\ Spread(s, x, c, 0)
            /\ ~Gates!Limited(d) => Spread(s, x, c, 1)
    BY <1>2, <1>3, ChargeSpread
  <1> QED BY <1>1, <1>2, <1>4

\* The time of an attempt is added to the others.
LEMMA TimesGrow ==
    ASSUME NEW s \in Seq(Nat), now \in Nat, \A i \in DOMAIN s : s[i] <= now
    PROVE  /\ Append(s, now) \in Seq(Nat)
           /\ \A i \in DOMAIN Append(s, now) : Append(s, now)[i] <= now
  <1>1. PICK t : t = Append(s, now)
    OBVIOUS
  <1>2. t \in Seq(Nat) /\ DOMAIN s = 1 .. Len(s) /\ DOMAIN t = 1 .. Len(s) + 1 /\ t[Len(s) + 1] = now
        /\ Len(s) \in Nat /\ \A i \in 1 .. Len(s) : t[i] = s[i]
    BY <1>1
  <1>3. ASSUME NEW i \in 1 .. Len(s) + 1 PROVE t[i] <= now
    <2>1. CASE i \in 1 .. Len(s)
      BY <1>2, <2>1
    <2>2. CASE i = Len(s) + 1
      BY <1>2, <2>2
    <2> QED BY <1>2, <2>1, <2>2
  <1> QED BY <1>1, <1>2, <1>3

\* The outer gates: a login attempt is charged before its token is compared.
LEMMA ArriveStep ==
    ASSUME GatesInv, NEW r \in Requests, NEW v,
           ForwardOk(config.shared, {"traffic"}, v.next), v.compares => v.guess, Gates!Arrive(r, v)
    PROVE  GatesInv'
  <1>1. req[r].pc = "idle" /\ ReqInv /\ SlotInv /\ CountersInv /\ GuessInv
        /\ UNCHANGED <<config, now, counted>>
    BY DEF Gates!Arrive, GatesInv
  <1>2. PICK q \in {Gates!Idle, v.next} : req' = [req EXCEPT ![r] = q]
    BY DEF Gates!Arrive, Gates!Answer
  <1>3. ForwardOk(config.shared, Pcs, q) /\ q.pc \in {"idle", "traffic"}
    <2>1. CASE q = Gates!Idle
      BY <2>1, IdleOk
    <2>2. CASE q \in UnderWayAt({"traffic"}) /\ Allowed(config.shared, q)
      BY <2>2 DEF UnderWayAt, Pcs, ForwardOk
    <2> QED BY <1>2, <2>1, <2>2 DEF ForwardOk
  <1>4. ReqInv' /\ req'[r] = q /\ \A x \in Requests \ {r} : req'[x] = req[x]
    BY <1>1, <1>2, <1>3, OneMoves
  <1>5. ~Due(r) /\ ~Due(r)' /\ ~Holds(r)'
    BY <1>1, <1>3, <1>4 DEF Due, Holds
  <1>6. SlotInv'
    BY <1>1, <1>4, <1>5, SlotKept
  <1>7. \A b \in Budgets : Pending(b)' = Pending(b)
    BY <1>4, <1>5, PendingKept
  <1>8. CASE ~v.guess
    <2>1. budget' = budget /\ checks' = checks
      BY <1>8 DEF Gates!Arrive
    <2>2. GuessInv' /\ CountersInv'
      BY <1>1, <1>7, <2>1, GuessKept, CountersKept
    <2> QED BY <1>1, <1>4, <1>6, <2>2 DEF GatesInv
  <1>9. CASE v.guess
    <2>1. "login" \in Budgets /\ Pending("login") = 0 /\ Pending("login")' = 0
      BY <1>7 DEF Budgets, Pending
    <2>2. PICK s, b : s = checks["login"] /\ b = budget["login"]
      OBVIOUS
    <2>3. PICK x \in Nat, c \in 0 .. Attempts :
              /\ Gates!Charged(b) = [window |-> x, attempts |-> c] /\ x <= now /\ now \in Nat
              /\ s \in Seq(Nat) /\ \A i \in DOMAIN s : s[i] <= now
              /\ Spread(s, x, c, 0) /\ Apart(s)
              /\ ~Gates!Limited(b) => Spread(s, x, c, 1)
      BY <2>1, <2>2, BudgetCharged
    <2>4. budget' = [budget EXCEPT !["login"] = [window |-> x, attempts |-> c]]
      BY <1>9, <2>2, <2>3 DEF Gates!Arrive
    <2>5. checks \in [Budgets -> Seq(Nat)]
      BY <1>1 DEF CountersInv
    <2>6. CASE checks' = checks
      <3>1. checks' = [checks EXCEPT !["login"] = s]
        BY <2>2, <2>5, <2>6
      <3>2. CountersInv' /\ GuessInv'
        BY <1>1, <1>7, <2>1, <2>3, <2>4, <3>1, BudgetMoves
      <3> QED BY <1>1, <1>4, <1>6, <3>2 DEF GatesInv
    <2>7. CASE ~Gates!Limited(b) /\ checks' = [checks EXCEPT !["login"] = Append(s, now)]
      <3>1. PICK t : t = Append(s, now)
        OBVIOUS
      <3>2. t \in Seq(Nat) /\ \A i \in DOMAIN t : t[i] <= now
        BY <2>3, <3>1, TimesGrow
      <3>3. Spread(t, x, c, 0) /\ Apart(t)
        BY <2>3, <2>7, <3>1, AttemptSpread
      <3>4. CountersInv' /\ GuessInv'
        BY <1>1, <1>7, <2>1, <2>3, <2>4, <2>7, <3>1, <3>2, <3>3, BudgetMoves
      <3> QED BY <1>1, <1>4, <1>6, <3>4 DEF GatesInv
    <2>8. checks' = checks \/ (~Gates!Limited(b) /\ checks' = [checks EXCEPT !["login"] = Append(s, now)])
      BY <1>9, <2>2, Zenon DEF Gates!Arrive
    <2> QED BY <2>6, <2>7, <2>8
  <1> QED BY <1>8, <1>9

\* A password attempt is charged; nothing else is pending, for the slot is taken.
LEMMA ChargeAttemptStep ==
    ASSUME GatesInv, NEW r \in Requests, Gates!ChargeAttempt(r) PROVE GatesInv'
  <1>1. req[r].pc = "handler" /\ "charge" \in req[r].does /\ ReqInv /\ SlotInv /\ CountersInv /\ GuessInv
        /\ UNCHANGED <<config, now, checks, counted>>
    BY DEF Gates!ChargeAttempt, Gates!At, GatesInv
  <1>2. req[r] \in UnderWayAt(Pcs) /\ Allowed(config.shared, req[r])
    BY <1>1, UnderWayTypes DEF Pcs
  <1>3. Holds(r)
    BY <1>1, <1>2 DEF Allowed, Holds
  <1>4. \A x \in Requests : ~Due(x)
    <2> SUFFICES ASSUME NEW x \in Requests, Due(x) PROVE FALSE
      OBVIOUS
    <2>1. x = r
      BY <1>1, <1>3, DueHolds DEF SlotInv
    <2> QED BY <1>1, <2>1 DEF Due
  <1>5. "password" \in Budgets /\ Pending("password") = 0
        /\ \A d \in Budgets \ {"password"} : Pending(d)' = Pending(d)
    BY <1>4 DEF Budgets, Pending
  <1>6. PICK s, b : s = checks["password"] /\ b = budget["password"]
    OBVIOUS
  <1>7. PICK x \in Nat, c \in 0 .. Attempts :
            /\ Gates!Charged(b) = [window |-> x, attempts |-> c] /\ x <= now /\ now \in Nat
            /\ s \in Seq(Nat) /\ \A i \in DOMAIN s : s[i] <= now
            /\ Spread(s, x, c, 0) /\ Apart(s)
            /\ ~Gates!Limited(b) => Spread(s, x, c, 1)
    BY <1>5, <1>6, BudgetCharged
  <1>8. budget' = [budget EXCEPT !["password"] = [window |-> x, attempts |-> c]]
    BY <1>6, <1>7 DEF Gates!ChargeAttempt
  <1>9. checks' = [checks EXCEPT !["password"] = s]
    BY <1>1, <1>6 DEF CountersInv
  <1>10. CASE req' = [req EXCEPT ![r] = Gates!Idle]
    <2>1. ReqInv' /\ req'[r] = Gates!Idle /\ \A y \in Requests \ {r} : req'[y] = req[y]
      BY <1>1, <1>10, IdleOk, OneMoves
    <2>2. ~Holds(r)' /\ \A y \in Requests : ~Due(y)'
      BY <1>4, <2>1, IdleOk DEF Holds, Due
    <2>3. SlotInv' /\ Pending("password")' = 0
      BY <1>1, <2>1, <2>2, SlotKept DEF Pending
    <2>4. Spread(s, x, c, Pending("password")')
      BY <1>7, <2>3
    <2>5. CountersInv' /\ GuessInv'
      BY <1>1, <1>5, <1>7, <1>8, <1>9, <2>4, BudgetMoves
    <2> QED BY <1>1, <2>1, <2>3, <2>5 DEF GatesInv
  <1>11. CASE ~Gates!Limited(b) /\ req' = [req EXCEPT ![r].pc = "service"]
    <2>1. PICK q : q = [req[r] EXCEPT !.pc = "service"]
      OBVIOUS
    <2>2. ForwardOk(config.shared, Pcs, q) /\ q.pc = "service" /\ q.does = req[r].does
      BY <1>1, <2>1, PlaceOk DEF Pcs
    <2>3. req' = [req EXCEPT ![r] = q]
      BY <1>11, <2>1
    <2>4. ReqInv' /\ req'[r] = q /\ \A y \in Requests \ {r} : req'[y] = req[y]
      BY <1>1, <2>2, <2>3, OneMoves
    <2>5. Due(r)'
      BY <1>1, <2>2, <2>4 DEF Due
    <2>6. SlotInv'
      BY <1>1, <1>3, <2>4, SlotKept
    <2>7. Pending("password")' = 1
      BY <2>5 DEF Pending
    <2>8. Spread(s, x, c, Pending("password")')
      BY <1>7, <1>11, <2>7
    <2>9. CountersInv' /\ GuessInv'
      BY <1>1, <1>5, <1>7, <1>8, <1>9, <2>8, BudgetMoves
    <2> QED BY <1>1, <2>4, <2>6, <2>9 DEF GatesInv
  <1>12. \/ req' = [req EXCEPT ![r] = Gates!Idle]
         \/ ~Gates!Limited(b) /\ req' = [req EXCEPT ![r].pc = "service"]
    BY <1>6, Zenon DEF Gates!ChargeAttempt, Gates!Answer
  <1> QED BY <1>10, <1>11, <1>12

\* The password of a visitor is compared only if the attempt was charged.
LEMMA ServeStep ==
    ASSUME GatesInv, NEW r \in Requests, Gates!Serve(r) PROVE GatesInv'
  <1>1. req[r].pc = "service" /\ ReqInv /\ SlotInv /\ CountersInv /\ GuessInv
        /\ UNCHANGED <<config, now, budget, counted>> /\ req' = [req EXCEPT ![r] = Gates!Idle]
    BY DEF Gates!Serve, Gates!At, Gates!Answer, GatesInv
  <1>2. ReqInv' /\ req'[r] = Gates!Idle /\ \A y \in Requests \ {r} : req'[y] = req[y]
    BY <1>1, IdleOk, OneMoves
  <1>3. ~Due(r)' /\ ~Holds(r)' /\ ForwardOk(config.shared, Pcs, Gates!Idle)
    BY <1>2, IdleOk DEF Due, Holds
  <1>4. CASE ~Due(r)
    <2>1. Allowed(config.shared, req[r])
      BY <1>1, UnderWayTypes DEF Pcs
    <2>2. checks' = checks
      BY <1>1, <1>4, <2>1 DEF Gates!Serve, Due, Allowed
    <2> QED BY <1>1, <1>3, <1>4, <2>2, MovesOn DEF GatesInv, CountersInv
  <1>5. CASE Due(r)
    <2>1. \A x \in Requests : Due(x) => x = r
      BY <1>1, <1>5, DueHolds DEF SlotInv
    <2>2. \A x \in Requests : ~Due(x)'
      BY <1>2, <1>3, <2>1 DEF Due
    <2>3. "password" \in Budgets /\ Pending("password") = 1 /\ Pending("password")' = 0
          /\ \A d \in Budgets \ {"password"} : Pending(d)' = Pending(d)
      BY <1>5, <2>2 DEF Budgets, Pending
    <2>4. PICK s : s = checks["password"]
      OBVIOUS
    <2>5. PICK w \in Nat, a \in 0 .. Attempts :
              /\ budget["password"] = [window |-> w, attempts |-> a] /\ w <= now /\ now \in Nat
              /\ s \in Seq(Nat) /\ \A i \in DOMAIN s : s[i] <= now
              /\ Spread(s, w, a, Pending("password")) /\ Apart(s)
      BY <2>3, <2>4, BudgetFacts
    <2>6. Spread(s, w, a, 1)
      BY <2>3, <2>5
    <2>7. budget' = [budget EXCEPT !["password"] = [window |-> w, attempts |-> a]]
      BY <1>1, <2>5 DEF CountersInv
    <2>8. SlotInv'
      BY <1>1, <1>2, <1>3, SlotKept
    <2>9. CASE checks' = checks
      <3>1. checks' = [checks EXCEPT !["password"] = s]
        BY <1>1, <2>4, <2>9 DEF CountersInv
      <3>2. Spread(s, w, a, 0)
        BY <2>5, <2>6, AttemptSpread
      <3>3. CountersInv' /\ GuessInv'
        BY <1>1, <2>3, <2>5, <2>7, <3>1, <3>2, BudgetMoves
      <3> QED BY <1>1, <1>2, <2>8, <3>3 DEF GatesInv
    <2>10. CASE checks' = [checks EXCEPT !["password"] = Append(s, now)]
      <3>1. PICK t : t = Append(s, now)
        OBVIOUS
      <3>2. t \in Seq(Nat) /\ \A i \in DOMAIN t : t[i] <= now
        BY <2>5, <3>1, TimesGrow
      <3>3. Spread(t, w, a, 0) /\ Apart(t)
        BY <2>5, <2>6, <3>1, AttemptSpread
      <3>4. CountersInv' /\ GuessInv'
        BY <1>1, <2>3, <2>5, <2>7, <2>10, <3>1, <3>2, <3>3, BudgetMoves
      <3> QED BY <1>1, <1>2, <2>8, <3>4 DEF GatesInv
    <2>11. checks' = checks \/ checks' = [checks EXCEPT !["password"] = Append(s, now)]
      BY <2>4, Zenon DEF Gates!Serve
    <2> QED BY <2>9, <2>10, <2>11
  <1> QED BY <1>4, <1>5

-----------------------------------------------------------------------------
(* The gates: theorems. *)

\* The invariant is inductive: Init establishes it and every step keeps it.
THEOREM GatesInvariant == Gates!Spec => []GatesInv
  <1>1. Gates!Init => GatesInv
    <2> SUFFICES ASSUME Gates!Init PROVE GatesInv
      OBVIOUS
    <2>1. \A r \in Requests : req[r] = Gates!Idle /\ req[r].pc = "idle"
      BY DEF Gates!Init, Gates!Idle
    <2>2. ReqInv /\ SlotInv
      BY <2>1, IdleOk DEF Gates!Init, ReqInv, SlotInv, Holds
    <2>3. \A b \in Budgets : Pending(b) = 0
      BY <2>1 DEF Pending, Due
    <2>4. PICK z : z = [window |-> 0, attempts |-> 0]
      OBVIOUS
    <2>5. z \in [window : Nat, attempts : 0 .. Attempts] /\ z.window = 0 /\ z.attempts = 0
      BY <2>4, GatesAssumption
    <2>6. budget = [b \in Budgets |-> z] /\ checks = [b \in Budgets |-> <<>>] /\ now = 0
          /\ counted = [t \in Gates!Instances |-> {}]
      BY <2>4 DEF Gates!Init, Budgets
    <2>7. \A b \in Budgets : budget[b] = z /\ checks[b] = <<>>
      BY <2>6
    <2>8. CountersInv
      BY <2>5, <2>6, <2>7 DEF CountersInv
    <2>9. Spread(<<>>, 0, 0, 0) /\ Apart(<<>>)
      BY DEF Spread, Apart
    <2>10. GuessInv
      BY <2>3, <2>5, <2>7, <2>9 DEF GuessInv
    <2>11. "visitor" \notin counted["authenticated"]
      BY <2>6 DEF Gates!Instances
    <2> QED BY <2>2, <2>8, <2>10, <2>11 DEF GatesInv
  <1>2. GatesInv /\ [Gates!Next]_(Gates!vars) => GatesInv'
    <2> SUFFICES ASSUME GatesInv, [Gates!Next]_(Gates!vars) PROVE GatesInv'
      OBVIOUS
    <2>1. CASE Gates!Tick
      BY <2>1, TickStep
    <2>2. ASSUME NEW r \in Requests,
                 \/ Gates!Unlimited(r) \/ Gates!Count(r) \/ Gates!Slot(r)
                 \/ Gates!Refuse(r) \/ Gates!ChargeAttempt(r) \/ Gates!Proceed(r) \/ Gates!Serve(r)
          PROVE  GatesInv'
      BY <2>2, UnlimitedStep, CountStep, SlotStep, RefuseStep, ChargeAttemptStep, ProceedStep,
         ServeStep
    <2>3. ASSUME NEW r \in Requests, NEW v \in Gates!Verdicts, v[1] = config, Gates!Arrive(r, v[2])
          PROVE  GatesInv'
      <3>1. PICK a : a = v[2]
        OBVIOUS
      <3>2. ForwardOk(config.shared, {"traffic"}, a.next) /\ (a.compares => a.guess)
            /\ Gates!Arrive(r, a)
        BY <2>3, <3>1, VerdictsOk
      <3> QED BY <3>2, ArriveStep
    <2>4. CASE UNCHANGED Gates!vars
      <3>1. /\ config' = config /\ now' = now /\ budget' = budget /\ req' = req /\ checks' = checks
            /\ counted' = counted
        BY <2>4 DEF Gates!vars
      <3>2. ReqInv' /\ SlotInv' /\ CountersInv'
        BY <3>1, CountersKept DEF GatesInv, ReqInv, SlotInv, Holds
      <3>3. \A b : Pending(b)' = Pending(b)
        BY <3>1 DEF Pending, Due
      <3>4. GuessInv'
        BY <3>1, <3>3, GuessKept DEF GatesInv
      <3> QED BY <3>1, <3>2, <3>4 DEF GatesInv
    <2>5. \/ Gates!Tick \/ UNCHANGED Gates!vars
          \/ \E r \in Requests :
                \/ Gates!Unlimited(r) \/ Gates!Count(r) \/ Gates!Slot(r)
                \/ Gates!Refuse(r) \/ Gates!ChargeAttempt(r) \/ Gates!Proceed(r) \/ Gates!Serve(r)
          \/ \E r \in Requests, v \in Gates!Verdicts : v[1] = config /\ Gates!Arrive(r, v[2])
      BY Zenon DEF Gates!Next
    <2> QED BY <2>1, <2>2, <2>3, <2>4, <2>5
  <1> QED BY <1>1, <1>2, PTL DEF Gates!Spec

\* In no minute are more passwords of the shared wallets, or tokens of the login form,
\* compared than two windows allow (allowSharedPasswordAttempt, RequireAccessToken).
THEOREM GuessesBounded == Gates!Spec => []GuessesAreBounded
  <1>1. GatesInv => GuessesAreBounded
    <2> SUFFICES ASSUME GatesInv PROVE GuessesAreBounded
      OBVIOUS
    <2>1. DOMAIN checks = Budgets /\ \A b \in Budgets : Apart(checks[b])
      BY DEF GatesInv, CountersInv, GuessInv
    <2> QED BY <2>1 DEF GuessesAreBounded, Gates!GuessesAreBounded, Apart
  <1> QED BY <1>1, GatesInvariant, PTL

\* Visitors are never counted in the operator's traffic window, never hold one of its
\* slots, and without the shared demo never reach a wallet's handler (newTraffic and the
\* order of the gates in server.go and security.go).
THEOREM OperatorSeparate == Gates!Spec => []OperatorIsSeparate
  <1>1. GatesInv => OperatorIsSeparate
    <2> SUFFICES ASSUME GatesInv PROVE OperatorIsSeparate
      OBVIOUS
    <2>1. "visitor" \notin counted["authenticated"]
      BY DEF GatesInv
    <2>2. ASSUME NEW r \in Requests, req[r].pc \in {"handler", "service"}, ~req[r].operator
          PROVE  /\ Gates!To(r) = "authenticated" => req[r].slot = "none"
                 /\ ~config.shared => "filter" \notin req[r].does
      <3>1. Allowed(config.shared, req[r])
        BY <2>2, UnderWayTypes DEF GatesInv, Pcs
      <3> QED BY <2>2, <3>1 DEF Allowed, Gates!To
    <2> QED BY <2>1, <2>2 DEF OperatorIsSeparate, Gates!OperatorIsSeparate
  <1> QED BY <1>1, GatesInvariant, PTL
=============================================================================
