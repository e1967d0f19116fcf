-------------------------- MODULE GcpLifecycle_proof --------------------------
(***************************************************************************)
(* Why a lease that the journal calls confirmed has nothing left, and why  *)
(* at most one machine is paid for: for any number of leases, processes,   *)
(* recoveries and faults, and however many controllers work on one lease   *)
(* at once. What a record says is weighed against what the insert has      *)
(* become: a record that knows of an attempt, and is not in doubt about    *)
(* it, exists only once the insert is settled. Then, of leases that no two *)
(* controllers were at: the delete budget, and what a first second without *)
(* faults leaves.                                                          *)
(***************************************************************************)
EXTENDS GcpLifecycle, TLAPS

CONFIRMED == "CLEANUP_CONFIRMED"

(* Where the one process that may insert is, up to the insert.             *)
Early == {"arm", "armed", "precheck", "intent", "insert"}
Untried == {"idle", "arm", "armed", "precheck", "intent", "abort"}

(* Where a process has learnt what became of the insert.                   *)
Acting == {"rejected", "prepare", "delete", "bind", "unsure delete", "denied"}

AnyOp == Operations \cup {NoOp}

AnyRecord == [state : States, op : AnyOp, status : Statuses, deletes : Int, flags : SUBSET Flags]

(* It knows of an attempt and is not in doubt.                             *)
Certain(r) == "attempted" \in r.flags /\ "ambiguous" \notin r.flags

Sent(l) == ops[l][InsertOp] # "none"
EarlyAt(l) == \E p \in Proc : pc[p] \in Early /\ at[p] = l
Settled(l) == prefix[l] = "chain" /\ ops[l][InsertOp] # "pending" /\ ~EarlyAt(l)
Confirmed(l) == prefix[l] = "chain" /\ head[l].state = CONFIRMED

Typed ==
  /\ prefix = [l \in Lease |-> prefix[l]]
  /\ head \in [Lease -> AnyRecord]
  /\ ops \in [Lease -> [Operations -> OpStates]]
  /\ pc = [p \in Proc |-> pc[p]] /\ at = [p \in Proc |-> at[p]]
  /\ mem \in [Proc -> AnyRecord] /\ pend \in [Proc -> AnyOp]
  /\ seen = [p \in Proc |-> seen[p]]

(* What a process may build on where it is.                                *)
Placed(p) ==
  /\ pc[p] # "idle" => at[p] \in Lease /\ prefix[at[p]] = "chain"
  /\ mem[p].state # CONFIRMED
  /\ pc[p] \in Untried => "attempted" \notin mem[p].flags
  /\ pc[p] = "insert" => "attempted" \in head[at[p]].flags
  /\ pc[p] \in Early => ~Sent(at[p])
  /\ Certain(mem[p]) => Settled(at[p])
  /\ pc[p] \in Acting => Settled(at[p])
  /\ seen[p] # "nothing" => pc[p] = "list" /\ Settled(at[p])
  /\ pc[p] \in {"handle", "wait"} => pend[p] # NoOp
  /\ pc[p] \in {"confirm", "settle"} => "ambiguous" \notin mem[p].flags
  /\ pc[p] = "settle" /\ "attempted" \in mem[p].flags => at[p] \notin vm \cup disk

(* What the journal and the provider say of a lease.                       *)
Lawful(l) ==
  /\ Sent(l) => prefix[l] = "chain" /\ "attempted" \in head[l].flags
  /\ l \in vm \cup disk => ops[l][InsertOp] = "done"
  /\ \A o \in Deletes : ops[l][o] # "none" => Settled(l)
  /\ Certain(head[l]) => Settled(l)
  /\ Confirmed(l) => ~Costly(l) /\ \A p \in Proc : pc[p] = "insert" => at[p] # l

OneExecutor ==
  \A p, q \in Proc : pc[p] \in Early /\ pc[q] \in Early /\ at[p] = at[q] => p = q

OneUnresolved == \A k, l \in Lease : Unresolved(k) /\ Unresolved(l) => k = l

LeaseIInv ==
  /\ Typed /\ OneExecutor /\ OneUnresolved
  /\ \A p \in Proc : Placed(p)
  /\ \A l \in Lease : Lawful(l)

-----------------------------------------------------------------------------
(* The records. *)

LEMMA RecordFields ==
  ASSUME NEW r \in AnyRecord, NEW on \in SUBSET Flags, NEW off \in SUBSET Flags
  PROVE  /\ WithFlags(r, on, off) \in AnyRecord
         /\ WithFlags(r, on, off).flags = (r.flags \cup on) \ off
         /\ WithFlags(r, on, off).state = r.state
  BY DEF AnyRecord, WithFlags

(* Whatever the journal accepts does not forget an attempt, nor that it    *)
(* has confirmed; and no record is confirmed in doubt.                     *)
LEMMA AcceptedRecord ==
  ASSUME NEW r \in AnyRecord, NEW prev \in AnyRecord, NEW e, Accepts(e, prev, r)
  PROVE  /\ "attempted" \in prev.flags => "attempted" \in r.flags
         /\ prev.state = CONFIRMED => r.state = CONFIRMED
         /\ r.state = CONFIRMED => "ambiguous" \notin r.flags
  BY DEF Accepts, Valid, Allowed, CONFIRMED

(* What a write may do to the journal.                                     *)
MayWrite(l, r) ==
  /\ UNCHANGED prefix
  /\ head' = head \/ (Accepts(event[l], head[l], r) /\ head' = [head EXCEPT ![l] = r])

LEMMA WritesMayWrite ==
  ASSUME NEW l, NEW r, NEW t, NEW n
  PROVE  /\ Append(l, r, t) => MayWrite(l, r) /\ head' = [head EXCEPT ![l] = r]
         /\ Unrecorded(l, r, t, n) => MayWrite(l, r)
         /\ Offered(l, r, t, n) => MayWrite(l, r)
  BY DEF Append, Takes, Unrecorded, Offered, MayWrite, journal

-----------------------------------------------------------------------------
(* What every step keeps of the leases, and what follows for a process     *)
(* that does not move.                                                     *)
Advances ==
  \A l \in Lease :
    /\ prefix[l] = "chain" => prefix'[l] = "chain"
    /\ prefix[l] = "chain" /\ "attempted" \in head[l].flags => "attempted" \in head'[l].flags
    /\ Settled(l) => Settled(l)'
    /\ Settled(l) /\ l \notin vm \cup disk => l \notin vm' \cup disk'
    /\ Sent(l)' => Sent(l) \/ ~EarlyAt(l)'

Stays(q) ==
  /\ pc'[q] = pc[q] /\ at'[q] = at[q] /\ mem'[q] = mem[q]
  /\ pend'[q] = pend[q] /\ seen'[q] = seen[q]

LEMMA StaysPlaced ==
  ASSUME Advances, NEW q \in Proc, Stays(q), Placed(q)
  PROVE  Placed(q)'
  <1>1. CASE pc[q] = "idle"
    BY <1>1 DEF Placed, Stays, Early, Acting, Untried, Certain
  <1>2. CASE pc[q] # "idle"
    <2>1. at[q] \in Lease /\ prefix[at[q]] = "chain" /\ at'[q] = at[q]
      BY <1>2 DEF Placed, Stays
    <2>2. /\ prefix'[at[q]] = "chain"
          /\ "attempted" \in head[at[q]].flags => "attempted" \in head'[at[q]].flags
          /\ Settled(at[q]) => Settled(at[q])'
          /\ Settled(at[q]) /\ at[q] \notin vm \cup disk => at[q] \notin vm' \cup disk'
          /\ Sent(at[q])' => Sent(at[q]) \/ ~EarlyAt(at[q])'
      BY <2>1 DEF Advances
    <2>3. pc[q] \in Early => EarlyAt(at[q])'
      BY <2>1 DEF EarlyAt, Stays
    <2> HIDE DEF EarlyAt
    <2>4. pc[q] = "settle" /\ "attempted" \in mem[q].flags => Settled(at[q])
      BY DEF Placed, Certain
    <2> QED BY <2>1, <2>2, <2>3, <2>4 DEF Placed, Stays, Certain
  <1> QED BY <1>1, <1>2

-----------------------------------------------------------------------------
(* What most steps are: one process goes on or returns, the provider does  *)
(* nothing, and the journal takes at most one record.                      *)

Quiet == UNCHANGED <<vm, disk, ops>>

Others(p) == \A q \in Proc \ {p} : Stays(q)

(* A record that may be offered for lease l.                               *)
Sound(l, r) ==
  /\ r \in AnyRecord
  /\ Certain(r) => Settled(l)
  /\ r.state = CONFIRMED /\ "attempted" \in r.flags => l \notin vm \cup disk

StepOf(p, r) ==
  /\ Quiet /\ Typed' /\ Others(p)
  /\ pc[p] # "idle" /\ MayWrite(at[p], r) /\ Sound(at[p], r)
  /\ pc'[p] \in Early => pc[p] \in Early /\ at'[p] = at[p]
  /\ pc'[p] = "insert" => head'[at[p]].state # CONFIRMED

LEMMA StepAdvances ==
  ASSUME LeaseIInv, NEW p \in Proc, NEW r, StepOf(p, r)
  PROVE  Advances
  <1>1. at[p] \in Lease /\ prefix' = prefix
    BY DEF LeaseIInv, Placed, StepOf, MayWrite
  <1>2. \A l \in Lease : EarlyAt(l)' => EarlyAt(l)
    BY DEF EarlyAt, StepOf, Others, Stays
  <1>3. \A l \in Lease : "attempted" \in head[l].flags => "attempted" \in head'[l].flags
    <2>1. CASE head' = head
      BY <2>1
    <2>2. CASE Accepts(event[at[p]], head[at[p]], r) /\ head' = [head EXCEPT ![at[p]] = r]
      <3>1. head[at[p]] \in AnyRecord /\ r \in AnyRecord /\ head \in [Lease -> AnyRecord]
        BY <1>1 DEF LeaseIInv, Typed, StepOf, Sound
      <3>2. "attempted" \in head[at[p]].flags => "attempted" \in r.flags
        BY <2>2, <3>1, AcceptedRecord
      <3> QED BY <1>1, <2>2, <3>1, <3>2
    <2> QED BY <2>1, <2>2 DEF StepOf, MayWrite
  <1> QED BY <1>1, <1>2, <1>3 DEF Advances, Settled, StepOf, Quiet, Sent

LEMMA StepKeeps ==
  ASSUME LeaseIInv, NEW p \in Proc, NEW r, StepOf(p, r), Placed(p)'
  PROVE  LeaseIInv'
  <1>1. at[p] \in Lease /\ prefix' = prefix /\ Lawful(at[p])
    BY DEF LeaseIInv, Placed, StepOf, MayWrite
  <1>2. Advances
    BY StepAdvances
  <1>3. \A q \in Proc : Placed(q)'
    BY <1>2, StaysPlaced DEF StepOf, Others, LeaseIInv
  <1>4. OneExecutor'
    BY DEF OneExecutor, LeaseIInv, StepOf, Others, Stays
  <1>5. /\ head[at[p]] \in AnyRecord /\ r \in AnyRecord
        /\ head \in [Lease -> AnyRecord]
    BY <1>1 DEF LeaseIInv, Typed, StepOf, Sound
  <1>6. \A l \in Lease : \/ head'[l] = head[l]
                         \/ l = at[p] /\ head'[l] = r /\ Accepts(event[l], head[l], r)
    BY <1>1, <1>5 DEF StepOf, MayWrite
  <1>7. \A l \in Lease : head[l].state = CONFIRMED => head'[l].state = CONFIRMED
    BY <1>5, <1>6, AcceptedRecord
  <1>8. OneUnresolved'
    BY <1>1, <1>7 DEF OneUnresolved, LeaseIInv, Unresolved, CONFIRMED
  <1>9. ASSUME NEW l \in Lease
        PROVE  Lawful(l)'
    <2>1. Lawful(l)
      BY DEF LeaseIInv
    <2>2. /\ Sent(l)' => prefix'[l] = "chain" /\ "attempted" \in head'[l].flags
          /\ l \in vm' \cup disk' => ops'[l][InsertOp] = "done"
          /\ \A o \in Deletes : ops'[l][o] # "none" => Settled(l)'
      BY <1>2, <2>1 DEF Lawful, Advances, StepOf, Quiet, Sent
    <2>3. Certain(head'[l]) => Settled(l)'
      BY <1>2, <1>6, <2>1 DEF Lawful, Advances, StepOf, Sound, Certain
    <2>4. Confirmed(l)' => ~Costly(l)
      <3>1. CASE head'[l] = head[l]
        BY <1>1, <2>1, <3>1 DEF Confirmed, Lawful
      <3>2. CASE l = at[p] /\ head'[l] = r /\ Accepts(event[l], head[l], r)
                 /\ r.state = CONFIRMED
        <4>1. "ambiguous" \notin r.flags
              /\ ("attempted" \in head[l].flags => "attempted" \in r.flags)
          BY <1>5, <3>2, AcceptedRecord
        <4>2. CASE "attempted" \in r.flags
          BY <3>2, <4>1, <4>2 DEF StepOf, Sound, Certain, Settled, Costly
        <4>3. CASE "attempted" \notin r.flags
          BY <2>1, <4>1, <4>3 DEF Lawful, Sent, Costly
        <4> QED BY <4>2, <4>3
      <3> QED BY <1>6, <3>1, <3>2 DEF Confirmed
    <2>5. Confirmed(l)' => \A q \in Proc : pc'[q] = "insert" => at'[q] # l
      <3> SUFFICES ASSUME Confirmed(l)', NEW q \in Proc, pc'[q] = "insert", at'[q] = l
                   PROVE  FALSE
        OBVIOUS
      <3>1. q = p \/ (pc[q] = "insert" /\ at[q] = l)
        BY DEF StepOf, Others, Stays
      <3>2. CASE q = p
        BY <3>2 DEF StepOf, Confirmed, Early
      <3>3. CASE q # p /\ pc[q] = "insert" /\ at[q] = l
        <4>1. "attempted" \in head[l].flags /\ ~Confirmed(l) /\ EarlyAt(l)
          BY <2>1, <3>3 DEF LeaseIInv, Placed, Lawful, EarlyAt, Early
        <4>2. l = at[p] /\ head'[l] = r /\ Accepts(event[l], head[l], r) /\ r.state = CONFIRMED
          BY <1>1, <1>6, <4>1 DEF Confirmed
        <4>3. Certain(r)
          BY <1>5, <4>1, <4>2, AcceptedRecord DEF Certain
        <4> QED BY <4>1, <4>2, <4>3 DEF StepOf, Sound, Settled
      <3> QED BY <3>1, <3>2, <3>3
    <2>6. Costly(l)' = Costly(l)
      BY DEF Costly, StepOf, Quiet
    <2> QED BY <2>2, <2>3, <2>4, <2>5, <2>6 DEF Lawful, Certain
  <1> QED BY <1>3, <1>4, <1>8, <1>9 DEF LeaseIInv, StepOf

(* A process that goes on: where to, with which record.                    *)
GoesOn(p, to, m, o, s) ==
  /\ pc' = [pc EXCEPT ![p] = to] /\ at' = at
  /\ mem' = [mem EXCEPT ![p] = m] /\ seen' = [seen EXCEPT ![p] = s]
  /\ pend' = [pend EXCEPT ![p] = o]

LEMMA GoingOnKeeps ==
  ASSUME LeaseIInv, NEW p \in Proc, pc[p] # "idle", Quiet,
         NEW r, MayWrite(at[p], r), Sound(at[p], r), r.state # CONFIRMED,
         NEW m \in {mem[p], r}, NEW o \in AnyOp, NEW to, NEW s, GoesOn(p, to, m, o, s),
         to # "idle",
         to \in Early => pc[p] \in Early,
         to \in Untried => "attempted" \notin m.flags,
         to = "insert" => "attempted" \in head'[at[p]].flags /\ head'[at[p]].state # CONFIRMED,
         to \in Acting => Settled(at[p]),
         s # "nothing" => to = "list" /\ Settled(at[p]),
         to \in {"handle", "wait"} => o # NoOp,
         to \in {"confirm", "settle"} => "ambiguous" \notin m.flags,
         to = "settle" /\ "attempted" \in m.flags => at[p] \notin vm \cup disk
  PROVE  LeaseIInv'
  <1>1. /\ at[p] \in Lease /\ prefix[at[p]] = "chain" /\ mem[p] \in AnyRecord
        /\ r \in AnyRecord /\ prefix' = prefix
    BY DEF LeaseIInv, Placed, Typed, Sound, MayWrite
  <1>2. m \in AnyRecord /\ m.state # CONFIRMED /\ (Certain(m) => Settled(at[p]))
    BY <1>1 DEF LeaseIInv, Placed, Sound
  <1>3. Typed'
    BY <1>1, <1>2 DEF LeaseIInv, Typed, GoesOn, MayWrite, Quiet
  <1>4. pc'[p] = to /\ at'[p] = at[p] /\ mem'[p] = m /\ pend'[p] = o /\ seen'[p] = s
    BY DEF LeaseIInv, Typed, GoesOn
  <1>5. Others(p)
    BY DEF LeaseIInv, Typed, GoesOn, Others, Stays
  <1>6. StepOf(p, r)
    BY <1>1, <1>3, <1>4, <1>5 DEF StepOf
  <1>7. /\ Settled(at[p]) => Settled(at[p])'
        /\ pc[p] \in Early => ~Sent(at[p])'
    <2>1. Advances
      BY <1>6, StepAdvances
    <2>2. /\ at' = at
          /\ pc[p] \in Early => ~Sent(at[p])
      BY DEF GoesOn, LeaseIInv, Placed
    <2>3. Sent(at[p])' = Sent(at[p])
      BY <2>2 DEF Sent, Quiet
    <2>4. Settled(at[p]) => Settled(at[p])'
      BY <1>1, <2>1, <2>2 DEF Advances
    <2> QED BY <2>2, <2>3, <2>4
  <1>8. Placed(p)'
    BY <1>1, <1>2, <1>4, <1>7 DEF Placed, Quiet, Certain
  <1> QED BY <1>6, <1>8, StepKeeps

(* A process that returns, from its call or in a crash.                    *)
LEMMA ReturningKeeps ==
  ASSUME LeaseIInv, NEW p \in Proc, pc[p] # "idle", Quiet, Return(p),
         NEW r, MayWrite(at[p], r), Sound(at[p], r)
  PROVE  LeaseIInv'
  <1>1. Initial \in AnyRecord /\ Initial.flags = {} /\ Initial.state # CONFIRMED
    <2>1. NoOp \in AnyOp
      BY DEF AnyOp
    <2>2. Initial \in AnyRecord
      <3>1. "PREPARED" \in States /\ "NONE" \in Statuses
        BY DEF States, Statuses
      <3>2. {} \in SUBSET Flags
        OBVIOUS
      <3> QED BY <2>1, <3>1, <3>2, SMT DEF Initial, AnyRecord
    <2>3. Initial.flags = {} /\ Initial.state = "PREPARED"
      BY DEF Initial
    <2> QED BY <2>2, <2>3 DEF CONFIRMED
  <1>2. /\ pc' = [pc EXCEPT ![p] = "idle"] /\ mem' = [mem EXCEPT ![p] = Initial]
        /\ at' = [at EXCEPT ![p] = NoLease] /\ seen' = [seen EXCEPT ![p] = "nothing"]
        /\ pend' = [pend EXCEPT ![p] = NoOp]
    BY DEF Return, Goto
  <1>3. at[p] \in Lease /\ NoOp \in AnyOp
    BY DEF LeaseIInv, Placed, AnyOp
  <1>4. Typed'
    <2>1. /\ head' \in [Lease -> AnyRecord] /\ prefix' = [l \in Lease |-> prefix'[l]]
      BY <1>3 DEF LeaseIInv, Typed, MayWrite, Sound
    <2>2. mem' \in [Proc -> AnyRecord]
      BY <1>1, <1>2 DEF LeaseIInv, Typed
    <2>3. pend' \in [Proc -> AnyOp]
      BY <1>2, <1>3 DEF LeaseIInv, Typed
    <2>4. /\ pc' = [q \in Proc |-> pc'[q]] /\ at' = [q \in Proc |-> at'[q]]
          /\ seen' = [q \in Proc |-> seen'[q]]
      BY <1>2 DEF LeaseIInv, Typed
    <2> QED BY <2>1, <2>2, <2>3, <2>4 DEF LeaseIInv, Typed, Quiet
  <1>5. pc'[p] = "idle" /\ mem'[p] = Initial /\ seen'[p] = "nothing"
    BY <1>2 DEF LeaseIInv, Typed
  <1>6. Others(p)
    BY <1>2 DEF LeaseIInv, Typed, Others, Stays
  <1>7. StepOf(p, r)
    BY <1>4, <1>5, <1>6 DEF StepOf, Early
  <1>8. Placed(p)'
    BY <1>1, <1>5 DEF Placed, Certain, Early, Acting
  <1> QED BY <1>7, <1>8, StepKeeps

-----------------------------------------------------------------------------
(* The records the actions build.                                          *)

Built(x, flags) == x \in AnyRecord /\ x.flags = flags /\ x.state # CONFIRMED

MarkedRecord(r) ==
  WithFlags([PendingRecord(r) EXCEPT !.status = IF @ \in Terminal THEN @ ELSE "UNKNOWN"],
            {"ambiguous"}, {})

LEMMA FlagsRaised ==
  ASSUME NEW r \in AnyRecord, r.state # CONFIRMED, NEW on \in SUBSET Flags
  PROVE  Built(WithFlags(r, on, {}), r.flags \cup on)
  <1>1. {} \in SUBSET Flags /\ (r.flags \cup on) \ {} = r.flags \cup on
    OBVIOUS
  <1> QED BY <1>1, RecordFields DEF Built

LEMMA FlagsLowered ==
  ASSUME NEW r \in AnyRecord, NEW off \in SUBSET Flags
  PROVE  /\ WithFlags(r, {}, off) \in AnyRecord
         /\ WithFlags(r, {}, off).flags = r.flags \ off
         /\ r.state # CONFIRMED => Built(WithFlags(r, {}, off), r.flags \ off)
  <1> DEFINE x == WithFlags(r, {}, off)
  <1>1. x = [r EXCEPT !.flags = @ \ off]
    BY DEF WithFlags, AnyRecord
  <1> HIDE DEF x
  <1>2. x \in AnyRecord /\ x.flags = r.flags \ off /\ x.state = r.state
    BY <1>1 DEF AnyRecord
  <1> QED BY <1>2 DEF Built, x

LEMMA BuiltRecords ==
  ASSUME NEW r \in AnyRecord, NEW o \in AnyOp, NEW status \in Statuses
  PROVE  /\ Built(ArmedRecord(r), r.flags \cup {"armed"})
         /\ Built(IntentRecord(r), r.flags \cup {"attempted", "ambiguous"})
         /\ Built(RejectedRecord(r), r.flags \ {"ambiguous"})
         /\ Built(OwnedRecord(r), r.flags)
         /\ Built(PendingRecord(r), r.flags)
         /\ Built([HandleRecord(r, o) EXCEPT !.state = "CLEANUP_PENDING"], r.flags)
         /\ r.state # CONFIRMED => Built(HandleRecord(r, o), r.flags)
         /\ Built(ReconciledRecord(r, o, status),
                  r.flags \ (IF status = "DONE" THEN {"ambiguous"} ELSE {}))
         /\ Built(DeleteIntent(r), r.flags \cup {"ambiguous"})
         /\ Built(MarkedRecord(r), r.flags \cup {"ambiguous"})
         /\ Built(DeniedRecord(r), r.flags \ {"ambiguous"})
         /\ Built(OrphanRecord(r), r.flags \cup {"orphaned"})
         /\ ConfirmedRecord(r) \in AnyRecord
         /\ ConfirmedRecord(r).flags = r.flags \ {"orphaned"}
  <1>1. /\ \A x \in States : [r EXCEPT !.state = x] \in AnyRecord
        /\ \A x \in States : [r EXCEPT !.state = x].flags = r.flags
        /\ \A x \in States : [r EXCEPT !.state = x].state = x
    BY DEF AnyRecord
  <1>2. {"ARM_CONSUMED", "CREATE_SUBMITTED", "OWNED", "CLEANUP_PENDING",
         "ORPHANED", "CLEANUP_CONFIRMED"} \subseteq States
        /\ {"UNKNOWN", "NONE", "PENDING"} \subseteq Statuses
    BY DEF States, Statuses
  <1>3. /\ {} \in SUBSET Flags /\ {"armed"} \in SUBSET Flags
        /\ {"attempted", "ambiguous"} \in SUBSET Flags
        /\ {"ambiguous"} \in SUBSET Flags /\ {"orphaned"} \in SUBSET Flags
    BY DEF Flags
  <1>4. Built(ArmedRecord(r), r.flags \cup {"armed"})
    BY <1>1, <1>2, <1>3, FlagsRaised DEF ArmedRecord, CONFIRMED
  <1>5. Built(IntentRecord(r), r.flags \cup {"attempted", "ambiguous"})
    <2>1. [r EXCEPT !.state = "CREATE_SUBMITTED", !.status = "UNKNOWN"] \in AnyRecord
      BY <1>2 DEF AnyRecord
    <2>2. /\ [r EXCEPT !.state = "CREATE_SUBMITTED", !.status = "UNKNOWN"].flags = r.flags
          /\ [r EXCEPT !.state = "CREATE_SUBMITTED", !.status = "UNKNOWN"].state
             = "CREATE_SUBMITTED"
      BY DEF AnyRecord
    <2> QED BY <2>1, <2>2, <1>3, FlagsRaised DEF IntentRecord, CONFIRMED
  <1>6. Built(RejectedRecord(r), r.flags \ {"ambiguous"})
    <2>1. [r EXCEPT !.state = "CREATE_SUBMITTED", !.status = "NONE"] \in AnyRecord
      BY <1>2 DEF AnyRecord
    <2>2. /\ [r EXCEPT !.state = "CREATE_SUBMITTED", !.status = "NONE"].flags = r.flags
          /\ [r EXCEPT !.state = "CREATE_SUBMITTED", !.status = "NONE"].state
             = "CREATE_SUBMITTED"
      BY DEF AnyRecord
    <2> QED BY <2>1, <2>2, <1>3, FlagsLowered DEF Built, RejectedRecord, CONFIRMED
  <1>7. Built(OwnedRecord(r), r.flags) /\ Built(PendingRecord(r), r.flags)
    BY <1>1, <1>2 DEF Built, OwnedRecord, PendingRecord, CONFIRMED
  <1>8. /\ HandleRecord(r, o) \in AnyRecord
        /\ HandleRecord(r, o).flags = r.flags /\ HandleRecord(r, o).state = r.state
    BY <1>2 DEF HandleRecord, AnyRecord
  <1>9. Built([HandleRecord(r, o) EXCEPT !.state = "CLEANUP_PENDING"], r.flags)
    BY <1>2, <1>8 DEF Built, AnyRecord, CONFIRMED
  <1>10. Built(ReconciledRecord(r, o, status),
               r.flags \ (IF status = "DONE" THEN {"ambiguous"} ELSE {}))
    <2> DEFINE x == IF o = InsertOp /\ r.state \in {"ARM_CONSUMED", "CREATE_SUBMITTED"}
                    THEN "CREATE_SUBMITTED" ELSE "CLEANUP_PENDING"
               y == [r EXCEPT !.op = o, !.status = status, !.state = x]
    <2>1. x \in States /\ x # CONFIRMED
      BY <1>2 DEF CONFIRMED
    <2> HIDE DEF x
    <2>2. y \in AnyRecord /\ y.flags = r.flags /\ y.state = x
      BY <2>1 DEF AnyRecord
    <2> HIDE DEF y
    <2>3. (IF status = "DONE" THEN {"ambiguous"} ELSE {}) \in SUBSET Flags
      BY <1>3
    <2>4. ReconciledRecord(r, o, status)
          = WithFlags(y, {}, IF status = "DONE" THEN {"ambiguous"} ELSE {})
      BY DEF ReconciledRecord, y, x
    <2> QED BY <2>1, <2>2, <2>3, <2>4, <1>3, FlagsLowered DEF Built
  <1>11. Built(DeleteIntent(r), r.flags \cup {"ambiguous"})
    <2> DEFINE y == [r EXCEPT !.state = "CLEANUP_PENDING", !.deletes = @ + 1,
                              !.status = IF r.op = NoOp THEN "UNKNOWN" ELSE @]
    <2>1. y \in AnyRecord /\ y.flags = r.flags /\ y.state = "CLEANUP_PENDING"
      <3>1. /\ (IF r.op = NoOp THEN "UNKNOWN" ELSE r.status) \in Statuses
            /\ r.deletes + 1 \in Int
        BY <1>2 DEF AnyRecord
      <3> QED BY <1>2, <3>1 DEF AnyRecord
    <2>2. DeleteIntent(r) = WithFlags(y, {"ambiguous"}, {})
      BY DEF DeleteIntent
    <2> HIDE DEF y
    <2> QED BY <2>1, <2>2, <1>3, FlagsRaised DEF CONFIRMED
  <1>12. Built(MarkedRecord(r), r.flags \cup {"ambiguous"})
    <2> DEFINE y == [PendingRecord(r) EXCEPT !.status = IF @ \in Terminal THEN @ ELSE "UNKNOWN"]
    <2>1. y \in AnyRecord /\ y.flags = r.flags /\ y.state = "CLEANUP_PENDING"
      BY <1>2 DEF AnyRecord, PendingRecord
    <2>2. MarkedRecord(r) = WithFlags(y, {"ambiguous"}, {})
      BY DEF MarkedRecord
    <2> HIDE DEF y
    <2> QED BY <2>1, <2>2, <1>3, FlagsRaised DEF CONFIRMED
  <1>13. Built(DeniedRecord(r), r.flags \ {"ambiguous"})
    BY <1>3, <1>7, FlagsLowered DEF DeniedRecord, Built
  <1>14. Built(OrphanRecord(r), r.flags \cup {"orphaned"})
    BY <1>1, <1>2, <1>3, FlagsRaised DEF OrphanRecord, CONFIRMED
  <1>15. /\ ConfirmedRecord(r) \in AnyRecord
         /\ ConfirmedRecord(r).flags = r.flags \ {"orphaned"}
    <2> DEFINE y == [r EXCEPT !.state = "CLEANUP_CONFIRMED"]
    <2>1. y \in AnyRecord /\ y.flags = r.flags
      BY <1>1, <1>2
    <2>2. ConfirmedRecord(r) = WithFlags(y, {}, {"orphaned"})
      BY DEF ConfirmedRecord
    <2> HIDE DEF y
    <2> QED BY <2>1, <2>2, <1>3, FlagsLowered
  <1> QED BY <1>4, <1>5, <1>6, <1>7, <1>8, <1>9, <1>10, <1>11, <1>12, <1>13, <1>14, <1>15
          DEF Built

-----------------------------------------------------------------------------
(* The three shapes of a step.                                             *)

Elsewhere(p) == UNCHANGED <<at, seen>> /\ Quiet

(* It goes on and may write r.                                             *)
LEMMA WritingKeeps ==
  ASSUME LeaseIInv, NEW p \in Proc, pc[p] \notin {"idle", "list"}, Elsewhere(p),
         NEW r, MayWrite(at[p], r), Sound(at[p], r), r.state # CONFIRMED,
         mem' = mem \/ mem' = [mem EXCEPT ![p] = r],
         NEW o \in AnyOp, pend' = [pend EXCEPT ![p] = o],
         NEW to, Goto(p, to), to # "idle",
         to \in Early => pc[p] \in Early,
         to \in Untried => "attempted" \notin mem'[p].flags,
         to = "insert" => "attempted" \in head'[at[p]].flags /\ head'[at[p]].state # CONFIRMED,
         to \in Acting => Settled(at[p]),
         to \in {"handle", "wait"} => o # NoOp,
         to \in {"confirm", "settle"} => "ambiguous" \notin mem'[p].flags,
         to = "settle" /\ "attempted" \in mem'[p].flags => at[p] \notin vm \cup disk
  PROVE  LeaseIInv'
  <1> DEFINE m == mem'[p]
  <1>1. m \in {mem[p], r} /\ mem' = [mem EXCEPT ![p] = m]
    BY DEF LeaseIInv, Typed
  <1>2. seen[p] = "nothing" /\ seen' = [seen EXCEPT ![p] = seen[p]] /\ at' = at
    BY DEF LeaseIInv, Typed, Placed, Elsewhere
  <1>3. GoesOn(p, to, m, o, seen[p])
    BY <1>1, <1>2 DEF GoesOn, Goto
  <1>4. Quiet
    BY DEF Elsewhere
  <1> HIDE DEF Quiet, MayWrite, Sound, LeaseIInv, Settled, GoesOn, Early, Untried, Acting
  <1> QED BY <1>1, <1>2, <1>3, <1>4, GoingOnKeeps

(* What a process holds is sound.                                          *)
LEMMA HeldIsSound ==
  ASSUME LeaseIInv, NEW p \in Proc, UNCHANGED journal
  PROVE  MayWrite(at[p], mem[p]) /\ Sound(at[p], mem[p]) /\ mem[p].state # CONFIRMED
  BY DEF LeaseIInv, Typed, Placed, MayWrite, Sound, journal

(* It goes on and writes nothing.                                          *)
LEMMA MovingKeeps ==
  ASSUME LeaseIInv, NEW p \in Proc, pc[p] \notin {"idle", "list"}, Elsewhere(p),
         UNCHANGED <<journal, mem, pend>>,
         NEW to, Goto(p, to), to \notin {"idle", "insert", "handle", "wait"},
         to \in Early => pc[p] \in Early,
         to \in Untried => "attempted" \notin mem[p].flags,
         to \in Acting => Settled(at[p]),
         to \in {"confirm", "settle"} => "ambiguous" \notin mem[p].flags,
         to = "settle" /\ "attempted" \in mem[p].flags => at[p] \notin vm \cup disk
  PROVE  LeaseIInv'
  <1>1. MayWrite(at[p], mem[p]) /\ Sound(at[p], mem[p]) /\ mem[p].state # CONFIRMED
    BY HeldIsSound
  <1>2. pend[p] \in AnyOp /\ pend' = [pend EXCEPT ![p] = pend[p]] /\ mem' = mem
    BY DEF LeaseIInv, Typed
  <1> HIDE DEF Elsewhere, MayWrite, Sound, LeaseIInv, Settled, Goto, Early, Untried, Acting
  <1> QED BY <1>1, <1>2, WritingKeeps

(* It returns or dies, and writes nothing.                                 *)
LEMMA LeavingKeeps ==
  ASSUME LeaseIInv, NEW p \in Proc, pc[p] # "idle", Quiet, UNCHANGED journal, Return(p)
  PROVE  LeaseIInv'
  <1>1. MayWrite(at[p], mem[p]) /\ Sound(at[p], mem[p])
    BY HeldIsSound
  <1> QED BY <1>1, ReturningKeeps

(* Whatever the provider finished, the insert is settled.                  *)
LEMMA DoneIsSettled ==
  ASSUME LeaseIInv, NEW l \in Lease, prefix[l] = "chain", NEW o \in Operations,
         ops[l][o] = "done"
  PROVE  Settled(l)
  <1>1. CASE o = InsertOp
    BY <1>1 DEF Settled, EarlyAt, LeaseIInv, Placed, Sent
  <1>2. CASE o # InsertOp
    BY <1>2 DEF LeaseIInv, Lawful, Operations
  <1> QED BY <1>1, <1>2

LEMMA BuiltIsSound ==
  ASSUME NEW l, NEW x, NEW flags, Built(x, flags),
         "attempted" \in flags /\ "ambiguous" \notin flags => Settled(l)
  PROVE  Sound(l, x) /\ x.state # CONFIRMED
  BY DEF Built, Sound, Certain

LEMMA MemoryWrites ==
  ASSUME LeaseIInv, NEW p \in Proc, NEW r, NEW t, NEW n
  PROVE  /\ Recorded(p, r, t) =>
              /\ MayWrite(at[p], r) /\ mem' = [mem EXCEPT ![p] = r] /\ mem'[p] = r
              /\ head' = [head EXCEPT ![at[p]] = r]
         /\ RecordResilient(p, r, t, n) =>
              MayWrite(at[p], r) /\ (mem' = mem \/ mem' = [mem EXCEPT ![p] = r])
  BY WritesMayWrite DEF Recorded, RecordResilient, LeaseIInv, Typed

LEMMA PlacedFacts ==
  ASSUME LeaseIInv, NEW p \in Proc, pc[p] # "idle"
  PROVE  /\ at[p] \in Lease /\ prefix[at[p]] = "chain"
         /\ mem[p] \in AnyRecord /\ mem[p].state # CONFIRMED
         /\ pend[p] \in AnyOp /\ pend = [pend EXCEPT ![p] = pend[p]]
         /\ mem = [mem EXCEPT ![p] = mem[p]]
         /\ "attempted" \in mem[p].flags /\ "ambiguous" \notin mem[p].flags => Settled(at[p])
         /\ pc[p] \in Untried => "attempted" \notin mem[p].flags
         /\ pc[p] \in Acting => Settled(at[p])
  BY DEF LeaseIInv, Typed, Placed, Certain

-----------------------------------------------------------------------------
(* execute. *)

LEMMA ArmKeeps ==
  ASSUME LeaseIInv, NEW p \in Proc,
         ConsumeArm(p) \/ ConsumeArmFails(p) \/ RecordArm(p) \/ Precheck(p)
  PROVE  LeaseIInv'
  <1> USE DEF Early, Untried, Acting
  <1>1. CASE ConsumeArm(p)
    <2>1. /\ pc[p] = "arm" /\ Elsewhere(p) /\ UNCHANGED <<journal, mem, pend>>
          /\ Goto(p, "abort") \/ Goto(p, "armed")
      BY <1>1 DEF ConsumeArm, Elsewhere, Quiet, provider, locals
    <2> QED BY <2>1, MovingKeeps, PlacedFacts
  <1>2. CASE ConsumeArmFails(p)
    <2>1. pc[p] = "arm" /\ Quiet /\ UNCHANGED journal /\ Return(p)
      BY <1>2 DEF ConsumeArmFails, Quiet, provider
    <2> QED BY <2>1, LeavingKeeps
  <1>3. CASE RecordArm(p)
    <2> DEFINE r == ArmedRecord(mem[p])
    <2>1. pc[p] = "armed" /\ UNCHANGED provider
      BY <1>3 DEF RecordArm
    <2>2. Sound(at[p], r) /\ r.state # CONFIRMED /\ "attempted" \notin r.flags
      <3>1. Built(r, mem[p].flags \cup {"armed"}) /\ "attempted" \notin mem[p].flags
        BY <2>1, PlacedFacts, BuiltRecords DEF States, Statuses
      <3> QED BY <3>1, BuiltIsSound DEF Built
    <2> HIDE DEF r
    <2>3. CASE Recorded(p, r, now[p]) /\ Goto(p, "precheck") /\ UNCHANGED <<at, pend, seen>>
      <3>1. MayWrite(at[p], r) /\ mem' = [mem EXCEPT ![p] = r] /\ mem'[p] = r
        BY <2>3, MemoryWrites
      <3>2. Elsewhere(p)
        BY <2>1, <2>3 DEF Elsewhere, Quiet, provider
      <3> QED BY <2>1, <2>2, <2>3, <3>1, <3>2, PlacedFacts, WritingKeeps
    <2>4. CASE Unrecorded(at[p], r, now[p], 0) /\ Return(p)
      <3>1. Quiet
        BY <2>1 DEF Quiet, provider
      <3> QED BY <2>1, <2>2, <2>4, <3>1, WritesMayWrite, ReturningKeeps
    <2> QED BY <1>3, <2>3, <2>4 DEF RecordArm, r
  <1>4. CASE Precheck(p)
    <2>1. /\ pc[p] = "precheck" /\ Elsewhere(p) /\ UNCHANGED <<journal, mem, pend>>
          /\ Goto(p, "abort") \/ Goto(p, "intent")
      BY <1>4 DEF Precheck, Elsewhere, Quiet, provider, locals
    <2> QED BY <2>1, MovingKeeps, PlacedFacts
  <1> QED BY <1>1, <1>2, <1>3, <1>4

LEMMA IntentKeeps ==
  ASSUME LeaseIInv, NEW p \in Proc, Abort(p) \/ RecordIntent(p)
  PROVE  LeaseIInv'
  <1> USE DEF Early, Untried, Acting
  <1>1. CASE Abort(p)
    <2> DEFINE r == ConfirmedRecord(mem[p])
    <2>1. /\ pc[p] = "abort" /\ Quiet /\ Return(p)
          /\ Offered(at[p], r, now[p], 0)
      BY <1>1 DEF Abort, Quiet, provider
    <2>2. r \in AnyRecord /\ "attempted" \notin r.flags
      BY <2>1, PlacedFacts, BuiltRecords DEF Statuses
    <2> HIDE DEF r
    <2>3. Sound(at[p], r) /\ MayWrite(at[p], r)
      BY <2>1, <2>2, WritesMayWrite DEF Sound, Certain
    <2> QED BY <2>1, <2>3, ReturningKeeps
  <1>2. CASE RecordIntent(p)
    <2> DEFINE r == IntentRecord(mem[p])
    <2>1. pc[p] = "intent" /\ Quiet
      BY <1>2 DEF RecordIntent, Quiet, provider
    <2>2. Sound(at[p], r) /\ r.state # CONFIRMED /\ "attempted" \in r.flags
      <3>1. Built(r, mem[p].flags \cup {"attempted", "ambiguous"})
        BY <2>1, PlacedFacts, BuiltRecords DEF Statuses
      <3> QED BY <3>1, BuiltIsSound DEF Built
    <2> HIDE DEF r
    <2>3. CASE Recorded(p, r, now[p]) /\ Goto(p, "insert") /\ UNCHANGED <<at, pend, seen>>
      <3>1. MayWrite(at[p], r) /\ mem' = [mem EXCEPT ![p] = r] /\ mem'[p] = r
        BY <2>3, MemoryWrites
      <3>2. head'[at[p]] = r
        <4>1. head' = [head EXCEPT ![at[p]] = r]
          BY <2>3, MemoryWrites
        <4>2. at[p] \in Lease
          BY <2>1, PlacedFacts
        <4> QED BY <4>1, <4>2 DEF LeaseIInv, Typed
      <3>3. Elsewhere(p)
        BY <2>1, <2>3 DEF Elsewhere
      <3> QED BY <2>1, <2>2, <2>3, <3>1, <3>2, <3>3, PlacedFacts, WritingKeeps
    <2>4. CASE Unrecorded(at[p], r, now[p], 0) /\ Return(p)
      BY <2>1, <2>2, <2>4, WritesMayWrite, ReturningKeeps
    <2> QED BY <1>2, <2>3, <2>4 DEF RecordIntent, r
  <1> QED BY <1>1, <1>2

LEMMA InsertedKeeps ==
  ASSUME LeaseIInv, NEW p \in Proc, RecordHandle(p) \/ MarkInsertAmbiguous(p) \/ RecordRejection(p)
  PROVE  LeaseIInv'
  <1> USE DEF Early, Untried, Acting
  <1>1. CASE RecordHandle(p)
    <2> DEFINE r == HandleRecord(mem[p], pend[p])
    <2>1. /\ pc[p] = "handle" /\ Elsewhere(p) /\ UNCHANGED pend /\ Goto(p, "wait")
          /\ RecordResilient(p, r, now[p], 0)
      BY <1>1 DEF RecordHandle, Elsewhere, Quiet, provider
    <2>2. Sound(at[p], r) /\ r.state # CONFIRMED
      <3>1. Built(r, mem[p].flags)
        BY <2>1, PlacedFacts, BuiltRecords DEF Statuses
      <3> QED BY <2>1, <3>1, PlacedFacts, BuiltIsSound
    <2> HIDE DEF r
    <2>3. MayWrite(at[p], r) /\ (mem' = mem \/ mem' = [mem EXCEPT ![p] = r])
      BY <2>1, MemoryWrites
    <2>4. pend[p] # NoOp
      BY <2>1 DEF LeaseIInv, Placed
    <2> QED BY <2>1, <2>2, <2>3, <2>4, PlacedFacts, WritingKeeps
  <1>2. CASE MarkInsertAmbiguous(p)
    <2> DEFINE r == IntentRecord(mem[p])
    <2>1. /\ pc[p] = "unsure insert" /\ Elsewhere(p) /\ UNCHANGED pend /\ Goto(p, "cleanup")
          /\ RecordResilient(p, r, now[p], 0)
      BY <1>2 DEF MarkInsertAmbiguous, Elsewhere, Quiet, provider
    <2>2. Sound(at[p], r) /\ r.state # CONFIRMED
      <3>1. Built(r, mem[p].flags \cup {"attempted", "ambiguous"})
        BY <2>1, PlacedFacts, BuiltRecords DEF Statuses
      <3> QED BY <3>1, BuiltIsSound
    <2> HIDE DEF r
    <2>3. MayWrite(at[p], r) /\ (mem' = mem \/ mem' = [mem EXCEPT ![p] = r])
      BY <2>1, MemoryWrites
    <2> QED BY <2>1, <2>2, <2>3, PlacedFacts, WritingKeeps
  <1>3. CASE RecordRejection(p)
    <2> DEFINE r == RejectedRecord(mem[p])
    <2>1. /\ pc[p] = "rejected" /\ Elsewhere(p) /\ UNCHANGED pend /\ Goto(p, "cleanup")
          /\ Recorded(p, r, now[p]) \/ (Unrecorded(at[p], r, now[p], 0) /\ UNCHANGED mem)
      BY <1>3 DEF RecordRejection, Elsewhere, Quiet, provider
    <2>2. Sound(at[p], r) /\ r.state # CONFIRMED
      <3>1. Built(r, mem[p].flags \ {"ambiguous"})
        BY <2>1, PlacedFacts, BuiltRecords DEF Statuses
      <3> QED BY <2>1, <3>1, PlacedFacts, BuiltIsSound
    <2> HIDE DEF r
    <2>3. MayWrite(at[p], r) /\ (mem' = mem \/ mem' = [mem EXCEPT ![p] = r])
      BY <2>1, MemoryWrites, WritesMayWrite
    <2> QED BY <2>1, <2>2, <2>3, PlacedFacts, WritingKeeps
  <1> QED BY <1>1, <1>2, <1>3

(* The provider's answer about an operation settles the insert, if it is   *)
(* that the operation is done.                                             *)
LEMMA ReconcileWrites ==
  ASSUME LeaseIInv, NEW p \in Proc, pc[p] # "idle", NEW o \in AnyOp, o # NoOp,
         Reconcile(p, o) \/ PollFails(p, o)
  PROVE  \E r \in AnyRecord, x \in AnyOp :
           /\ MayWrite(at[p], r) /\ Sound(at[p], r) /\ r.state # CONFIRMED
           /\ mem' = mem \/ mem' = [mem EXCEPT ![p] = r]
           /\ pend' = [pend EXCEPT ![p] = x]
  <1>1. CASE Reconcile(p, o)
    <2> DEFINE status == Reported(at[p], o)
               r == ReconciledRecord(mem[p], o, status)
               x == IF status = "TIMEOUT" THEN o ELSE NoOp
    <2>1. /\ RecordResilient(p, r, clock, IF status = "TIMEOUT" THEN 1 ELSE 0)
          /\ pend' = [pend EXCEPT ![p] = x]
      BY <1>1 DEF Reconcile
    <2>2. o \in Operations /\ x \in AnyOp
      BY DEF AnyOp
    <2>3. /\ status \in Statuses
          /\ status = "DONE" => ops[at[p]][o] = "done"
      BY DEF Reported, Statuses, Terminal
    <2> HIDE DEF status
    <2>4. Built(r, mem[p].flags \ (IF status = "DONE" THEN {"ambiguous"} ELSE {}))
      BY <2>3, PlacedFacts, BuiltRecords
    <2>5. status = "DONE" => Settled(at[p])
      BY <2>2, <2>3, PlacedFacts, DoneIsSettled
    <2>6. Sound(at[p], r) /\ r.state # CONFIRMED
      <3>1. CASE status = "DONE"
        BY <2>4, <2>5, <3>1, BuiltIsSound
      <3>2. CASE status # "DONE"
        <4>1. Built(r, mem[p].flags)
          BY <2>4, <3>2 DEF Built
        <4> QED BY <4>1, PlacedFacts, BuiltIsSound
      <3> QED BY <3>1, <3>2
    <2> HIDE DEF r, x
    <2>7. MayWrite(at[p], r) /\ (mem' = mem \/ mem' = [mem EXCEPT ![p] = r])
      BY <2>1, MemoryWrites
    <2> QED BY <2>1, <2>2, <2>6, <2>7 DEF Sound
  <1>2. CASE PollFails(p, o)
    <2>1. pend' = [pend EXCEPT ![p] = o] /\ UNCHANGED <<journal, mem>>
      BY <1>2 DEF PollFails
    <2> QED BY <2>1, HeldIsSound, PlacedFacts
  <1> QED BY <1>1, <1>2

LEMMA WaitKeeps ==
  ASSUME LeaseIInv, NEW p \in Proc, Wait(p) \/ Verify(p) \/ Work(p)
  PROVE  LeaseIInv'
  <1> USE DEF Early, Untried, Acting
  <1>1. CASE Wait(p)
    <2>1. /\ pc[p] = "wait" /\ Elsewhere(p)
          /\ Goto(p, "verify") \/ Goto(p, "cleanup")
          /\ Reconcile(p, pend[p]) \/ PollFails(p, pend[p])
      BY <1>1 DEF Wait, Elsewhere, Quiet, provider
    <2>2. pend[p] \in AnyOp /\ pend[p] # NoOp
      BY <2>1 DEF LeaseIInv, Placed, Typed
    <2>3. PICK r \in AnyRecord, x \in AnyOp :
            /\ MayWrite(at[p], r) /\ Sound(at[p], r) /\ r.state # CONFIRMED
            /\ mem' = mem \/ mem' = [mem EXCEPT ![p] = r]
            /\ pend' = [pend EXCEPT ![p] = x]
      BY <2>1, <2>2, ReconcileWrites
    <2> QED BY <2>1, <2>3, WritingKeeps
  <1>2. CASE Verify(p)
    <2> DEFINE r == OwnedRecord(mem[p])
    <2>1. /\ pc[p] = "verify" /\ Elsewhere(p) /\ UNCHANGED pend
          /\ Goto(p, "work") \/ Goto(p, "cleanup")
      BY <1>2 DEF Verify, Elsewhere, Quiet, provider
    <2>2. Sound(at[p], r) /\ r.state # CONFIRMED
      <3>1. Built(r, mem[p].flags)
        BY <2>1, PlacedFacts, BuiltRecords DEF Statuses
      <3> QED BY <2>1, <3>1, PlacedFacts, BuiltIsSound
    <2>3. CASE UNCHANGED <<journal, mem>>
      BY <2>1, <2>3, MovingKeeps
    <2>4. CASE Recorded(p, r, now[p]) \/ (Unrecorded(at[p], r, now[p], 0) /\ UNCHANGED mem)
      <3> HIDE DEF r
      <3>1. MayWrite(at[p], r) /\ (mem' = mem \/ mem' = [mem EXCEPT ![p] = r])
        BY <2>4, MemoryWrites, WritesMayWrite
      <3>2. pend[p] \in AnyOp /\ pend' = [pend EXCEPT ![p] = pend[p]]
        BY <2>1, PlacedFacts
      <3>3. CASE Goto(p, "work")
        BY <2>1, <2>2, <3>1, <3>2, <3>3, WritingKeeps
      <3>4. CASE Goto(p, "cleanup")
        BY <2>1, <2>2, <3>1, <3>2, <3>4, WritingKeeps
      <3> QED BY <2>1, <3>3, <3>4
    <2> QED BY <1>2, <2>3, <2>4 DEF Verify
  <1>3. CASE Work(p)
    <2>1. /\ pc[p] = "work" /\ Elsewhere(p) /\ UNCHANGED <<journal, mem, pend>>
          /\ Goto(p, "cleanup")
      BY <1>3 DEF Work, Elsewhere, Quiet, provider, locals
    <2> QED BY <2>1, MovingKeeps
  <1> QED BY <1>1, <1>2, <1>3

-----------------------------------------------------------------------------
(* _cleanup. *)

LEMMA LoopKeeps ==
  ASSUME LeaseIInv, NEW p \in Proc, StartCleanup(p) \/ Iterate(p) \/ GiveUp(p) \/ Deadline(p)
  PROVE  LeaseIInv'
  <1> USE DEF Early, Untried, Acting
  <1>1. CASE StartCleanup(p)
    <2> DEFINE r == PendingRecord(mem[p])
    <2>1. /\ pc[p] = "cleanup" /\ Elsewhere(p) /\ UNCHANGED pend /\ Goto(p, "reconcile")
          /\ RecordResilient(p, r, clock, 0)
      BY <1>1 DEF StartCleanup, Elsewhere, Quiet, provider
    <2>2. Sound(at[p], r) /\ r.state # CONFIRMED
      <3>1. Built(r, mem[p].flags)
        BY <2>1, PlacedFacts, BuiltRecords DEF Statuses
      <3> QED BY <2>1, <3>1, PlacedFacts, BuiltIsSound
    <2> HIDE DEF r
    <2>3. MayWrite(at[p], r) /\ (mem' = mem \/ mem' = [mem EXCEPT ![p] = r])
      BY <2>1, MemoryWrites
    <2> QED BY <2>1, <2>2, <2>3, PlacedFacts, WritingKeeps
  <1>2. CASE Iterate(p)
    <2> DEFINE o == Awaited(p)
    <2>1. pc[p] = "reconcile" /\ Elsewhere(p)
      BY <1>2 DEF Iterate, Elsewhere, Quiet, provider
    <2>2. o \in AnyOp
      BY <2>1, PlacedFacts DEF Awaited, AnyOp, AnyRecord
    <2> HIDE DEF o
    <2>3. CASE Goto(p, "get") /\ UNCHANGED <<journal, mem, pend>>
      BY <2>1, <2>3, MovingKeeps
    <2>4. CASE /\ o # NoOp /\ (Reconcile(p, o) \/ PollFails(p, o))
               /\ Goto(p, "reconcile") \/ Goto(p, "get")
      <3>1. PICK r \in AnyRecord, x \in AnyOp :
              /\ MayWrite(at[p], r) /\ Sound(at[p], r) /\ r.state # CONFIRMED
              /\ mem' = mem \/ mem' = [mem EXCEPT ![p] = r]
              /\ pend' = [pend EXCEPT ![p] = x]
        BY <2>1, <2>2, <2>4, ReconcileWrites
      <3> QED BY <2>1, <2>4, <3>1, WritingKeeps
    <2> QED BY <1>2, <2>3, <2>4 DEF Iterate, o
  <1>3. CASE GiveUp(p) \/ Deadline(p)
    <2>1. /\ pc[p] \in {"reconcile", "get", "confirm"} /\ Elsewhere(p)
          /\ UNCHANGED <<journal, mem, pend>> /\ Goto(p, "orphan")
      BY <1>3 DEF GiveUp, Deadline, Elsewhere, Quiet, provider, locals
    <2> QED BY <2>1, MovingKeeps
  <1> QED BY <1>1, <1>2, <1>3

LEMMA ObservingKeeps ==
  ASSUME LeaseIInv, NEW p \in Proc, GetInstance(p) \/ ListOwned(p)
  PROVE  LeaseIInv'
  <1> USE DEF Early, Untried, Acting
  <1>1. pc[p] \in {"get", "list"} /\ Quiet /\ UNCHANGED <<journal, at, mem, pend>>
    BY DEF GetInstance, ListOwned, Quiet, provider
  <1>2. MayWrite(at[p], mem[p]) /\ Sound(at[p], mem[p]) /\ mem[p].state # CONFIRMED
    BY <1>1, HeldIsSound
  <1>3. pend[p] \in AnyOp /\ pend' = [pend EXCEPT ![p] = pend[p]]
        /\ mem' = [mem EXCEPT ![p] = mem[p]]
    BY <1>1, PlacedFacts
  <1>4. at[p] \in vm => Settled(at[p])
    <2>1. at[p] \in Lease /\ prefix[at[p]] = "chain"
      BY <1>1, PlacedFacts
    <2>2. at[p] \in vm => ops[at[p]][InsertOp] = "done"
      BY <2>1 DEF LeaseIInv, Lawful
    <2> QED BY <2>1, <2>2, DoneIsSettled DEF Operations
  <1>5. CASE GetInstance(p)
    <2>1. PICK s, to : /\ Goto(p, to) /\ to \in {"list", "reconcile"}
                       /\ seen' = [seen EXCEPT ![p] = s]
                       /\ s # "nothing" => to = "list" /\ at[p] \in vm
      <3>1. seen[p] = "nothing" /\ seen = [seen EXCEPT ![p] = seen[p]]
        BY <1>5 DEF GetInstance, LeaseIInv, Typed, Placed
      <3> QED BY <1>5, <3>1 DEF GetInstance
    <2>2. GoesOn(p, to, mem[p], pend[p], s)
      BY <1>1, <1>3, <2>1 DEF GoesOn, Goto
    <2> QED BY <1>1, <1>2, <1>3, <1>4, <2>1, <2>2, GoingOnKeeps
  <1>6. CASE ListOwned(p)
    <2>1. PICK to : /\ Goto(p, to)
                    /\ to \in {"reconcile", "confirm", "orphan", "prepare"}
                    /\ to = "confirm" => "ambiguous" \notin mem[p].flags
                    /\ to = "prepare" => at[p] \in vm \/ seen[p] # "nothing"
      BY <1>6 DEF ListOwned, NextStep
    <2>2. GoesOn(p, to, mem[p], pend[p], "nothing")
      BY <1>1, <1>3, <1>6, <2>1 DEF GoesOn, Goto, ListOwned
    <2>3. to = "prepare" => Settled(at[p])
      BY <1>4, <2>1 DEF LeaseIInv, Placed
    <2> QED BY <1>1, <1>2, <1>3, <2>1, <2>2, <2>3, GoingOnKeeps
  <1> QED BY <1>5, <1>6

LEMMA ConfirmingKeeps ==
  ASSUME LeaseIInv, NEW p \in Proc, FinalConfirm(p) \/ Settle(p) \/ Orphan(p) \/ Crash(p)
  PROVE  LeaseIInv'
  <1> USE DEF Early, Untried, Acting
  <1>1. CASE FinalConfirm(p)
    <2>1. /\ pc[p] = "confirm" /\ Elsewhere(p) /\ UNCHANGED <<journal, mem, pend>>
          /\ \/ Goto(p, "settle") /\ at[p] \notin vm \cup disk
             \/ Goto(p, "reconcile")
      BY <1>1 DEF FinalConfirm, Elsewhere, Quiet, provider, locals
    <2>2. "ambiguous" \notin mem[p].flags
      BY <2>1 DEF LeaseIInv, Placed
    <2> QED BY <2>1, <2>2, MovingKeeps
  <1>2. CASE Settle(p)
    <2> DEFINE r == ConfirmedRecord(mem[p])
    <2>1. pc[p] = "settle" /\ Quiet /\ Return(p) /\ Offered(at[p], r, now[p], 0)
      BY <1>2 DEF Settle, Quiet, provider
    <2>2. /\ r \in AnyRecord /\ r.flags = mem[p].flags \ {"orphaned"}
          /\ "attempted" \in mem[p].flags /\ "ambiguous" \notin mem[p].flags => Settled(at[p])
      BY <2>1, PlacedFacts, BuiltRecords DEF Statuses
    <2>3. "attempted" \in mem[p].flags => at[p] \notin vm \cup disk
      BY <2>1 DEF LeaseIInv, Placed
    <2> HIDE DEF r
    <2>4. Sound(at[p], r) /\ MayWrite(at[p], r)
      BY <2>1, <2>2, <2>3, WritesMayWrite DEF Sound, Certain
    <2> QED BY <2>1, <2>4, ReturningKeeps
  <1>3. CASE Orphan(p)
    <2> DEFINE r == OrphanRecord(mem[p])
    <2>1. pc[p] = "orphan" /\ Quiet /\ Return(p) /\ Offered(at[p], r, now[p], 0)
      BY <1>3 DEF Orphan, Quiet, provider
    <2>2. Sound(at[p], r)
      <3>1. Built(r, mem[p].flags \cup {"orphaned"})
        BY <2>1, PlacedFacts, BuiltRecords DEF Statuses
      <3> QED BY <2>1, <3>1, PlacedFacts, BuiltIsSound
    <2> HIDE DEF r
    <2> QED BY <2>1, <2>2, WritesMayWrite, ReturningKeeps
  <1>4. CASE Crash(p)
    <2>1. pc[p] # "idle" /\ Quiet /\ UNCHANGED journal /\ Return(p)
      BY <1>4 DEF Crash, Quiet, provider
    <2> QED BY <2>1, LeavingKeeps
  <1> QED BY <1>1, <1>2, <1>3, <1>4

LEMMA DeletingKeeps ==
  ASSUME LeaseIInv, NEW p \in Proc,
         Prepare(p) \/ BindDelete(p) \/ MarkDeleteAmbiguous(p) \/ RecordDenial(p)
  PROVE  LeaseIInv'
  <1> USE DEF Early, Untried, Acting
  <1>1. CASE Prepare(p)
    <2> DEFINE r == DeleteIntent(mem[p])
    <2>1. /\ pc[p] = "prepare" /\ Elsewhere(p) /\ UNCHANGED pend
          /\ Goto(p, "delete") \/ Goto(p, "orphan")
          /\ Recorded(p, r, clock) \/ (Unrecorded(at[p], r, clock, 0) /\ UNCHANGED mem)
      BY <1>1 DEF Prepare, Elsewhere, Quiet, provider
    <2>2. Sound(at[p], r) /\ r.state # CONFIRMED
      <3>1. Built(r, mem[p].flags \cup {"ambiguous"})
        BY <2>1, PlacedFacts, BuiltRecords DEF Statuses
      <3> QED BY <3>1, BuiltIsSound
    <2> HIDE DEF r
    <2>3. MayWrite(at[p], r) /\ (mem' = mem \/ mem' = [mem EXCEPT ![p] = r])
      BY <2>1, MemoryWrites, WritesMayWrite
    <2>4. /\ pend[p] \in AnyOp /\ pend' = [pend EXCEPT ![p] = pend[p]]
          /\ Settled(at[p])
      BY <2>1, PlacedFacts
    <2>5. CASE Goto(p, "delete")
      BY <2>1, <2>2, <2>3, <2>4, <2>5, WritingKeeps
    <2>6. CASE Goto(p, "orphan")
      BY <2>1, <2>2, <2>3, <2>4, <2>6, WritingKeeps
    <2> QED BY <2>1, <2>5, <2>6
  <1>2. CASE BindDelete(p) \/ MarkDeleteAmbiguous(p) \/ RecordDenial(p)
    <2>1. /\ pc[p] \in {"bind", "unsure delete", "denied"} /\ Elsewhere(p) /\ UNCHANGED pend
          /\ Goto(p, "reconcile")
      BY <1>2 DEF BindDelete, MarkDeleteAmbiguous, RecordDenial, Elsewhere, Quiet, provider
    <2> DEFINE bound == [HandleRecord(mem[p], pend[p]) EXCEPT !.state = "CLEANUP_PENDING"]
               marked == MarkedRecord(mem[p])
               denied == DeniedRecord(mem[p])
    <2>2. /\ Built(bound, mem[p].flags)
          /\ Built(marked, mem[p].flags \cup {"ambiguous"})
          /\ Built(denied, mem[p].flags \ {"ambiguous"})
      BY <2>1, PlacedFacts, BuiltRecords DEF Statuses
    <2>3. Settled(at[p])
      BY <2>1, PlacedFacts
    <2>4. PICK r \in {bound, marked, denied} :
            MayWrite(at[p], r) /\ (mem' = mem \/ mem' = [mem EXCEPT ![p] = r])
      BY <1>2, MemoryWrites, WritesMayWrite
         DEF BindDelete, MarkDeleteAmbiguous, RecordDenial, MarkedRecord
    <2>5. Sound(at[p], r) /\ r.state # CONFIRMED
      BY <2>2, <2>3, <2>4, BuiltIsSound
    <2> QED BY <2>1, <2>4, <2>5, PlacedFacts, WritingKeeps
  <1> QED BY <1>1, <1>2

-----------------------------------------------------------------------------
(* The provider: requests it takes, operations and machines that end.      *)

LEMMA OneOperationChanges ==
  ASSUME ops \in [Lease -> [Operations -> OpStates]], NEW l \in Lease,
         NEW o \in Operations, NEW s \in OpStates, ops' = [ops EXCEPT ![l][o] = s]
  PROVE  /\ ops' \in [Lease -> [Operations -> OpStates]]
         /\ \A k \in Lease \ {l} : ops'[k] = ops[k]
         /\ ops'[l][o] = s
         /\ \A x \in Operations \ {o} : ops'[l][x] = ops[l][x]
  <1>1. ops' = [ops EXCEPT ![l] = [ops[l] EXCEPT ![o] = s]]
    OBVIOUS
  <1>2. [ops[l] EXCEPT ![o] = s] \in [Operations -> OpStates]
    OBVIOUS
  <1>3. ops'[l] = [ops[l] EXCEPT ![o] = s]
    BY <1>1
  <1> QED BY <1>1, <1>2, <1>3

LEMMA OpNames ==
  /\ InsertOp \in Operations /\ Deletes \subseteq Operations /\ InsertOp \notin Deletes
  /\ InsertOp # NoOp /\ Operations \subseteq AnyOp
  /\ \A o \in Operations : o # InsertOp => o \in Deletes
  /\ {"pending", "done", "error"} \subseteq OpStates
  BY DEF Operations, AnyOp, Deletes, InsertOp, NoOp, OpStates

LEMMA InsertKeeps ==
  ASSUME LeaseIInv, NEW p \in Proc, Insert(p)
  PROVE  LeaseIInv'
  <1> DEFINE l == at[p]
  <1>1. /\ pc[p] = "insert" /\ EarlyAt(l) /\ l \in Lease /\ prefix[l] = "chain"
        /\ "attempted" \in head[l].flags /\ ~Sent(l) /\ mem[p] \in AnyRecord
        /\ ~Certain(mem[p]) /\ seen[p] = "nothing"
    BY DEF Insert, LeaseIInv, Typed, Placed, Early, EarlyAt, Settled
  <1>2. /\ UNCHANGED <<prefix, head, vm, disk, at, mem, seen>>
        /\ \E to \in {"handle", "unsure insert", "rejected"} :
             /\ Goto(p, to)
             /\ to = "rejected" => UNCHANGED ops
             /\ to = "handle" => pend' = [pend EXCEPT ![p] = InsertOp]
             /\ to # "handle" => UNCHANGED pend
        /\ ops' \in {ops, [ops EXCEPT ![l][InsertOp] = "pending"]}
    BY DEF Insert, Accept, journal, provider
  <1>3. /\ InsertOp \in AnyOp /\ InsertOp # NoOp
        /\ ops' \in [Lease -> [Operations -> OpStates]]
        /\ \A k \in Lease \ {l} : ops'[k] = ops[k]
        /\ \A k \in Lease : \A o \in Deletes : ops'[k][o] = ops[k][o]
    <2>1. ops \in [Lease -> [Operations -> OpStates]]
      BY DEF LeaseIInv, Typed
    <2>2. CASE ops' = ops
      BY <2>1, <2>2, OpNames
    <2>3. CASE ops' = [ops EXCEPT ![l][InsertOp] = "pending"]
      <3>1. l \in Lease /\ InsertOp \in Operations /\ "pending" \in OpStates
        BY <1>1, OpNames
      <3> HIDE DEF l
      <3>2. /\ ops' \in [Lease -> [Operations -> OpStates]]
            /\ \A k \in Lease \ {l} : ops'[k] = ops[k]
            /\ \A x \in Operations \ {InsertOp} : ops'[l][x] = ops[l][x]
        BY <2>1, <2>3, <3>1, OneOperationChanges
      <3> QED BY <3>2, OpNames
    <2> QED BY <1>2, <2>2, <2>3
  <1>4. Typed'
    BY <1>1, <1>2, <1>3 DEF LeaseIInv, Typed, Goto
  <1>5. \A q \in Proc \ {p} : Stays(q)
    BY <1>2 DEF LeaseIInv, Typed, Stays, Goto
  <1>6. pc'[p] \in {"handle", "unsure insert", "rejected"}
    BY <1>2 DEF LeaseIInv, Typed, Goto
  <1>7. ~EarlyAt(l)' /\ \A k \in Lease : EarlyAt(k)' => EarlyAt(k)
    BY <1>1, <1>2, <1>5, <1>6 DEF LeaseIInv, OneExecutor, EarlyAt, Early, Stays
  <1>9. Advances
    BY <1>1, <1>2, <1>3, <1>7 DEF Advances, Settled, Sent
  <1>10. pc'[p] = "rejected" => Settled(l)'
    BY <1>1, <1>2, <1>7 DEF Settled, Sent, Goto, LeaseIInv, Typed
  <1>11. Placed(p)'
    BY <1>1, <1>2, <1>3, <1>6, <1>10
       DEF LeaseIInv, Typed, Placed, Early, Untried, Acting, Certain, Goto
  <1>12. \A q \in Proc : Placed(q)'
    BY <1>5, <1>9, <1>11, StaysPlaced DEF LeaseIInv
  <1>13. OneExecutor' /\ OneUnresolved'
    BY <1>2, <1>5, <1>6 DEF LeaseIInv, OneExecutor, OneUnresolved, Unresolved, Stays, Early
  <1>14. ASSUME NEW k \in Lease
         PROVE  Lawful(k)'
    <2>1. Lawful(k)
      BY DEF LeaseIInv
    <2>2. (Certain(head[k]) => Settled(k)') /\ (\A o \in Deletes : ops[k][o] # "none" => Settled(k)')
      BY <1>9, <2>1 DEF Lawful, Advances
    <2>3. CASE k = l
      BY <1>1, <1>2, <1>3, <1>5, <1>6, <2>1, <2>2, <2>3
         DEF Lawful, Confirmed, Sent, Certain, Costly, Stays
    <2>4. CASE k # l
      BY <1>2, <1>3, <1>5, <1>6, <2>1, <2>2, <2>4
         DEF Lawful, Confirmed, Sent, Certain, Costly, Stays
    <2> QED BY <2>3, <2>4
  <1> QED BY <1>4, <1>12, <1>13, <1>14 DEF LeaseIInv

LEMMA DeleteKeeps ==
  ASSUME LeaseIInv, NEW p \in Proc, Delete(p)
  PROVE  LeaseIInv'
  <1> DEFINE l == at[p]
  <1>1. /\ pc[p] = "delete" /\ Settled(l) /\ l \in Lease /\ prefix[l] = "chain"
        /\ mem[p] \in AnyRecord /\ seen[p] = "nothing"
    BY DEF Delete, LeaseIInv, Typed, Placed, Acting
  <1>2. /\ UNCHANGED <<prefix, head, vm, disk, at, mem, seen>>
        /\ \E to \in {"bind", "unsure delete", "denied"} : Goto(p, to)
        /\ \E x \in AnyOp : pend' = [pend EXCEPT ![p] = x]
        /\ ops' = ops \/ \E o \in Deletes : ops' = [ops EXCEPT ![l][o] = "pending"]
    <2>1. pend[p] \in AnyOp /\ pend = [pend EXCEPT ![p] = pend[p]] /\ Deletes \subseteq AnyOp
      BY DEF LeaseIInv, Typed, AnyOp, Operations
    <2> QED BY <2>1 DEF Delete, Accept, journal, provider
  <1>7. /\ ops' \in [Lease -> [Operations -> OpStates]]
        /\ \A k \in Lease \ {l} : ops'[k] = ops[k]
        /\ \A k \in Lease : ops'[k][InsertOp] = ops[k][InsertOp]
    <2>1. CASE ops' = ops
      BY <2>1 DEF LeaseIInv, Typed
    <2>2. CASE \E o \in Deletes : ops' = [ops EXCEPT ![l][o] = "pending"]
      BY <1>1, <2>2, OpNames, OneOperationChanges DEF LeaseIInv, Typed
    <2> QED BY <1>2, <2>1, <2>2
  <1>3. Typed'
    BY <1>1, <1>2, <1>7 DEF LeaseIInv, Typed, Goto
  <1>4. \A q \in Proc \ {p} : Stays(q)
    BY <1>2 DEF LeaseIInv, Typed, Stays, Goto
  <1>5. pc'[p] \in {"bind", "unsure delete", "denied"}
    BY <1>2 DEF LeaseIInv, Typed, Goto
  <1>6. \A k \in Lease : EarlyAt(k)' => EarlyAt(k)
    BY <1>2, <1>4, <1>5 DEF EarlyAt, Early, Stays
  <1>8. Advances
    BY <1>2, <1>6, <1>7 DEF Advances, Settled, Sent
  <1>9. Settled(l)'
    BY <1>1, <1>2, <1>8 DEF Advances
  <1>10. Placed(p)'
    BY <1>1, <1>2, <1>5, <1>9
       DEF LeaseIInv, Placed, Early, Untried, Acting, Certain
  <1>11. \A q \in Proc : Placed(q)'
    BY <1>4, <1>8, <1>10, StaysPlaced DEF LeaseIInv
  <1>12. OneExecutor' /\ OneUnresolved'
    BY <1>2, <1>4, <1>5 DEF LeaseIInv, OneExecutor, OneUnresolved, Unresolved, Stays, Early
  <1>13. ASSUME NEW k \in Lease
         PROVE  Lawful(k)'
    <2>1. Lawful(k)
      BY DEF LeaseIInv
    <2>2. /\ Certain(head[k]) => Settled(k)'
          /\ \A o \in Deletes : ops'[k][o] # "none" => Settled(k)'
      <3>1. CASE k = l
        <4>1. Settled(k)'
          BY <1>2, <1>9, <3>1
        <4> QED BY <4>1
      <3>2. CASE k # l
        BY <1>7, <1>8, <2>1, <3>2 DEF Lawful, Advances
      <3> QED BY <3>1, <3>2
    <2> QED BY <1>2, <1>4, <1>5, <1>7, <2>1, <2>2
            DEF Lawful, Confirmed, Sent, Certain, Costly, Stays
  <1> QED BY <1>3, <1>11, <1>12, <1>13 DEF LeaseIInv

(* Steps of nobody: the journal and the processes stay as they are.        *)
LEMMA ProviderKeeps ==
  ASSUME LeaseIInv, UNCHANGED <<prefix, head, pc, at, mem, pend, seen>>,
         ops' \in [Lease -> [Operations -> OpStates]],
         \A l \in Lease :
           /\ Sent(l)' = Sent(l)
           /\ ops[l][InsertOp] # "pending" =>
                /\ ops'[l][InsertOp] = ops[l][InsertOp]
                /\ l \notin vm \cup disk => l \notin vm' \cup disk'
           /\ l \in vm' \cup disk' => ops'[l][InsertOp] = "done"
           /\ \A o \in Deletes : ops'[l][o] # "none" => ops[l][o] # "none"
  PROVE  LeaseIInv'
  <1>1. Typed'
    BY DEF LeaseIInv, Typed
  <1>2. Advances
    BY DEF Advances, Settled, EarlyAt
  <1>3. \A p \in Proc : Placed(p)'
    BY <1>2, StaysPlaced DEF LeaseIInv, Stays
  <1>4. OneExecutor' /\ OneUnresolved'
    BY DEF LeaseIInv, OneExecutor, OneUnresolved, Unresolved
  <1>5. ASSUME NEW l \in Lease
        PROVE  Lawful(l)'
    <2>1. Lawful(l) /\ (Settled(l) => Settled(l)')
      BY <1>2 DEF LeaseIInv, Advances
    <2>2. ~Costly(l) => ~Costly(l)'
      BY DEF Costly
    <2> QED BY <2>1, <2>2 DEF Lawful, Confirmed, Certain
  <1> QED BY <1>1, <1>3, <1>4, <1>5 DEF LeaseIInv

LEMMA EndsKeep ==
  ASSUME LeaseIInv,
         \/ \E l \in Lease, o \in Operations : OperationEnds(l, o)
         \/ \E l \in Lease : RunDurationEnds(l)
         \/ Tick
  PROVE  LeaseIInv'
  <1>1. ops \in [Lease -> [Operations -> OpStates]]
    BY DEF LeaseIInv, Typed
  <1>2. \A l \in Lease : l \in vm \cup disk => ops[l][InsertOp] = "done"
    BY DEF LeaseIInv, Lawful
  <1>3. CASE \E l \in Lease, o \in Operations : OperationEnds(l, o)
    <2>1. PICK l \in Lease, o \in Operations : OperationEnds(l, o)
      BY <1>3
    <2>2. /\ UNCHANGED <<prefix, head, pc, at, mem, pend, seen>>
          /\ ops[l][o] = "pending"
          /\ \E s \in {"done", "error"} :
               /\ ops' = [ops EXCEPT ![l][o] = s]
               /\ o = InsertOp =>
                    /\ vm' \subseteq vm \cup {l} /\ disk' \subseteq disk \cup {l}
                    /\ s = "error" => UNCHANGED <<vm, disk>>
               /\ o # InsertOp => vm' \subseteq vm /\ disk' \subseteq disk
      BY <2>1 DEF OperationEnds, journal, locals
    <2>3. PICK s \in {"done", "error"} :
               /\ ops' = [ops EXCEPT ![l][o] = s]
               /\ o = InsertOp =>
                    /\ vm' \subseteq vm \cup {l} /\ disk' \subseteq disk \cup {l}
                    /\ s = "error" => UNCHANGED <<vm, disk>>
               /\ o # InsertOp => vm' \subseteq vm /\ disk' \subseteq disk
      BY <2>2
    <2>4. /\ ops' \in [Lease -> [Operations -> OpStates]]
          /\ \A k \in Lease \ {l} : ops'[k] = ops[k]
          /\ ops'[l][o] = s
          /\ \A x \in Operations \ {o} : ops'[l][x] = ops[l][x]
      BY <1>1, <2>3, OpNames, OneOperationChanges
    <2>5. ASSUME NEW k \in Lease
          PROVE  /\ Sent(k)' = Sent(k)
                 /\ ops[k][InsertOp] # "pending" =>
                      /\ ops'[k][InsertOp] = ops[k][InsertOp]
                      /\ k \notin vm \cup disk => k \notin vm' \cup disk'
                 /\ k \in vm' \cup disk' => ops'[k][InsertOp] = "done"
                 /\ \A x \in Deletes : ops'[k][x] # "none" => ops[k][x] # "none"
      <3>1. CASE k = l /\ o = InsertOp
        BY <1>2, <2>2, <2>3, <2>4, <3>1, OpNames DEF Sent
      <3>2. CASE k = l /\ o # InsertOp
        BY <1>2, <2>2, <2>3, <2>4, <3>2, OpNames DEF Sent
      <3>3. CASE k # l
        BY <1>2, <2>3, <2>4, <3>3 DEF Sent
      <3> QED BY <3>1, <3>2, <3>3
    <2> QED BY <2>2, <2>4, <2>5, ProviderKeeps
  <1>4. CASE (\E l \in Lease : RunDurationEnds(l)) \/ Tick
    <2>1. /\ UNCHANGED <<prefix, head, pc, at, mem, pend, seen, ops>>
          /\ vm' \subseteq vm /\ disk' \subseteq disk
      BY <1>4 DEF RunDurationEnds, Tick, journal, locals, provider
    <2>2. \A k \in Lease :
            /\ Sent(k)' = Sent(k)
            /\ k \in vm' \cup disk' => ops'[k][InsertOp] = "done"
            /\ k \notin vm \cup disk => k \notin vm' \cup disk'
            /\ ops'[k] = ops[k]
      BY <1>2, <2>1 DEF Sent
    <2> QED BY <1>1, <2>1, <2>2, ProviderKeeps
  <1> QED BY <1>3, <1>4

-----------------------------------------------------------------------------
(* A lease begins, or is taken over.                                       *)

LEMMA ReserveKeeps ==
  ASSUME LeaseIInv, NEW p \in Proc, NEW l \in Lease, Reserve(p, l) \/ ReserveFails(p, l)
  PROVE  LeaseIInv'
  <1>1. /\ pc[p] = "idle" /\ CanReserve(l)
        /\ UNCHANGED <<head, vm, disk, ops, mem, pend, seen>>
        /\ \E left \in {"anchor", "torn", "chain"} : DropAnchors(l, left)
        /\ \/ /\ at' = [at EXCEPT ![p] = l] /\ pc' = [pc EXCEPT ![p] = "arm"]
              /\ DropAnchors(l, "chain")
           \/ UNCHANGED <<pc, at>>
    BY DEF Reserve, ReserveFails, Goto, provider, locals
  <1>2. /\ prefix[l] # "chain" /\ prefix' = [k \in Lease |-> prefix'[k]]
        /\ \A k \in Lease : ~Unresolved(k)
        /\ \A k \in Lease \ {l} : prefix'[k] = "chain" <=> prefix[k] = "chain"
    BY <1>1 DEF CanReserve, DropAnchors
  <1>3. ~Sent(l) /\ l \notin vm \cup disk /\ \A o \in Deletes : ops[l][o] = "none"
    BY <1>2 DEF LeaseIInv, Lawful, Settled, Sent
  <1>4. \A q \in Proc : pc[q] # "idle" => at[q] # l
    BY <1>2 DEF LeaseIInv, Placed
  <1>5. Typed'
    BY <1>1, <1>2 DEF LeaseIInv, Typed
  <1>6. \A q \in Proc \ {p} : Stays(q)
    BY <1>1 DEF LeaseIInv, Typed, Stays
  <1>7. \/ pc'[p] = "arm" /\ at'[p] = l /\ prefix'[l] = "chain"
        \/ Stays(p)
    BY <1>1 DEF LeaseIInv, Typed, Stays, DropAnchors
  <1>8. \A k \in Lease \ {l} : EarlyAt(k)' => EarlyAt(k)
    BY <1>6, <1>7 DEF EarlyAt, Stays
  <1>9. Advances
    BY <1>1, <1>2, <1>3, <1>8 DEF Advances, Settled, Sent
  <1>10. Placed(p)'
    <2>1. CASE Stays(p)
      BY <1>9, <2>1, StaysPlaced DEF LeaseIInv
    <2>2. CASE pc'[p] = "arm" /\ at'[p] = l /\ prefix'[l] = "chain"
      BY <1>1, <1>3, <2>2 DEF LeaseIInv, Placed, Untried, Early, Acting, Certain, Sent
    <2> QED BY <1>7, <2>1, <2>2
  <1>11. \A q \in Proc : Placed(q)'
    BY <1>6, <1>9, <1>10, StaysPlaced DEF LeaseIInv
  <1>12. OneExecutor'
    <2>1. \A q \in Proc : pc[q] \in Early => at[q] # l
      BY <1>4 DEF Early
    <2> QED BY <1>6, <1>7, <2>1 DEF LeaseIInv, OneExecutor, Stays
  <1>13. OneUnresolved'
    BY <1>1, <1>2 DEF OneUnresolved, Unresolved
  <1>14. ASSUME NEW k \in Lease
         PROVE  Lawful(k)'
    <2>1. Lawful(k)
      BY DEF LeaseIInv
    <2>2. CASE k = l
      <3>1. ~Certain(head[k])
        BY <1>2, <2>1, <2>2 DEF Lawful, Settled
      <3>2. \A q \in Proc : pc'[q] = "insert" => at'[q] # l
        BY <1>4, <1>6, <1>7 DEF Stays
      <3> QED BY <1>1, <1>3, <2>2, <3>1, <3>2 DEF Lawful, Sent, Certain, Costly
    <2>3. CASE k # l
      <3>1. Settled(k) => Settled(k)'
        BY <1>9 DEF Advances
      <3>2. \A q \in Proc : pc'[q] = "insert" /\ at'[q] = k => pc[q] = "insert" /\ at[q] = k
        BY <1>6, <1>7 DEF Stays
      <3> QED BY <1>1, <1>2, <2>1, <2>3, <3>1, <3>2
              DEF Lawful, Confirmed, Sent, Certain, Costly
    <2> QED BY <2>2, <2>3
  <1> QED BY <1>5, <1>11, <1>12, <1>13, <1>14 DEF LeaseIInv

LEMMA RecoveryKeeps ==
  ASSUME LeaseIInv, NEW p \in Proc, NEW l \in Lease, RecoverCleanup(p, l)
  PROVE  LeaseIInv'
  <1>1. /\ pc[p] = "idle" /\ Unresolved(l)
        /\ UNCHANGED <<prefix, head, vm, disk, ops, pend, seen>>
        /\ at' = [at EXCEPT ![p] = l] /\ pc' = [pc EXCEPT ![p] = "cleanup"]
        /\ mem' = [mem EXCEPT ![p] = head[l]]
    BY DEF RecoverCleanup, Goto, journal, provider
  <1>2. Typed'
    BY <1>1 DEF LeaseIInv, Typed
  <1>3. /\ \A q \in Proc \ {p} : Stays(q)
        /\ pc'[p] = "cleanup" /\ at'[p] = l /\ mem'[p] = head[l]
    BY <1>1 DEF LeaseIInv, Typed, Stays
  <1>4. \A k \in Lease : EarlyAt(k)' <=> EarlyAt(k)
    BY <1>1, <1>3 DEF EarlyAt, Early, Stays
  <1>5. /\ \A k \in Lease : Settled(k)' <=> Settled(k)
        /\ Advances
    BY <1>1, <1>4 DEF Advances, Settled, Sent
  <1>6. Placed(p)'
    <2>1. seen'[p] = "nothing" /\ prefix'[l] = "chain" /\ head[l].state # CONFIRMED
      BY <1>1 DEF LeaseIInv, Placed, Unresolved, CONFIRMED
    <2>2. Certain(head[l]) => Settled(l)'
      BY <1>5 DEF LeaseIInv, Lawful
    <2>3. at' [p] = l /\ (Certain(mem'[p]) => Settled(at[p])')
      BY <1>3, <2>2
    <2> QED BY <1>3, <2>1, <2>3 DEF Placed, Untried, Early, Acting, Certain
  <1>7. \A q \in Proc : Placed(q)'
    BY <1>3, <1>5, <1>6, StaysPlaced DEF LeaseIInv
  <1>8. OneExecutor' /\ OneUnresolved'
    BY <1>1, <1>3 DEF LeaseIInv, OneExecutor, OneUnresolved, Unresolved, Early, Stays
  <1>9. ASSUME NEW k \in Lease
        PROVE  Lawful(k)'
    <2>1. Lawful(k)
      BY DEF LeaseIInv
    <2>2. \A q \in Proc : pc'[q] = "insert" /\ at'[q] = k => pc[q] = "insert" /\ at[q] = k
      BY <1>3 DEF Stays
    <2> QED BY <1>1, <1>5, <2>1, <2>2 DEF Lawful, Confirmed, Sent, Certain, Costly
  <1> QED BY <1>2, <1>7, <1>8, <1>9 DEF LeaseIInv

-----------------------------------------------------------------------------
LEMMA InitEstablishes == Init => LeaseIInv
  <1> SUFFICES ASSUME Init PROVE LeaseIInv
    OBVIOUS
  <1>1. Initial \in AnyRecord /\ Initial.flags = {} /\ Initial.state = "PREPARED"
    <2>1. "PREPARED" \in States /\ "NONE" \in Statuses /\ NoOp \in AnyOp
      BY DEF States, Statuses, AnyOp
    <2>2. {} \in SUBSET Flags
      OBVIOUS
    <2> QED BY <2>1, <2>2, SMT DEF Initial, AnyRecord
  <1>2. "none" \in OpStates /\ NoOp \in AnyOp /\ InsertOp \in Operations
    BY DEF OpStates, AnyOp, Operations
  <1>3. Typed
    BY <1>1, <1>2 DEF Init, Typed
  <1>4. OneExecutor /\ OneUnresolved
    BY DEF Init, OneExecutor, OneUnresolved, Unresolved, Early
  <1>5. \A p \in Proc : Placed(p)
    BY <1>1 DEF Init, Placed, Early, Untried, Acting, Certain, CONFIRMED
  <1>6. \A l \in Lease : Lawful(l)
    BY <1>1, <1>2, OpNames DEF Init, Lawful, Sent, Certain, Confirmed
  <1> QED BY <1>3, <1>4, <1>5, <1>6 DEF LeaseIInv

LEMMA NextKeeps == LeaseIInv /\ [Next]_vars => LeaseIInv'
  <1> SUFFICES ASSUME LeaseIInv, [Next]_vars PROVE LeaseIInv'
    OBVIOUS
  <1>1. ASSUME NEW p \in Proc, NEW l \in Lease,
               Reserve(p, l) \/ ReserveFails(p, l) \/ RecoverCleanup(p, l)
        PROVE  LeaseIInv'
    BY <1>1, ReserveKeeps, RecoveryKeeps
  <1>2. ASSUME NEW p \in Proc, Execute(p)
        PROVE  LeaseIInv'
    BY <1>2, ArmKeeps, IntentKeeps, InsertKeeps, InsertedKeeps, WaitKeeps DEF Execute
  <1>3. ASSUME NEW p \in Proc, Cleanup(p)
        PROVE  LeaseIInv'
    BY <1>3, LoopKeeps, ObservingKeeps, ConfirmingKeeps, DeletingKeeps, DeleteKeeps DEF Cleanup
  <1>4. ASSUME NEW p \in Proc, Crash(p)
        PROVE  LeaseIInv'
    BY <1>4, ConfirmingKeeps
  <1>5. CASE UNCHANGED vars
    <2>1. UNCHANGED <<prefix, head, vm, disk, ops, pc, at, mem, pend, seen>>
      BY <1>5 DEF vars, journal, provider, locals
    <2>2. ops' \in [Lease -> [Operations -> OpStates]]
          /\ \A l \in Lease : l \in vm \cup disk => ops[l][InsertOp] = "done"
      BY <2>1 DEF LeaseIInv, Typed, Lawful
    <2> QED BY <2>1, <2>2, ProviderKeeps DEF Sent
  <1> QED BY <1>1, <1>2, <1>3, <1>4, <1>5, EndsKeep DEF Next

LEMMA LeaseInvariant == Spec => []LeaseIInv
  <1> QED BY InitEstablishes, NextKeeps, PTL DEF Spec

(* A lease that the journal calls CLEANUP_CONFIRMED stands for no machine, *)
(* no disk and no insert that may still bring one, whatever number of      *)
(* controllers executed and recovered it at once, died, lost the answers   *)
(* of the provider or failed to write: CLEANUP_CONFIRMED is written only   *)
(* by _cleanup, from a record that is not in doubt and two observations,   *)
(* and by abort_before_provider, before any request.                       *)
THEOREM ConfirmedLeasesAreGone == Spec => []ConfirmedMeansGone
  <1>1. LeaseIInv => ConfirmedMeansGone
    BY DEF LeaseIInv, Lawful, Confirmed, CONFIRMED, ConfirmedMeansGone
  <1> QED BY <1>1, LeaseInvariant, PTL

(* At most one machine is paid for: reserve refuses a lease while another  *)
(* is unresolved, and whatever costs anything belongs to a lease that is.  *)
THEOREM OneMachineIsPaidFor == Spec => []OneMachineAtMost
  <1>1. LeaseIInv => OneMachineAtMost
    <2> SUFFICES ASSUME LeaseIInv, NEW k \in Lease, NEW l \in Lease, Costly(k), Costly(l)
                 PROVE  k = l
      BY DEF OneMachineAtMost
    <2>1. ASSUME NEW j \in Lease, Costly(j)
          PROVE  Unresolved(j)
      <3>1. Sent(j) /\ Lawful(j)
        BY <2>1 DEF Costly, Sent, LeaseIInv, Lawful
      <3> QED BY <2>1, <3>1 DEF Lawful, Confirmed, CONFIRMED, Unresolved
    <2> QED BY <2>1 DEF LeaseIInv, OneUnresolved
  <1> QED BY <1>1, LeaseInvariant, PTL

-----------------------------------------------------------------------------
(* The delete budget. *)

(* The one controller of a lease has counted every attempt that its        *)
(* journal has, unless a write failed under it and it is about to leave;   *)
(* and there is an attempt to spend when it calls for a delete.            *)
Counted(l) ==
  l \notin shared =>
    /\ calls[l] <= head[l].deletes
    /\ \A p, q \in Proc : at[p] = l /\ at[q] = l => p = q
    /\ \A p \in Proc : at[p] = l =>
         /\ pc[p] # "orphan" => mem[p].deletes = head[l].deletes
         /\ pc[p] = "delete" => calls[l] < head[l].deletes

BudgetIInv ==
  /\ calls \in [Lease -> Nat]
  /\ \A p \in Proc : pc[p] = "idle" => at[p] = NoLease /\ mem[p].deletes = 0
  /\ \A l \in Lease : prefix[l] # "chain" => head[l].deletes = 0
  /\ \A l \in Lease : Counted(l)

(* Every record but a delete intent counts as many attempts as the one it  *)
(* was made from.                                                          *)
LEMMA SameCount ==
  ASSUME NEW r \in AnyRecord, NEW o \in AnyOp, NEW s \in Statuses
  PROVE  /\ ArmedRecord(r).deletes = r.deletes
         /\ ConfirmedRecord(r).deletes = r.deletes
         /\ IntentRecord(r).deletes = r.deletes
         /\ HandleRecord(r, o).deletes = r.deletes
         /\ RejectedRecord(r).deletes = r.deletes
         /\ ReconciledRecord(r, o, s).deletes = r.deletes
         /\ OwnedRecord(r).deletes = r.deletes
         /\ PendingRecord(r).deletes = r.deletes
         /\ [HandleRecord(r, o) EXCEPT !.state = "CLEANUP_PENDING"].deletes = r.deletes
         /\ MarkedRecord(r).deletes = r.deletes
         /\ DeniedRecord(r).deletes = r.deletes
         /\ OrphanRecord(r).deletes = r.deletes
         /\ DeleteIntent(r).deletes = r.deletes + 1
  BY DEF AnyRecord, WithFlags, ArmedRecord, ConfirmedRecord, IntentRecord, HandleRecord,
         RejectedRecord, ReconciledRecord, OwnedRecord, PendingRecord, MarkedRecord, DeniedRecord,
         OrphanRecord, DeleteIntent

(* What a step does that calls for no delete.                              *)
Spends(p, count) ==
  /\ \E r \in AnyRecord : r.deletes = count /\ MayWrite(at[p], r)
  /\ \/ Return(p)
     \/ /\ at' = at
        /\ \E to : /\ Goto(p, to) /\ to \notin {"idle", "delete"}
                   /\ to # "orphan" => pc[p] # "orphan" /\ count = mem[p].deletes
        /\ \E m \in AnyRecord : mem' = [mem EXCEPT ![p] = m] /\ m.deletes = mem[p].deletes

Ordinary(p) ==
  /\ pc[p] # "idle" /\ UNCHANGED <<calls, shared>>
  /\ \E count \in {mem[p].deletes, mem[p].deletes + 1} : Spends(p, count)

LEMMA CountsOnlyGrow ==
  ASSUME LeaseIInv, NEW p \in Proc, pc[p] # "idle", NEW r \in AnyRecord, MayWrite(at[p], r)
  PROVE  /\ \A l \in Lease : head'[l].deletes >= head[l].deletes
         /\ \A l \in Lease : l # at[p] => head'[l] = head[l]
         /\ head'[at[p]] = head[at[p]] \/ head'[at[p]] = r
         /\ prefix' = prefix /\ at[p] \in Lease /\ prefix[at[p]] = "chain"
  <1>1. /\ at[p] \in Lease /\ prefix[at[p]] = "chain"
        /\ head \in [Lease -> AnyRecord] /\ \A l \in Lease : head[l].deletes \in Int
    BY PlacedFacts DEF LeaseIInv, Typed, AnyRecord
  <1>2. CASE head' = head
    BY <1>1, <1>2 DEF MayWrite
  <1>3. CASE Accepts(event[at[p]], head[at[p]], r) /\ head' = [head EXCEPT ![at[p]] = r]
    <2>1. r.deletes >= head[at[p]].deletes
      BY <1>1, <1>3 DEF Accepts, DeleteAllowed, IsDeleteIntent
    <2> QED BY <1>1, <1>3, <2>1 DEF MayWrite
  <1> QED BY <1>2, <1>3 DEF MayWrite

LEMMA OrdinaryKeeps ==
  ASSUME LeaseIInv, BudgetIInv, NEW p \in Proc, Ordinary(p)
  PROVE  BudgetIInv'
  <1>1. PICK count \in {mem[p].deletes, mem[p].deletes + 1} : Spends(p, count)
    BY DEF Ordinary
  <1>2. PICK r \in AnyRecord : r.deletes = count /\ MayWrite(at[p], r)
    BY <1>1 DEF Spends
  <1>3. /\ \A l \in Lease : head'[l].deletes >= head[l].deletes
        /\ \A l \in Lease : l # at[p] => head'[l] = head[l]
        /\ head'[at[p]] = head[at[p]] \/ head'[at[p]] = r
        /\ prefix' = prefix /\ at[p] \in Lease /\ prefix[at[p]] = "chain"
    BY <1>2, CountsOnlyGrow DEF Ordinary
  <1>4. /\ \A l \in Lease : head[l].deletes \in Int /\ head'[l].deletes \in Int
        /\ \A q \in Proc : mem[q].deletes \in Int
        /\ pc[p] # "idle" /\ calls' = calls /\ shared' = shared
    BY <1>2, <1>3 DEF LeaseIInv, Typed, AnyRecord, Ordinary
  <1>5. \A q \in Proc \ {p} : pc'[q] = pc[q] /\ at'[q] = at[q] /\ mem'[q] = mem[q]
    BY <1>1 DEF LeaseIInv, Typed, Spends, Return, Goto
  <1>6. \/ pc'[p] = "idle" /\ at'[p] = NoLease /\ mem'[p].deletes = 0
        \/ /\ at'[p] = at[p] /\ mem'[p].deletes = mem[p].deletes
           /\ pc'[p] \notin {"idle", "delete"}
           /\ pc'[p] # "orphan" => pc[p] # "orphan" /\ count = mem[p].deletes
    <2>1. CASE Return(p)
      BY <2>1 DEF LeaseIInv, Typed, Return, Goto, Initial
    <2> QED BY <1>1, <2>1 DEF LeaseIInv, Typed, Spends, Goto
  <1>7. ASSUME NEW l \in Lease
        PROVE  Counted(l)'
    <2> SUFFICES ASSUME l \notin shared
                 PROVE  /\ calls[l] <= head'[l].deletes
                        /\ \A x, y \in Proc : at'[x] = l /\ at'[y] = l => x = y
                        /\ \A x \in Proc : at'[x] = l =>
                             /\ pc'[x] # "orphan" => mem'[x].deletes = head'[l].deletes
                             /\ pc'[x] = "delete" => calls[l] < head'[l].deletes
      BY <1>4 DEF Counted
    <2>1. /\ calls[l] \in Nat /\ calls[l] <= head[l].deletes
          /\ \A x, y \in Proc : at[x] = l /\ at[y] = l => x = y
          /\ \A x \in Proc : at[x] = l =>
               /\ pc[x] # "orphan" => mem[x].deletes = head[l].deletes
               /\ pc[x] = "delete" => calls[l] < head[l].deletes
      BY DEF BudgetIInv, Counted
    <2>2. \A x \in Proc : at'[x] = l => at[x] = l
      BY <1>5, <1>6, LeaseAssumption
    <2>3. calls[l] <= head'[l].deletes
      BY <1>3, <1>4, <2>1
    <2>4. ASSUME NEW x \in Proc, at'[x] = l
          PROVE  /\ pc'[x] # "orphan" => mem'[x].deletes = head'[l].deletes
                 /\ pc'[x] = "delete" => calls[l] < head'[l].deletes
      <3>1. CASE x = p
        <4>1. l = at[p] /\ at'[p] # NoLease
          BY <2>2, <2>4, <3>1, LeaseAssumption
        <4> QED BY <1>2, <1>3, <1>6, <2>1, <2>4, <3>1, <4>1
      <3>2. CASE x # p
        <4>1. at[x] = l /\ l # at[p]
          BY <2>1, <2>2, <2>4, <3>2
        <4> QED BY <1>3, <1>5, <2>1, <3>2, <4>1
      <3> QED BY <3>1, <3>2
    <2> QED BY <2>1, <2>2, <2>3, <2>4
  <1>8. \A q \in Proc : pc'[q] = "idle" => at'[q] = NoLease /\ mem'[q].deletes = 0
    BY <1>5, <1>6 DEF BudgetIInv
  <1>9. \A l \in Lease : prefix'[l] # "chain" => head'[l].deletes = 0
    BY <1>3 DEF BudgetIInv
  <1> QED BY <1>4, <1>7, <1>8, <1>9 DEF BudgetIInv

(* The records a process makes, but the delete intent, count what its own  *)
(* counts.                                                                 *)
Recounts(p, r) == r \in AnyRecord /\ r.deletes = mem[p].deletes

LEMMA MadeRecords ==
  ASSUME LeaseIInv, NEW p \in Proc, pc[p] # "idle", NEW o \in AnyOp, NEW s \in Statuses
  PROVE  /\ Recounts(p, mem[p]) /\ Recounts(p, ArmedRecord(mem[p]))
         /\ Recounts(p, ConfirmedRecord(mem[p])) /\ Recounts(p, IntentRecord(mem[p]))
         /\ Recounts(p, HandleRecord(mem[p], o)) /\ Recounts(p, RejectedRecord(mem[p]))
         /\ Recounts(p, ReconciledRecord(mem[p], o, s)) /\ Recounts(p, OwnedRecord(mem[p]))
         /\ Recounts(p, PendingRecord(mem[p]))
         /\ Recounts(p, [HandleRecord(mem[p], o) EXCEPT !.state = "CLEANUP_PENDING"])
         /\ Recounts(p, MarkedRecord(mem[p])) /\ Recounts(p, DeniedRecord(mem[p]))
         /\ Recounts(p, OrphanRecord(mem[p]))
         /\ DeleteIntent(mem[p]) \in AnyRecord /\ mem[p].deletes \in Int
         /\ DeleteIntent(mem[p]).deletes = mem[p].deletes + 1
  <1>1. mem[p] \in AnyRecord /\ mem[p].state # CONFIRMED
    BY PlacedFacts
  <1>2. mem[p].deletes \in Int
    BY <1>1 DEF AnyRecord
  <1> QED BY <1>1, <1>2, BuiltRecords, SameCount DEF Recounts, Built

(* The three shapes of an ordinary step.                                   *)
LEMMA WritersAreOrdinary ==
  ASSUME LeaseIInv, NEW p \in Proc, pc[p] \notin {"idle", "orphan"},
         UNCHANGED <<at, calls, shared>>, NEW r, Recounts(p, r), MayWrite(at[p], r),
         mem' = mem \/ mem' = [mem EXCEPT ![p] = r],
         NEW to, Goto(p, to), to \notin {"idle", "delete"}
  PROVE  Ordinary(p)
  <1>1. mem[p] \in AnyRecord /\ mem = [mem EXCEPT ![p] = mem[p]]
    BY PlacedFacts
  <1>2. Spends(p, mem[p].deletes)
    BY <1>1 DEF Spends, Recounts
  <1> QED BY <1>2 DEF Ordinary

LEMMA MoversAreOrdinary ==
  ASSUME LeaseIInv, NEW p \in Proc, pc[p] \notin {"idle", "orphan"},
         UNCHANGED <<journal, at, mem, calls, shared>>,
         NEW to, Goto(p, to), to \notin {"idle", "delete"}
  PROVE  Ordinary(p)
  <1>1. Recounts(p, mem[p]) /\ MayWrite(at[p], mem[p])
    BY PlacedFacts, HeldIsSound DEF Recounts
  <1> QED BY <1>1, WritersAreOrdinary

LEMMA LeaversAreOrdinary ==
  ASSUME LeaseIInv, NEW p \in Proc, pc[p] # "idle", UNCHANGED <<calls, shared>>,
         NEW r, Recounts(p, r), MayWrite(at[p], r), Return(p)
  PROVE  Ordinary(p)
  BY DEF Ordinary, Spends, Recounts

LEMMA ReconcileRecounts ==
  ASSUME LeaseIInv, NEW p \in Proc, pc[p] # "idle", NEW o \in AnyOp, o # NoOp,
         Reconcile(p, o) \/ PollFails(p, o)
  PROVE  \E r \in AnyRecord :
           /\ Recounts(p, r) /\ MayWrite(at[p], r)
           /\ mem' = mem \/ mem' = [mem EXCEPT ![p] = r]
  <1>1. CASE Reconcile(p, o)
    <2> DEFINE status == Reported(at[p], o)
               r == ReconciledRecord(mem[p], o, status)
    <2>1. RecordResilient(p, r, clock, IF status = "TIMEOUT" THEN 1 ELSE 0)
      BY <1>1 DEF Reconcile
    <2>2. status \in Statuses
      BY DEF Reported, Statuses, Terminal
    <2> HIDE DEF status
    <2>3. Recounts(p, r)
      BY <2>2, MadeRecords
    <2> HIDE DEF r
    <2> QED BY <2>1, <2>3, MemoryWrites DEF Recounts
  <1>2. CASE PollFails(p, o)
    <2>1. UNCHANGED <<journal, mem>> /\ Recounts(p, mem[p])
      BY <1>2, PlacedFacts DEF PollFails, Recounts
    <2> QED BY <2>1, HeldIsSound DEF Recounts
  <1> QED BY <1>1, <1>2

LEMMA ExecuteIsOrdinary ==
  ASSUME LeaseIInv, NEW p \in Proc, Execute(p)
  PROVE  Ordinary(p)
  <1>1. CASE ConsumeArm(p) \/ Precheck(p) \/ Work(p)
    BY <1>1, MoversAreOrdinary DEF ConsumeArm, Precheck, Work, provider, locals, counts
  <1>2. CASE ConsumeArmFails(p)
    <2>1. /\ pc[p] = "arm" /\ UNCHANGED <<journal, calls, shared>> /\ Return(p)
      BY <1>2 DEF ConsumeArmFails, provider, counts
    <2> QED BY <2>1, MadeRecords, HeldIsSound, LeaversAreOrdinary, OpNames DEF Statuses
  <1>3. CASE RecordArm(p)
    <2> DEFINE r == ArmedRecord(mem[p])
    <2>1. pc[p] = "armed" /\ UNCHANGED <<calls, shared>>
      BY <1>3 DEF RecordArm, provider, counts
    <2>2. Recounts(p, r)
      BY <2>1, MadeRecords, OpNames DEF Statuses
    <2> HIDE DEF r
    <2>3. \/ Recorded(p, r, now[p]) /\ Goto(p, "precheck") /\ UNCHANGED at
          \/ Unrecorded(at[p], r, now[p], 0) /\ Return(p)
      BY <1>3 DEF RecordArm, r
    <2> QED BY <2>1, <2>2, <2>3, MemoryWrites, WritesMayWrite, WritersAreOrdinary,
               LeaversAreOrdinary
  <1>4. CASE Abort(p)
    <2> DEFINE r == ConfirmedRecord(mem[p])
    <2>1. /\ pc[p] = "abort" /\ UNCHANGED <<calls, shared>> /\ Return(p)
          /\ Offered(at[p], r, now[p], 0)
      BY <1>4 DEF Abort, provider, counts
    <2>2. Recounts(p, r)
      BY <2>1, MadeRecords, OpNames DEF Statuses
    <2> HIDE DEF r
    <2> QED BY <2>1, <2>2, WritesMayWrite, LeaversAreOrdinary
  <1>5. CASE RecordIntent(p)
    <2> DEFINE r == IntentRecord(mem[p])
    <2>1. pc[p] = "intent" /\ UNCHANGED <<calls, shared>>
      BY <1>5 DEF RecordIntent, provider, counts
    <2>2. Recounts(p, r)
      BY <2>1, MadeRecords, OpNames DEF Statuses
    <2> HIDE DEF r
    <2>3. \/ Recorded(p, r, now[p]) /\ Goto(p, "insert") /\ UNCHANGED at
          \/ Unrecorded(at[p], r, now[p], 0) /\ Return(p)
      BY <1>5 DEF RecordIntent, r
    <2> QED BY <2>1, <2>2, <2>3, MemoryWrites, WritesMayWrite, WritersAreOrdinary,
               LeaversAreOrdinary
  <1>6. CASE Insert(p)
    <2>1. /\ pc[p] = "insert" /\ UNCHANGED <<journal, at, mem, calls, shared>>
          /\ Goto(p, "handle") \/ Goto(p, "unsure insert") \/ Goto(p, "rejected")
      BY <1>6 DEF Insert, Accept, provider, counts
    <2> QED BY <2>1, MoversAreOrdinary
  <1>7. CASE RecordHandle(p) \/ MarkInsertAmbiguous(p) \/ RecordRejection(p)
    <2>1. /\ pc[p] \in {"handle", "unsure insert", "rejected"}
          /\ UNCHANGED <<at, calls, shared>>
          /\ Goto(p, "wait") \/ Goto(p, "cleanup")
      BY <1>7 DEF RecordHandle, MarkInsertAmbiguous, RecordRejection, provider, counts
    <2> DEFINE handle == HandleRecord(mem[p], pend[p])
               intent == IntentRecord(mem[p])
               rejected == RejectedRecord(mem[p])
    <2>2. Recounts(p, handle) /\ Recounts(p, intent) /\ Recounts(p, rejected)
      BY <2>1, MadeRecords, PlacedFacts DEF Statuses
    <2>3. PICK r \in {handle, intent, rejected} :
            MayWrite(at[p], r) /\ (mem' = mem \/ mem' = [mem EXCEPT ![p] = r])
      BY <1>7, MemoryWrites, WritesMayWrite
         DEF RecordHandle, MarkInsertAmbiguous, RecordRejection
    <2>4. Recounts(p, r)
      BY <2>2, <2>3
    <2>5. PICK to \in {"wait", "cleanup"} : Goto(p, to)
      BY <2>1
    <2> QED BY <2>1, <2>3, <2>4, <2>5, WritersAreOrdinary
  <1>8. CASE Wait(p)
    <2>1. /\ pc[p] = "wait" /\ UNCHANGED <<at, calls, shared>>
          /\ Goto(p, "verify") \/ Goto(p, "cleanup")
          /\ Reconcile(p, pend[p]) \/ PollFails(p, pend[p])
      BY <1>8 DEF Wait, provider, counts
    <2>2. pend[p] \in AnyOp /\ pend[p] # NoOp
      BY <2>1 DEF LeaseIInv, Placed, Typed
    <2>3. PICK r \in AnyRecord :
            /\ Recounts(p, r) /\ MayWrite(at[p], r)
            /\ mem' = mem \/ mem' = [mem EXCEPT ![p] = r]
      BY <2>1, <2>2, ReconcileRecounts
    <2> QED BY <2>1, <2>3, WritersAreOrdinary
  <1>9. CASE Verify(p)
    <2> DEFINE r == OwnedRecord(mem[p])
    <2>1. /\ pc[p] = "verify" /\ UNCHANGED <<at, calls, shared>>
          /\ Goto(p, "work") \/ Goto(p, "cleanup")
      BY <1>9 DEF Verify, provider, counts
    <2>2. Recounts(p, r)
      BY <2>1, MadeRecords, OpNames DEF Statuses
    <2> HIDE DEF r
    <2>3. \/ UNCHANGED <<journal, mem>>
          \/ Recorded(p, r, now[p])
          \/ Unrecorded(at[p], r, now[p], 0) /\ UNCHANGED mem
      BY <1>9 DEF Verify, r
    <2> QED BY <2>1, <2>2, <2>3, MemoryWrites, WritesMayWrite, WritersAreOrdinary,
               MoversAreOrdinary
  <1> QED BY <1>1, <1>2, <1>3, <1>4, <1>5, <1>6, <1>7, <1>8, <1>9 DEF Execute

LEMMA CleanupIsOrdinary ==
  ASSUME LeaseIInv, NEW p \in Proc, Cleanup(p), ~Prepare(p), ~Delete(p)
  PROVE  Ordinary(p)
  <1>1. CASE StartCleanup(p)
    <2> DEFINE r == PendingRecord(mem[p])
    <2>1. /\ pc[p] = "cleanup" /\ UNCHANGED <<at, calls, shared>> /\ Goto(p, "reconcile")
          /\ RecordResilient(p, r, clock, 0)
      BY <1>1 DEF StartCleanup, provider, counts
    <2>2. Recounts(p, r)
      BY <2>1, MadeRecords, OpNames DEF Statuses
    <2> HIDE DEF r
    <2> QED BY <2>1, <2>2, MemoryWrites, WritersAreOrdinary
  <1>2. CASE Iterate(p)
    <2> DEFINE o == Awaited(p)
    <2>1. pc[p] = "reconcile" /\ UNCHANGED <<at, calls, shared>>
      BY <1>2 DEF Iterate, provider, counts
    <2>2. o \in AnyOp
      BY <2>1, PlacedFacts DEF Awaited, AnyOp, AnyRecord
    <2> HIDE DEF o
    <2>3. CASE Goto(p, "get") /\ UNCHANGED <<journal, mem>>
      BY <2>1, <2>3, MoversAreOrdinary
    <2>4. CASE /\ o # NoOp /\ (Reconcile(p, o) \/ PollFails(p, o))
               /\ Goto(p, "reconcile") \/ Goto(p, "get")
      <3>1. PICK r \in AnyRecord :
              /\ Recounts(p, r) /\ MayWrite(at[p], r)
              /\ mem' = mem \/ mem' = [mem EXCEPT ![p] = r]
        BY <2>1, <2>2, <2>4, ReconcileRecounts
      <3> QED BY <2>1, <2>4, <3>1, WritersAreOrdinary
    <2> QED BY <1>2, <2>3, <2>4 DEF Iterate, o
  <1>3. CASE GiveUp(p) \/ Deadline(p) \/ GetInstance(p) \/ ListOwned(p) \/ FinalConfirm(p)
    <2>1. /\ pc[p] \in {"reconcile", "get", "list", "confirm"}
          /\ UNCHANGED <<journal, at, mem, calls, shared>>
      BY <1>3 DEF GiveUp, Deadline, GetInstance, ListOwned, FinalConfirm, provider, locals, counts
    <2>2. PICK to \in {"orphan", "list", "reconcile", "confirm", "prepare", "settle"} :
            Goto(p, to)
      BY <1>3 DEF GiveUp, Deadline, GetInstance, ListOwned, FinalConfirm, NextStep
    <2> QED BY <2>1, <2>2, MoversAreOrdinary
  <1>4. CASE Settle(p) \/ Orphan(p)
    <2> DEFINE confirmed == ConfirmedRecord(mem[p])
               orphan == OrphanRecord(mem[p])
    <2>1. pc[p] \in {"settle", "orphan"} /\ UNCHANGED <<calls, shared>> /\ Return(p)
      BY <1>4 DEF Settle, Orphan, provider, counts
    <2>2. Recounts(p, confirmed) /\ Recounts(p, orphan)
      BY <2>1, MadeRecords, OpNames DEF Statuses
    <2>3. PICK r \in {confirmed, orphan} : MayWrite(at[p], r)
      BY <1>4, WritesMayWrite DEF Settle, Orphan
    <2> HIDE DEF confirmed, orphan
    <2> QED BY <2>1, <2>2, <2>3, LeaversAreOrdinary
  <1>5. CASE BindDelete(p) \/ MarkDeleteAmbiguous(p) \/ RecordDenial(p)
    <2>1. /\ pc[p] \in {"bind", "unsure delete", "denied"} /\ Goto(p, "reconcile")
          /\ UNCHANGED <<at, calls, shared>>
      BY <1>5 DEF BindDelete, MarkDeleteAmbiguous, RecordDenial, provider, counts
    <2> DEFINE bound == [HandleRecord(mem[p], pend[p]) EXCEPT !.state = "CLEANUP_PENDING"]
               marked == MarkedRecord(mem[p])
               denied == DeniedRecord(mem[p])
    <2>2. Recounts(p, bound) /\ Recounts(p, marked) /\ Recounts(p, denied)
      BY <2>1, MadeRecords, PlacedFacts DEF Statuses
    <2>3. PICK r \in {bound, marked, denied} :
            MayWrite(at[p], r) /\ (mem' = mem \/ mem' = [mem EXCEPT ![p] = r])
      BY <1>5, MemoryWrites, WritesMayWrite
         DEF BindDelete, MarkDeleteAmbiguous, RecordDenial, MarkedRecord
    <2> HIDE DEF bound, marked, denied
    <2> QED BY <2>1, <2>2, <2>3, WritersAreOrdinary
  <1> QED BY <1>1, <1>2, <1>3, <1>4, <1>5 DEF Cleanup

LEMMA CrashIsOrdinary ==
  ASSUME LeaseIInv, NEW p \in Proc, Crash(p)
  PROVE  Ordinary(p)
  <1>1. pc[p] # "idle" /\ UNCHANGED <<journal, calls, shared>> /\ Return(p)
    BY DEF Crash, provider, counts
  <1>2. Recounts(p, mem[p]) /\ MayWrite(at[p], mem[p])
    BY <1>1, PlacedFacts, HeldIsSound DEF Recounts
  <1> QED BY <1>1, <1>2, LeaversAreOrdinary

(* An attempt is on disk and in memory before the delete is called.        *)
LEMMA PrepareCounts ==
  ASSUME LeaseIInv, BudgetIInv, NEW p \in Proc, Prepare(p)
  PROVE  BudgetIInv'
  <1> DEFINE r == DeleteIntent(mem[p])
  <1>1. pc[p] = "prepare" /\ UNCHANGED <<at, calls, shared>>
    BY DEF Prepare, provider, counts
  <1>2. /\ r \in AnyRecord /\ r.deletes = mem[p].deletes + 1
        /\ mem[p] \in AnyRecord /\ mem[p].deletes \in Int /\ mem = [mem EXCEPT ![p] = mem[p]]
        /\ at[p] \in Lease /\ prefix[at[p]] = "chain"
    BY <1>1, MadeRecords, PlacedFacts, OpNames DEF Statuses
  <1>3. \/ Recorded(p, r, clock) /\ Goto(p, "delete")
        \/ Unrecorded(at[p], r, clock, 0) /\ Goto(p, "orphan") /\ UNCHANGED mem
    BY DEF Prepare
  <1> HIDE DEF r
  <1>4. CASE Unrecorded(at[p], r, clock, 0) /\ Goto(p, "orphan") /\ UNCHANGED mem
    <2>1. MayWrite(at[p], r)
      BY <1>4, WritesMayWrite
    <2>2. Spends(p, mem[p].deletes + 1)
      <3>1. /\ at' = at /\ Goto(p, "orphan") /\ mem' = [mem EXCEPT ![p] = mem[p]]
        BY <1>1, <1>2, <1>4
      <3> QED BY <1>2, <2>1, <3>1 DEF Spends
    <2>3. Ordinary(p)
      BY <1>1, <2>2 DEF Ordinary
    <2> QED BY <2>3, OrdinaryKeeps
  <1>5. CASE Recorded(p, r, clock) /\ Goto(p, "delete")
    <2>1. /\ mem' = [mem EXCEPT ![p] = r] /\ head' = [head EXCEPT ![at[p]] = r]
          /\ pc' = [pc EXCEPT ![p] = "delete"] /\ prefix' = prefix
      BY <1>5, MemoryWrites DEF Goto, MayWrite
    <2>2. /\ head'[at[p]] = r /\ mem'[p] = r /\ pc'[p] = "delete"
          /\ \A l \in Lease : l # at[p] => head'[l] = head[l]
          /\ \A q \in Proc \ {p} : pc'[q] = pc[q] /\ mem'[q] = mem[q]
      BY <1>2, <2>1 DEF LeaseIInv, Typed
    <2>3. ASSUME NEW l \in Lease
          PROVE  Counted(l)'
      <3>1. CASE l # at[p]
        BY <1>1, <2>2, <3>1 DEF BudgetIInv, Counted
      <3>2. CASE l = at[p] /\ l \notin shared
        <4>1. /\ calls[l] \in Nat /\ calls[l] <= head[l].deletes
              /\ \A x, y \in Proc : at[x] = l /\ at[y] = l => x = y
              /\ mem[p].deletes = head[l].deletes
          BY <1>1, <3>2 DEF BudgetIInv, Counted
        <4>2. calls[l] < r.deletes
          BY <1>2, <4>1
        <4>3. \A x \in Proc : at[x] = l => x = p
          BY <3>2, <4>1
        <4> QED BY <1>1, <1>2, <2>2, <3>2, <4>1, <4>2, <4>3 DEF Counted
      <3>3. CASE l \in shared
        BY <1>1, <3>3 DEF Counted
      <3> QED BY <3>1, <3>2, <3>3
    <2>4. \A q \in Proc : pc'[q] = "idle" => at'[q] = NoLease /\ mem'[q].deletes = 0
      BY <1>1, <2>2 DEF BudgetIInv
    <2>5. \A l \in Lease : prefix'[l] # "chain" => head'[l].deletes = 0
      BY <1>2, <2>1, <2>2 DEF BudgetIInv
    <2> QED BY <1>1, <2>3, <2>4, <2>5 DEF BudgetIInv
  <1> QED BY <1>3, <1>4, <1>5

LEMMA DeleteSpends ==
  ASSUME LeaseIInv, BudgetIInv, NEW p \in Proc, Delete(p)
  PROVE  BudgetIInv'
  <1>1. pc[p] = "delete" /\ UNCHANGED <<prefix, head, at, mem, shared>> /\ at[p] \in Lease
    BY PlacedFacts DEF Delete, Accept, journal, counts
  <1>2. calls' = calls \/ calls' = [calls EXCEPT ![at[p]] = calls[at[p]] + 1]
    BY DEF Delete, Accept, provider
  <1>3. /\ calls' \in [Lease -> Nat]
        /\ calls'[at[p]] = calls[at[p]] \/ calls'[at[p]] = calls[at[p]] + 1
        /\ \A l \in Lease : l # at[p] => calls'[l] = calls[l]
    <2>1. calls \in [Lease -> Nat] /\ calls[at[p]] \in Nat /\ calls[at[p]] + 1 \in Nat
      BY <1>1 DEF BudgetIInv
    <2>2. CASE calls' = calls
      BY <2>1, <2>2
    <2>3. CASE calls' = [calls EXCEPT ![at[p]] = calls[at[p]] + 1]
      <3>1. calls'[at[p]] = calls[at[p]] + 1
        BY <1>1, <2>1, <2>3
      <3>2. \A l \in Lease : l # at[p] => calls'[l] = calls[l]
        BY <1>1, <2>1, <2>3
      <3>3. calls' \in [Lease -> Nat]
        BY <2>1, <2>3
      <3> QED BY <3>1, <3>2, <3>3
    <2> QED BY <1>2, <2>2, <2>3
  <1>4. /\ pc'[p] \notin {"idle", "delete", "orphan"}
        /\ \A q \in Proc \ {p} : pc'[q] = pc[q]
    <2>1. \E to \in {"bind", "unsure delete", "denied"} : Goto(p, to)
      BY DEF Delete
    <2>2. \A to \in {"bind", "unsure delete", "denied"} : to \notin {"idle", "delete", "orphan"}
      OBVIOUS
    <2>3. PICK to : Goto(p, to) /\ to \notin {"idle", "delete", "orphan"}
      BY <2>1, <2>2
    <2>4. pc' = [pc EXCEPT ![p] = to] /\ pc = [q \in Proc |-> pc[q]]
      BY <2>3 DEF LeaseIInv, Typed, Goto
    <2> QED BY <2>3, <2>4
  <1>5. ASSUME NEW l \in Lease
        PROVE  Counted(l)'
    <2>1. CASE l # at[p]
      <3>1. Counted(l) /\ calls'[l] = calls[l]
        BY <1>3, <2>1 DEF BudgetIInv
      <3>2. \A x \in Proc : at[x] = l => pc'[x] = pc[x]
        BY <1>4, <2>1
      <3> QED BY <1>1, <3>1, <3>2 DEF Counted
    <2>2. CASE l = at[p] /\ l \notin shared
      <3>1. /\ calls[l] \in Nat /\ calls[l] < head[l].deletes /\ head[l].deletes \in Int
            /\ \A x, y \in Proc : at[x] = l /\ at[y] = l => x = y
            /\ mem[p].deletes = head[l].deletes
        BY <1>1, <2>2 DEF BudgetIInv, Counted, LeaseIInv, Typed, AnyRecord
      <3>2. calls'[l] <= head[l].deletes
        BY <1>3, <2>2, <3>1
      <3>3. \A x \in Proc : at[x] = l => x = p
        BY <2>2, <3>1
      <3> QED BY <1>1, <1>4, <2>2, <3>1, <3>2, <3>3 DEF Counted
    <2>3. CASE l \in shared
      BY <1>1, <2>3 DEF Counted
    <2> QED BY <2>1, <2>2, <2>3
  <1>6. \A q \in Proc : pc'[q] = "idle" => at'[q] = NoLease /\ mem'[q].deletes = 0
    BY <1>1, <1>4 DEF BudgetIInv
  <1> QED BY <1>1, <1>3, <1>5, <1>6 DEF BudgetIInv

(* A lease begins with nothing counted; who takes one over counts what its *)
(* journal does.                                                           *)
LEMMA BeginningsCount ==
  ASSUME LeaseIInv, BudgetIInv, NEW p \in Proc, NEW l \in Lease,
         Reserve(p, l) \/ ReserveFails(p, l) \/ RecoverCleanup(p, l)
  PROVE  BudgetIInv'
  <1>1. /\ pc[p] = "idle" /\ at[p] = NoLease /\ mem[p].deletes = 0
        /\ UNCHANGED <<head, calls>> /\ shared \subseteq shared'
    BY DEF Reserve, ReserveFails, RecoverCleanup, journal, provider, counts, BudgetIInv
  <1>2. \A q \in Proc : pc[q] # "idle" => at[q] \in Lease /\ prefix[at[q]] = "chain"
    BY DEF LeaseIInv, Placed
  <1>3. \A q \in Proc \ {p} : pc'[q] = pc[q] /\ at'[q] = at[q] /\ mem'[q] = mem[q]
    BY DEF Reserve, ReserveFails, RecoverCleanup, Goto, locals, LeaseIInv, Typed
  <1>4. \A k \in Lease : prefix'[k] # "chain" => prefix[k] # "chain"
    BY DEF Reserve, ReserveFails, RecoverCleanup, CanReserve, DropAnchors, Unresolved, journal
  <1>5. \/ UNCHANGED <<pc, at, mem>>
        \/ /\ at'[p] = l /\ pc'[p] \in {"arm", "cleanup"}
           /\ l \notin shared' => \A q \in Proc : at[q] # l
           /\ mem'[p].deletes = head[l].deletes
    <2>1. CASE Reserve(p, l)
      <3>1. /\ prefix[l] # "chain" /\ at' = [at EXCEPT ![p] = l] /\ mem' = mem
            /\ pc' = [pc EXCEPT ![p] = "arm"]
        BY <2>1 DEF Reserve, CanReserve, Goto
      <3>2. \A q \in Proc : at[q] # l
        BY <1>2, <3>1, LeaseAssumption DEF BudgetIInv
      <3>3. head[l].deletes = 0
        BY <3>1 DEF BudgetIInv
      <3>4. at'[p] = l /\ pc'[p] = "arm"
        BY <3>1 DEF LeaseIInv, Typed
      <3> QED BY <1>1, <3>1, <3>2, <3>3, <3>4
    <2>2. CASE ReserveFails(p, l)
      BY <2>2 DEF ReserveFails, locals
    <2>3. CASE RecoverCleanup(p, l)
      BY <2>3 DEF RecoverCleanup, Goto, LeaseIInv, Typed
    <2> QED BY <2>1, <2>2, <2>3
  <1>6. ASSUME NEW k \in Lease
        PROVE  Counted(k)'
    <2> SUFFICES ASSUME k \notin shared'
                 PROVE  /\ calls[k] <= head[k].deletes
                        /\ \A x, y \in Proc : at'[x] = k /\ at'[y] = k => x = y
                        /\ \A x \in Proc : at'[x] = k =>
                             /\ pc'[x] # "orphan" => mem'[x].deletes = head[k].deletes
                             /\ pc'[x] = "delete" => calls[k] < head[k].deletes
      BY <1>1 DEF Counted
    <2>1. /\ calls[k] <= head[k].deletes
          /\ \A x, y \in Proc : at[x] = k /\ at[y] = k => x = y
          /\ \A x \in Proc : at[x] = k =>
               /\ pc[x] # "orphan" => mem[x].deletes = head[k].deletes
               /\ pc[x] = "delete" => calls[k] < head[k].deletes
      BY <1>1 DEF BudgetIInv, Counted
    <2>2. CASE UNCHANGED <<pc, at, mem>>
      BY <2>1, <2>2
    <2>3. CASE /\ at'[p] = l /\ pc'[p] \in {"arm", "cleanup"}
               /\ l \notin shared' => \A q \in Proc : at[q] # l
               /\ mem'[p].deletes = head[l].deletes
      <3>1. CASE k = l
        BY <1>3, <2>1, <2>3, <3>1
      <3>2. CASE k # l
        BY <1>3, <2>1, <2>3, <3>2
      <3> QED BY <3>1, <3>2
    <2> QED BY <1>5, <2>2, <2>3
  <1>7. \A q \in Proc : pc'[q] = "idle" => at'[q] = NoLease /\ mem'[q].deletes = 0
    BY <1>3, <1>5 DEF BudgetIInv
  <1>8. \A k \in Lease : prefix'[k] # "chain" => head'[k].deletes = 0
    BY <1>1, <1>4 DEF BudgetIInv
  <1> QED BY <1>1, <1>6, <1>7, <1>8 DEF BudgetIInv

LEMMA BudgetBegins == Init => BudgetIInv
  <1> SUFFICES ASSUME Init PROVE BudgetIInv
    OBVIOUS
  <1>1. Initial.deletes = 0
    BY DEF Initial
  <1>2. \A l \in Lease : Counted(l)
    BY <1>1, LeaseAssumption DEF Init, Counted
  <1> QED BY <1>1, <1>2 DEF Init, BudgetIInv

LEMMA BudgetStays == LeaseIInv /\ BudgetIInv /\ [Next]_vars => BudgetIInv'
  <1> SUFFICES ASSUME LeaseIInv, BudgetIInv, [Next]_vars PROVE BudgetIInv'
    OBVIOUS
  <1>1. ASSUME NEW p \in Proc, NEW l \in Lease,
               Reserve(p, l) \/ ReserveFails(p, l) \/ RecoverCleanup(p, l)
        PROVE  BudgetIInv'
    BY <1>1, BeginningsCount
  <1>2. ASSUME NEW p \in Proc, Execute(p) \/ Cleanup(p) \/ Crash(p)
        PROVE  BudgetIInv'
    <2>1. CASE Prepare(p) \/ Delete(p)
      BY <2>1, PrepareCounts, DeleteSpends
    <2>2. CASE ~Prepare(p) /\ ~Delete(p)
      BY <1>2, <2>2, ExecuteIsOrdinary, CleanupIsOrdinary, CrashIsOrdinary, OrdinaryKeeps
    <2> QED BY <2>1, <2>2
  <1>3. CASE \/ \E l \in Lease, o \in Operations : OperationEnds(l, o)
             \/ \E l \in Lease : RunDurationEnds(l)
             \/ Tick
             \/ UNCHANGED vars
    <2>1. UNCHANGED <<prefix, head, calls, pc, at, mem, shared>>
      BY <1>3 DEF OperationEnds, RunDurationEnds, Tick, vars, journal, provider, locals, counts
    <2> QED BY <2>1 DEF BudgetIInv, Counted
  <1> QED BY <1>1, <1>2, <1>3 DEF Next

(* The delete budget is total across controllers: whatever dies, whatever  *)
(* write fails and however often the lease is recovered, the provider has  *)
(* taken no more deletes than the journal counts, as long as no two        *)
(* controllers were at the lease at once: the next attempt is on disk      *)
(* before it is made, and recover_cleanup begins from the journal's count. *)
THEOREM DeletesAreBudgeted == Spec => []DeleteBudget
  <1>1. BudgetIInv => DeleteBudget
    BY DEF BudgetIInv, Counted, DeleteBudget
  <1> QED BY <1>1, LeaseInvariant, BudgetBegins, BudgetStays, PTL DEF Spec

-----------------------------------------------------------------------------
(* Without a fault and within one second. *)

(* The records of such a run, in the order in which it makes them.         *)
Armed == [state |-> "ARM_CONSUMED", op |-> NoOp, status |-> "NONE", deletes |-> 0,
          flags |-> {"armed"}]

Intended == [state |-> "CREATE_SUBMITTED", op |-> NoOp, status |-> "UNKNOWN", deletes |-> 0,
             flags |-> {"armed", "attempted", "ambiguous"}]

Handled == [state |-> "CREATE_SUBMITTED", op |-> InsertOp, status |-> "PENDING", deletes |-> 0,
            flags |-> {"armed", "attempted", "ambiguous"}]

Made(state) == [state |-> state, op |-> InsertOp, status |-> "DONE", deletes |-> 0,
                flags |-> {"armed", "attempted"}]

Counting == [state |-> "CLEANUP_PENDING", op |-> InsertOp, status |-> "DONE", deletes |-> 1,
             flags |-> {"armed", "attempted", "ambiguous"}]

Bound(o) == [state |-> "CLEANUP_PENDING", op |-> o, status |-> "PENDING", deletes |-> 1,
             flags |-> {"armed", "attempted", "ambiguous"}]

Deleted(o) == [state |-> "CLEANUP_PENDING", op |-> o, status |-> "DONE", deletes |-> 1,
               flags |-> {"armed", "attempted"}]

(* Where its controller is with which record.                              *)
Stage(p) ==
  \/ pc[p] \in {"arm", "armed", "abort"} /\ mem[p] = Initial /\ pend[p] = NoOp
  \/ pc[p] \in {"precheck", "intent"} /\ mem[p] = Armed /\ pend[p] = NoOp
  \/ pc[p] = "insert" /\ mem[p] = Intended /\ pend[p] = NoOp
  \/ pc[p] = "handle" /\ mem[p] = Intended /\ pend[p] = InsertOp
  \/ pc[p] = "wait" /\ mem[p] = Handled /\ pend[p] = InsertOp
  \/ pc[p] = "verify" /\ mem[p] = Made("CREATE_SUBMITTED") /\ pend[p] = NoOp
  \/ pc[p] = "work" /\ mem[p] = Made("OWNED") /\ pend[p] = NoOp
  \/ pc[p] = "cleanup" /\ mem[p] \in {Made("CREATE_SUBMITTED"), Made("OWNED")} /\ pend[p] = NoOp
  \/ pc[p] = "reconcile" /\ mem[p] = Made("CLEANUP_PENDING") /\ pend[p] = NoOp /\ loops[p] >= 2
  \/ /\ pc[p] \in {"get", "list", "prepare"} /\ mem[p] = Made("CLEANUP_PENDING")
     /\ pend[p] = NoOp /\ loops[p] >= 1
  \/ pc[p] = "delete" /\ mem[p] = Counting /\ pend[p] = NoOp /\ loops[p] >= 1
  \/ pc[p] = "bind" /\ mem[p] = Counting /\ pend[p] \in Deletes /\ loops[p] >= 1
  \/ pc[p] = "reconcile" /\ pend[p] \in Deletes /\ mem[p] = Bound(pend[p]) /\ loops[p] >= 1
  \/ /\ pc[p] \in {"get", "list"} /\ \E o \in Deletes : mem[p] = Deleted(o)
     /\ pend[p] = NoOp /\ seen[p] = "nothing" /\ at[p] \notin vm
  \/ /\ pc[p] \in {"confirm", "settle"} /\ at[p] \notin vm
     /\ mem[p] = Made("CLEANUP_PENDING") \/ \E o \in Deletes : mem[p] = Deleted(o)

OnTrack(p) ==
  /\ mem[p] = head[at[p]] /\ seen[p] # "mismatch" /\ Stage(p)
  /\ pc[p] \in {"delete", "bind"} => event[at[p]] = "intent"

(* Nothing has gone wrong, and every lease that no two controllers were at *)
(* is confirmed or has its one controller, on its way to confirm it.       *)
Calm ==
  /\ stamp \in [Lease -> {0}] /\ now \in [Proc -> {0}] /\ loops \in [Proc -> Int]
  /\ event = [l \in Lease |-> event[l]]
  /\ vm = disk
  /\ \A l \in Lease, o \in Operations : ops[l][o] # "error"
  /\ \A l \in Lease, o \in Deletes : ops[l][o] = "done" => l \notin vm
  /\ \A l \in Lease : prefix[l] # "chain" => head[l] = Initial
  /\ \A p \in Proc : pc[p] = "idle" => mem[p] = Initial /\ pend[p] = NoOp
  /\ \A l \in Lease \ shared : Unresolved(l) => \E p \in Proc : at[p] = l
  /\ \A p \in Proc : at[p] \in Lease \ shared => OnTrack(p)

CalmIInv == faults \in Nat /\ clock \in Nat /\ (faults = 0 /\ clock = 0 => Calm)

(* Each record is made of the one before, and the journal takes it.        *)
LEMMA SameFields ==
  ASSUME NEW r \in AnyRecord, NEW s \in AnyRecord, r.state = s.state, r.op = s.op,
         r.status = s.status, r.deletes = s.deletes, r.flags = s.flags
  PROVE  r = s
  BY DEF AnyRecord

LEMMA RunRecords ==
  ASSUME NEW o \in AnyOp, NEW s \in States
  PROVE  /\ Initial \in AnyRecord /\ Armed \in AnyRecord /\ Intended \in AnyRecord
         /\ Handled \in AnyRecord /\ Made(s) \in AnyRecord /\ Counting \in AnyRecord
         /\ Bound(o) \in AnyRecord /\ Deleted(o) \in AnyRecord
  <1>1. /\ {"PREPARED", "ARM_CONSUMED", "CREATE_SUBMITTED", "CLEANUP_PENDING"} \subseteq States
        /\ {"NONE", "UNKNOWN", "PENDING", "DONE"} \subseteq Statuses
        /\ {} \in SUBSET Flags /\ {"armed"} \in SUBSET Flags
        /\ {"armed", "attempted"} \in SUBSET Flags
        /\ {"armed", "attempted", "ambiguous"} \in SUBSET Flags
        /\ NoOp \in AnyOp /\ InsertOp \in AnyOp
    BY DEF States, Statuses, Terminal, Flags, AnyOp, Operations
  <1> QED BY <1>1 DEF AnyRecord, Initial, Armed, Intended, Handled, Made, Counting, Bound, Deleted

LEMMA FirstRecords ==
  /\ ArmedRecord(Initial) = Armed
  /\ IntentRecord(Armed) = Intended
  /\ HandleRecord(Intended, InsertOp) = Handled
  /\ ReconciledRecord(Handled, InsertOp, "DONE") = Made("CREATE_SUBMITTED")
  /\ OwnedRecord(Made("CREATE_SUBMITTED")) = Made("OWNED")
  <1>1. /\ InsertOp \in AnyOp /\ "DONE" \in Statuses
        /\ "CREATE_SUBMITTED" \in States /\ "OWNED" \in States
    BY DEF AnyOp, Operations, Statuses, Terminal, States
  <1>2. ArmedRecord(Initial) = Armed
    <2>1. ArmedRecord(Initial) \in AnyRecord /\ ArmedRecord(Initial).flags = Armed.flags
      <3>1. Initial \in AnyRecord /\ Initial.flags \cup {"armed"} = Armed.flags
        BY <1>1, RunRecords DEF Initial, Armed
      <3>2. /\ ArmedRecord(Initial).flags = Initial.flags \cup {"armed"}
            /\ ArmedRecord(Initial) \in AnyRecord
        BY <1>1, <3>1, BuiltRecords DEF Built
      <3> QED BY <3>1, <3>2
    <2>2. /\ ArmedRecord(Initial).state = Armed.state /\ ArmedRecord(Initial).op = Armed.op
          /\ ArmedRecord(Initial).status = Armed.status
          /\ ArmedRecord(Initial).deletes = Armed.deletes
      BY DEF ArmedRecord, WithFlags, Initial, Armed
    <2> QED BY <1>1, <2>1, <2>2, RunRecords, SameFields
  <1>3. IntentRecord(Armed) = Intended
    <2>1. IntentRecord(Armed) \in AnyRecord /\ IntentRecord(Armed).flags = Intended.flags
      <3>1. Armed \in AnyRecord /\ Armed.flags \cup {"attempted", "ambiguous"} = Intended.flags
        BY <1>1, RunRecords DEF Armed, Intended
      <3>2. /\ IntentRecord(Armed).flags = Armed.flags \cup {"attempted", "ambiguous"}
            /\ IntentRecord(Armed) \in AnyRecord
        BY <1>1, <3>1, BuiltRecords DEF Built
      <3> QED BY <3>1, <3>2
    <2>2. /\ IntentRecord(Armed).state = Intended.state /\ IntentRecord(Armed).op = Intended.op
          /\ IntentRecord(Armed).status = Intended.status
          /\ IntentRecord(Armed).deletes = Intended.deletes
      BY DEF IntentRecord, WithFlags, Armed, Intended
    <2> QED BY <1>1, <2>1, <2>2, RunRecords, SameFields
  <1>4. HandleRecord(Intended, InsertOp) = Handled
    <2> DEFINE r == HandleRecord(Intended, InsertOp)
    <2>1. Intended.state # CONFIRMED
      BY DEF Intended, CONFIRMED
    <2>2. r \in AnyRecord
      BY <1>1, <2>1, RunRecords, BuiltRecords DEF Built
    <2>3. /\ r.state = Handled.state /\ r.op = Handled.op /\ r.status = Handled.status
          /\ r.deletes = Handled.deletes /\ r.flags = Handled.flags
      BY DEF HandleRecord, Intended, Handled
    <2> HIDE DEF r
    <2> QED BY <1>1, <2>2, <2>3, RunRecords, SameFields DEF r
  <1>5. ReconciledRecord(Handled, InsertOp, "DONE") = Made("CREATE_SUBMITTED")
    <2> DEFINE r == ReconciledRecord(Handled, InsertOp, "DONE")
               m == Made("CREATE_SUBMITTED")
    <2>1. r \in AnyRecord /\ r.flags = m.flags
      <3>1. Handled \in AnyRecord /\ Handled.flags \ {"ambiguous"} = m.flags
        BY <1>1, RunRecords DEF Handled, Made
      <3>2. r \in AnyRecord /\ r.flags = Handled.flags \ {"ambiguous"}
        BY <1>1, <3>1, BuiltRecords DEF Built
      <3> QED BY <3>1, <3>2
    <2>2. /\ r.state = m.state /\ r.op = m.op /\ r.status = m.status /\ r.deletes = m.deletes
      BY DEF ReconciledRecord, WithFlags, Handled, Made
    <2>3. m \in AnyRecord
      BY <1>1, RunRecords
    <2> HIDE DEF r, m
    <2> QED BY <2>1, <2>2, <2>3, SameFields DEF r, m
  <1>6. OwnedRecord(Made("CREATE_SUBMITTED")) = Made("OWNED")
    BY DEF OwnedRecord, Made
  <1> QED BY <1>2, <1>3, <1>4, <1>5, <1>6

LEMMA LastRecords ==
  ASSUME NEW o \in Deletes
  PROVE  /\ \A s \in {"CREATE_SUBMITTED", "OWNED"} :
              PendingRecord(Made(s)) = Made("CLEANUP_PENDING")
         /\ DeleteIntent(Made("CLEANUP_PENDING")) = Counting
         /\ [HandleRecord(Counting, o) EXCEPT !.state = "CLEANUP_PENDING"] = Bound(o)
         /\ ReconciledRecord(Bound(o), o, "DONE") = Deleted(o)
  <1>1. /\ o \in AnyOp /\ "DONE" \in Statuses /\ "CLEANUP_PENDING" \in States
        /\ o # InsertOp
    BY DEF AnyOp, Operations, Deletes, InsertOp, Statuses, Terminal, States
  <1>2. \A s \in {"CREATE_SUBMITTED", "OWNED"} : PendingRecord(Made(s)) = Made("CLEANUP_PENDING")
    BY DEF PendingRecord, Made
  <1>3. DeleteIntent(Made("CLEANUP_PENDING")) = Counting
    <2> DEFINE m == Made("CLEANUP_PENDING")
               r == DeleteIntent(m)
    <2>1. m \in AnyRecord /\ m.flags \cup {"ambiguous"} = Counting.flags
      BY <1>1, RunRecords DEF Made, Counting
    <2>2. r \in AnyRecord /\ r.flags = m.flags \cup {"ambiguous"}
      <3> HIDE DEF m
      <3> QED BY <1>1, <2>1, BuiltRecords DEF Built
    <2>3. /\ r.state = Counting.state /\ r.op = Counting.op /\ r.status = Counting.status
          /\ r.deletes = Counting.deletes
      BY DEF DeleteIntent, WithFlags, Made, Counting, InsertOp, NoOp
    <2>4. Counting \in AnyRecord
      BY <1>1, RunRecords
    <2> HIDE DEF r, m
    <2> QED BY <2>1, <2>2, <2>3, <2>4, SameFields DEF r, m
  <1>4. [HandleRecord(Counting, o) EXCEPT !.state = "CLEANUP_PENDING"] = Bound(o)
    <2> DEFINE r == [HandleRecord(Counting, o) EXCEPT !.state = "CLEANUP_PENDING"]
    <2>1. r \in AnyRecord
      BY <1>1, RunRecords, BuiltRecords DEF Built
    <2>2. /\ r.state = Bound(o).state /\ r.op = Bound(o).op /\ r.status = Bound(o).status
          /\ r.deletes = Bound(o).deletes /\ r.flags = Bound(o).flags
      BY DEF HandleRecord, Counting, Bound
    <2>3. Bound(o) \in AnyRecord
      BY <1>1, RunRecords
    <2> HIDE DEF r
    <2> QED BY <2>1, <2>2, <2>3, SameFields DEF r
  <1>5. ReconciledRecord(Bound(o), o, "DONE") = Deleted(o)
    <2> DEFINE r == ReconciledRecord(Bound(o), o, "DONE")
    <2>1. Bound(o) \in AnyRecord /\ Bound(o).flags \ {"ambiguous"} = Deleted(o).flags
      BY <1>1, RunRecords DEF Bound, Deleted
    <2>2. r \in AnyRecord /\ r.flags = Bound(o).flags \ {"ambiguous"}
      BY <1>1, <2>1, BuiltRecords DEF Built
    <2>3. /\ r.state = Deleted(o).state /\ r.op = Deleted(o).op /\ r.status = Deleted(o).status
          /\ r.deletes = Deleted(o).deletes
      BY <1>1 DEF ReconciledRecord, WithFlags, Bound, Deleted
    <2>4. Deleted(o) \in AnyRecord
      BY <1>1, RunRecords
    <2> HIDE DEF r
    <2> QED BY <2>1, <2>2, <2>3, <2>4, SameFields DEF r
  <1> QED BY <1>2, <1>3, <1>4, <1>5

LEMMA RunIsAccepted ==
  ASSUME NEW e, NEW o \in Deletes
  PROVE  /\ Accepts(e, Initial, Armed)
         /\ Accepts(e, Armed, Intended)
         /\ Accepts(e, Intended, Handled)
         /\ Accepts(e, Handled, Made("CREATE_SUBMITTED"))
         /\ Accepts(e, Made("CREATE_SUBMITTED"), Made("OWNED"))
         /\ \A s \in {"CREATE_SUBMITTED", "OWNED"} :
              Accepts(e, Made(s), Made("CLEANUP_PENDING"))
         /\ Accepts(e, Made("CLEANUP_PENDING"), Counting)
         /\ IsDeleteIntent(Made("CLEANUP_PENDING"), Counting)
         /\ Accepts("intent", Counting, Bound(o))
         /\ Accepts(e, Bound(o), Deleted(o))
  <1> USE AttemptsAssumption DEF Accepts, Valid, Allowed, DeleteAllowed, IsDeleteIntent,
          IsDeleteHandle, SameOperation, Terminal, NoOp, InsertOp, Deletes, CONFIRMED
  <1>1. Accepts(e, Initial, Armed)
    BY DEF Initial, Armed
  <1>2. Accepts(e, Armed, Intended)
    BY DEF Armed, Intended
  <1>3. Accepts(e, Intended, Handled)
    BY DEF Intended, Handled
  <1>4. Accepts(e, Handled, Made("CREATE_SUBMITTED"))
    BY DEF Handled, Made
  <1>5. Accepts(e, Made("CREATE_SUBMITTED"), Made("OWNED"))
    BY DEF Made
  <1>6. \A s \in {"CREATE_SUBMITTED", "OWNED"} : Accepts(e, Made(s), Made("CLEANUP_PENDING"))
    BY DEF Made
  <1>7. /\ Accepts(e, Made("CLEANUP_PENDING"), Counting)
        /\ IsDeleteIntent(Made("CLEANUP_PENDING"), Counting)
    BY DEF Made, Counting
  <1>8. Accepts("intent", Counting, Bound(o))
    BY DEF Counting, Bound
  <1>9. Accepts(e, Bound(o), Deleted(o))
    BY DEF Bound, Deleted
  <1> QED BY <1>1, <1>2, <1>3, <1>4, <1>5, <1>6, <1>7, <1>8, <1>9

LEMMA EndIsAccepted ==
  ASSUME NEW e, NEW r,
         \/ r = Initial \/ r = Made("CLEANUP_PENDING") \/ \E o \in Deletes : r = Deleted(o)
  PROVE  Accepts(e, r, ConfirmedRecord(r)) /\ ConfirmedRecord(r).state = CONFIRMED
  <1> USE AttemptsAssumption DEF Accepts, Valid, Allowed, DeleteAllowed, IsDeleteIntent,
          IsDeleteHandle, SameOperation, Terminal, NoOp, InsertOp, Deletes, CONFIRMED,
          ConfirmedRecord, WithFlags
  <1>1. CASE r = Initial
    BY <1>1 DEF Initial
  <1>2. CASE r = Made("CLEANUP_PENDING")
    BY <1>2 DEF Made
  <1>3. CASE \E o \in Deletes : r = Deleted(o)
    BY <1>3 DEF Deleted
  <1> QED BY <1>1, <1>2, <1>3

(* What a step without faults does to the journal of its lease.            *)
Wrote(l) ==
  /\ prefix' = prefix /\ stamp' \in [Lease -> {0}] /\ event' = [k \in Lease |-> event'[k]]
  /\ \A k \in Lease \ {l} : head'[k] = head[k] /\ event'[k] = event[k]

(* Within the first second the journal takes what it accepts.              *)
LEMMA CalmWrites ==
  ASSUME NEW l \in Lease, NEW r, NEW t, NEW n \in Nat, t = 0, faults = 0, faults' = 0,
         head \in [Lease -> AnyRecord], stamp \in [Lease -> {0}],
         event = [k \in Lease |-> event[k]]
  PROVE  /\ Append(l, r, t) \/ Unrecorded(l, r, t, n) \/ Offered(l, r, t, n) => Wrote(l)
         /\ UNCHANGED journal => Wrote(l)
         /\ Append(l, r, t) => /\ head'[l] = r
                               /\ IsDeleteIntent(head[l], r) => event'[l] = "intent"
         /\ Accepts(event[l], head[l], r) => ~Unrecorded(l, r, t, n)
         /\ Accepts(event[l], head[l], r) /\ Offered(l, r, t, n) => Append(l, r, t)
         /\ n > 0 => ~Offered(l, r, t, n)
  <1>1. stamp[l] = 0 /\ (Takes(l, r, t) <=> Accepts(event[l], head[l], r))
    BY DEF Takes
  <1>2. Append(l, r, t) => Wrote(l)
    BY DEF Append, Wrote
  <1>3. UNCHANGED journal => Wrote(l)
    BY DEF journal, Wrote
  <1>4. Append(l, r, t) => /\ head'[l] = r
                           /\ IsDeleteIntent(head[l], r) => event'[l] = "intent"
    BY DEF Append
  <1>5. ~Faults(n + 1) /\ (n > 0 => ~Faults(n))
    BY DEF Faults
  <1>6. Unrecorded(l, r, t, n) => ~Takes(l, r, t) /\ UNCHANGED journal /\ Faults(n)
    BY <1>5 DEF Unrecorded
  <1>7. Offered(l, r, t, n) => (Append(l, r, t) /\ Faults(n)) \/ Unrecorded(l, r, t, n)
    BY DEF Offered
  <1> QED BY <1>1, <1>2, <1>3, <1>4, <1>5, <1>6, <1>7

(* What a step of p may do besides.                                        *)
Moved(p) ==
  /\ Wrote(at[p]) /\ UNCHANGED <<vm, disk, shared>>
  /\ now' \in [Proc -> {0}] /\ loops' \in [Proc -> Int]
  /\ \A l \in Lease, o \in Operations : ops'[l][o] \in {ops[l][o], "pending"}
  /\ Others(p) /\ \A q \in Proc \ {p} : loops'[q] = loops[q]
  /\ \/ pc'[p] # "idle" /\ at'[p] = at[p]
     \/ pc'[p] = "idle" /\ at'[p] = NoLease /\ mem'[p] = Initial /\ pend'[p] = NoOp

LEMMA LeaversMove ==
  ASSUME LeaseIInv, Calm, NEW p \in Proc, pc[p] # "idle", Wrote(at[p]), Return(p),
         UNCHANGED <<vm, disk, ops, shared>>
  PROVE  Moved(p)
  <1>1. /\ pc'[p] = "idle" /\ at'[p] = NoLease /\ mem'[p] = Initial /\ pend'[p] = NoOp
        /\ Others(p) /\ \A q \in Proc \ {p} : loops'[q] = loops[q]
    BY DEF Return, Goto, LeaseIInv, Typed, Calm, Others, Stays
  <1>2. now' \in [Proc -> {0}] /\ loops' \in [Proc -> Int]
    BY DEF Return, Calm
  <1> QED BY <1>1, <1>2 DEF Moved

LEMMA GoersMove ==
  ASSUME LeaseIInv, Calm, NEW p \in Proc, pc[p] # "idle", Wrote(at[p]),
         UNCHANGED <<vm, disk, at, shared>>,
         NEW to, Goto(p, to), to # "idle",
         NEW m, mem' = mem \/ mem' = [mem EXCEPT ![p] = m],
         NEW x, pend' = pend \/ pend' = [pend EXCEPT ![p] = x],
         NEW s, seen' = seen \/ seen' = [seen EXCEPT ![p] = s],
         NEW n \in Int, loops' = loops \/ loops' = [loops EXCEPT ![p] = n],
         now' = now \/ now' = [now EXCEPT ![p] = 0],
         ops' = ops \/ \E o \in Operations : ops' = [ops EXCEPT ![at[p]][o] = "pending"]
  PROVE  Moved(p)
  <1>1. /\ pc'[p] = to /\ \A q \in Proc \ {p} : pc'[q] = pc[q] /\ at'[q] = at[q]
    BY DEF Goto, LeaseIInv, Typed
  <1>2. \A q \in Proc \ {p} : /\ mem'[q] = mem[q] /\ pend'[q] = pend[q]
                              /\ seen'[q] = seen[q] /\ loops'[q] = loops[q]
    BY DEF LeaseIInv, Typed, Calm
  <1>3. now' \in [Proc -> {0}] /\ loops' \in [Proc -> Int]
    BY DEF Calm
  <1>4. \A l \in Lease, o \in Operations : ops'[l][o] \in {ops[l][o], "pending"}
    <2>1. CASE ops' = ops
      BY <2>1
    <2>2. ASSUME NEW o \in Operations, ops' = [ops EXCEPT ![at[p]][o] = "pending"]
          PROVE  \A l \in Lease, i \in Operations : ops'[l][i] \in {ops[l][i], "pending"}
      BY <2>2 DEF LeaseIInv, Typed
    <2> QED BY <2>1, <2>2
  <1> QED BY <1>1, <1>2, <1>3, <1>4 DEF Moved, Others, Stays

(* The first second goes on without a fault.                               *)
StillCalm == faults = 0 /\ faults' = 0 /\ clock = 0

LEMMA CalmPlace ==
  ASSUME LeaseIInv, Calm, NEW p \in Proc
  PROVE  /\ now[p] = 0 /\ loops[p] \in Int
         /\ pc[p] # "idle" => at[p] \in Lease /\ prefix[at[p]] = "chain"
         /\ head \in [Lease -> AnyRecord] /\ stamp \in [Lease -> {0}]
         /\ event = [k \in Lease |-> event[k]]
  <1>1. now[p] = 0 /\ loops[p] \in Int
    BY DEF Calm
  <1>2. pc[p] # "idle" => at[p] \in Lease /\ prefix[at[p]] = "chain"
    BY DEF LeaseIInv, Placed
  <1>3. head \in [Lease -> AnyRecord]
    BY DEF LeaseIInv, Typed
  <1>4. stamp \in [Lease -> {0}] /\ event = [k \in Lease |-> event[k]]
    BY DEF Calm
  <1> QED BY <1>1, <1>2, <1>3, <1>4

LEMMA WaitersMove ==
  ASSUME LeaseIInv, Calm, StillCalm, NEW p \in Proc, pc[p] # "idle", NEW o,
         Reconcile(p, o) \/ PollFails(p, o)
  PROVE  /\ Wrote(at[p])
         /\ \E m : mem' = mem \/ mem' = [mem EXCEPT ![p] = m]
         /\ \E x : pend' = [pend EXCEPT ![p] = x]
  <1>1. CASE Reconcile(p, o)
    <2> DEFINE status == Reported(at[p], o)
               r == ReconciledRecord(mem[p], o, status)
               n == IF status = "TIMEOUT" THEN 1 ELSE 0
    <2>1. RecordResilient(p, r, clock, n) /\ \E x : pend' = [pend EXCEPT ![p] = x]
      BY <1>1 DEF Reconcile
    <2>2. n \in Nat
      OBVIOUS
    <2> HIDE DEF r, n
    <2>3. Wrote(at[p])
      BY <2>1, <2>2, CalmPlace, CalmWrites DEF RecordResilient, StillCalm
    <2> QED BY <2>1, <2>3 DEF RecordResilient
  <1>2. CASE PollFails(p, o)
    BY <1>2, CalmPlace, CalmWrites DEF PollFails, StillCalm
  <1> QED BY <1>1, <1>2

LEMMA ExecuteMoves ==
  ASSUME LeaseIInv, Calm, StillCalm, NEW p \in Proc, Execute(p)
  PROVE  Moved(p)
  <1>1. pc[p] # "idle"
    BY DEF Execute, ConsumeArm, ConsumeArmFails, RecordArm, Precheck, Abort, RecordIntent,
           Insert, RecordHandle, MarkInsertAmbiguous, RecordRejection, Wait, Verify, Work
  <1>2. /\ at[p] \in Lease /\ now[p] = 0 /\ loops[p] \in Int
        /\ UNCHANGED journal => Wrote(at[p])
        /\ \A r : \/ Append(at[p], r, now[p]) \/ Unrecorded(at[p], r, now[p], 0)
                  \/ Offered(at[p], r, now[p], 0)
                  => Wrote(at[p])
    BY <1>1, CalmPlace, CalmWrites DEF StillCalm
  <1>3. CASE ConsumeArm(p) \/ Precheck(p) \/ Work(p)
    <2>1. /\ Wrote(at[p]) /\ UNCHANGED <<provider, at, mem, pend, seen, loops, now, shared>>
          /\ \E to : to # "idle" /\ Goto(p, to)
      BY <1>2, <1>3 DEF ConsumeArm, Precheck, Work, locals, counts
    <2> QED BY <1>1, <2>1, GoersMove DEF provider
  <1>4. CASE ConsumeArmFails(p)
    BY <1>1, <1>2, <1>4, LeaversMove DEF ConsumeArmFails, provider, counts
  <1>5. CASE RecordArm(p) \/ RecordIntent(p)
    <2>1. /\ Wrote(at[p]) /\ UNCHANGED <<provider, shared>>
          /\ \/ Return(p)
             \/ /\ UNCHANGED <<at, pend, loops, seen, now>>
                /\ \E m : mem' = [mem EXCEPT ![p] = m]
                /\ \E to : to # "idle" /\ Goto(p, to)
      BY <1>2, <1>5 DEF RecordArm, RecordIntent, Recorded, counts
    <2> QED BY <1>1, <2>1, GoersMove, LeaversMove DEF provider
  <1>6. CASE Abort(p)
    BY <1>1, <1>2, <1>6, LeaversMove DEF Abort, provider, counts
  <1>7. CASE Insert(p)
    <2>1. /\ Wrote(at[p]) /\ UNCHANGED <<vm, disk, at, mem, seen, loops, now, shared>>
          /\ \E x : pend' = pend \/ pend' = [pend EXCEPT ![p] = x]
          /\ \E to : to # "idle" /\ Goto(p, to)
          /\ ops' = ops \/ ops' = [ops EXCEPT ![at[p]][InsertOp] = "pending"]
      BY <1>2, <1>7 DEF Insert, Accept, provider, counts
    <2>2. loops[p] \in Int /\ InsertOp \in Operations
      BY <1>2 DEF Operations
    <2> QED BY <1>1, <2>1, <2>2, GoersMove
  <1>8. CASE RecordHandle(p) \/ MarkInsertAmbiguous(p) \/ RecordRejection(p) \/ Verify(p)
    <2>1. /\ Wrote(at[p]) /\ UNCHANGED <<provider, at, pend, seen, loops, now, shared>>
          /\ \E m : mem' = mem \/ mem' = [mem EXCEPT ![p] = m]
          /\ \E to : to # "idle" /\ Goto(p, to)
      BY <1>2, <1>8 DEF RecordHandle, MarkInsertAmbiguous, RecordRejection, Verify,
         Recorded, RecordResilient, counts
    <2> QED BY <1>1, <2>1, GoersMove DEF provider
  <1>9. CASE Wait(p)
    <2>1. /\ Reconcile(p, pend[p]) \/ PollFails(p, pend[p])
          /\ UNCHANGED <<provider, at, seen, loops, now, shared>>
          /\ \E to : to # "idle" /\ Goto(p, to)
      BY <1>9 DEF Wait, counts
    <2> QED BY <1>1, <2>1, WaitersMove, GoersMove DEF provider
  <1> QED BY <1>3, <1>4, <1>5, <1>6, <1>7, <1>8, <1>9 DEF Execute

LEMMA CleanupMoves ==
  ASSUME LeaseIInv, Calm, StillCalm, NEW p \in Proc, Cleanup(p)
  PROVE  Moved(p)
  <1>1. pc[p] # "idle"
    BY DEF Cleanup, StartCleanup, Iterate, GiveUp, Deadline, GetInstance, ListOwned,
           FinalConfirm, Settle, Prepare, Delete, BindDelete, MarkDeleteAmbiguous,
           RecordDenial, Orphan
  <1>2. /\ at[p] \in Lease /\ now[p] = 0 /\ clock = 0 /\ loops[p] \in Int
        /\ UNCHANGED journal => Wrote(at[p])
        /\ \A r : \/ Append(at[p], r, 0) \/ Unrecorded(at[p], r, 0, 0)
                  \/ Offered(at[p], r, 0, 0)
                  => Wrote(at[p])
    BY <1>1, CalmPlace, CalmWrites DEF StillCalm
  <1>3. CASE GiveUp(p) \/ Deadline(p) \/ GetInstance(p) \/ ListOwned(p) \/ FinalConfirm(p)
    <2>1. /\ Wrote(at[p]) /\ UNCHANGED <<provider, at, mem, pend, loops, now, shared>>
          /\ \E s : seen' = seen \/ seen' = [seen EXCEPT ![p] = s]
          /\ \E to : to # "idle" /\ Goto(p, to)
      BY <1>2, <1>3 DEF GiveUp, Deadline, GetInstance, ListOwned, FinalConfirm, NextStep,
         locals, counts
    <2> QED BY <1>1, <2>1, GoersMove DEF provider
  <1>4. CASE Settle(p) \/ Orphan(p)
    BY <1>1, <1>2, <1>4, LeaversMove DEF Settle, Orphan, provider, counts
  <1>5. CASE \/ StartCleanup(p) \/ Prepare(p) \/ BindDelete(p) \/ MarkDeleteAmbiguous(p)
             \/ RecordDenial(p)
    <2>1. /\ Wrote(at[p]) /\ UNCHANGED <<provider, at, pend, seen, shared>>
          /\ \E m : mem' = mem \/ mem' = [mem EXCEPT ![p] = m]
          /\ loops' = loops \/ loops' = [loops EXCEPT ![p] = MaxAttempts + 1]
          /\ now' = now \/ now' = [now EXCEPT ![p] = 0]
          /\ \E to : to # "idle" /\ Goto(p, to)
      BY <1>2, <1>5 DEF StartCleanup, Prepare, BindDelete, MarkDeleteAmbiguous, RecordDenial,
         Recorded, RecordResilient, counts
    <2>2. MaxAttempts + 1 \in Int
      BY AttemptsAssumption
    <2> QED BY <1>1, <2>1, <2>2, GoersMove DEF provider
  <1>6. CASE Iterate(p)
    <2> DEFINE o == Awaited(p)
    <2>1. /\ UNCHANGED <<provider, at, seen, now, shared>>
          /\ loops' = [loops EXCEPT ![p] = loops[p] - 1]
          /\ \E to : to # "idle" /\ Goto(p, to)
          /\ UNCHANGED <<journal, mem, pend>> \/ Reconcile(p, o) \/ PollFails(p, o)
      BY <1>6 DEF Iterate, counts
    <2> HIDE DEF o
    <2>2. /\ Wrote(at[p])
          /\ \E m : mem' = mem \/ mem' = [mem EXCEPT ![p] = m]
          /\ \E x : pend' = pend \/ pend' = [pend EXCEPT ![p] = x]
      BY <1>1, <1>2, <2>1, WaitersMove
    <2>3. loops[p] - 1 \in Int
      BY <1>2
    <2> QED BY <1>1, <2>1, <2>2, <2>3, GoersMove DEF provider
  <1>7. CASE Delete(p)
    <2>1. /\ Wrote(at[p]) /\ UNCHANGED <<vm, disk, at, mem, seen, loops, now, shared>>
          /\ \E x : pend' = pend \/ pend' = [pend EXCEPT ![p] = x]
          /\ \E to : to # "idle" /\ Goto(p, to)
          /\ ops' = ops \/ \E o \in Deletes : ops' = [ops EXCEPT ![at[p]][o] = "pending"]
      BY <1>2, <1>7 DEF Delete, Accept, provider, counts
    <2>2. loops[p] \in Int /\ Deletes \subseteq Operations
      BY <1>2 DEF Operations
    <2> QED BY <1>1, <2>1, <2>2, GoersMove
  <1> QED BY <1>3, <1>4, <1>5, <1>6, <1>7 DEF Cleanup

LEMMA TrackStays ==
  ASSUME NEW q \in Proc, Stays(q), OnTrack(q), loops'[q] = loops[q],
         head'[at[q]] = head[at[q]], event'[at[q]] = event[at[q]],
         Certain(mem[q]) /\ at[q] \notin vm => at[q] \notin vm'
  PROVE  OnTrack(q)'
  <1>1. /\ pc'[q] = pc[q] /\ at'[q] = at[q] /\ mem'[q] = mem[q]
        /\ pend'[q] = pend[q] /\ seen'[q] = seen[q]
    BY DEF Stays
  <1>2. Stage(q)'
    <2>1. \A r : r = Made("CLEANUP_PENDING") \/ (\E o \in Deletes : r = Deleted(o)) => Certain(r)
      BY DEF Certain, Made, Deleted
    <2> QED BY <1>1, <2>1 DEF OnTrack, Stage
  <1> QED BY <1>1, <1>2 DEF OnTrack

(* The controller that moves is still on its way, or leaves its lease      *)
(* confirmed.                                                              *)
Tracked(p) ==
  \A l \in Lease \ shared : at[p] = l =>
    \/ at'[p] = l /\ OnTrack(p)'
    \/ at'[p] # l /\ ~Unresolved(l)'

LEMMA MovingIsCalm ==
  ASSUME LeaseIInv, BudgetIInv, Calm, NEW p \in Proc, pc[p] # "idle", Moved(p), Tracked(p)
  PROVE  Calm'
  <1>1. /\ at[p] \in Lease /\ prefix[at[p]] = "chain"
        /\ UNCHANGED <<prefix, vm, disk, shared>>
        /\ \A k \in Lease \ {at[p]} : head'[k] = head[k] /\ event'[k] = event[k]
        /\ \A q \in Proc \ {p} : Stays(q) /\ loops'[q] = loops[q]
        /\ at'[p] \in {at[p], NoLease}
    BY CalmPlace DEF Moved, Wrote, Others
  <1>2. /\ stamp' \in [Lease -> {0}] /\ now' \in [Proc -> {0}] /\ loops' \in [Proc -> Int]
        /\ event' = [l \in Lease |-> event'[l]]
    BY DEF Moved, Wrote
  <1>3. /\ vm' = disk'
        /\ \A l \in Lease, o \in Operations : ops'[l][o] # "error"
        /\ \A l \in Lease, o \in Deletes : ops'[l][o] = "done" => l \notin vm'
    BY DEF Calm, Moved, Operations
  <1>4. \A l \in Lease : prefix'[l] # "chain" => head'[l] = Initial
    BY <1>1 DEF Calm
  <1>5. \A q \in Proc : pc'[q] = "idle" => mem'[q] = Initial /\ pend'[q] = NoOp
    BY <1>1 DEF Calm, Moved, Stays
  <1>6. ASSUME NEW l \in Lease \ shared, Unresolved(l)'
        PROVE  \E q \in Proc : at'[q] = l
    <2>1. CASE l = at[p]
      BY <1>6, <2>1 DEF Tracked
    <2>2. CASE l # at[p]
      <3>1. Unresolved(l)
        BY <1>1, <1>6, <2>2 DEF Unresolved
      <3>2. PICK q \in Proc : at[q] = l
        BY <3>1 DEF Calm
      <3> QED BY <1>1, <2>2, <3>2 DEF Stays
    <2> QED BY <2>1, <2>2
  <1>7. ASSUME NEW q \in Proc, at'[q] \in Lease \ shared
        PROVE  OnTrack(q)'
    <2>1. CASE q = p
      BY <1>1, <1>7, <2>1, LeaseAssumption DEF Tracked
    <2>2. CASE q # p
      <3>1. at[q] \in Lease \ shared /\ Stays(q) /\ loops'[q] = loops[q]
        BY <1>1, <1>7, <2>2 DEF Stays
      <3>2. at[q] # at[p]
        BY <2>2, <3>1 DEF BudgetIInv, Counted
      <3>3. OnTrack(q)
        BY <3>1 DEF Calm
      <3> QED BY <1>1, <3>1, <3>2, <3>3, TrackStays
    <2> QED BY <2>1, <2>2
  <1> QED BY <1>1, <1>2, <1>3, <1>4, <1>5, <1>6, <1>7 DEF Calm

(* The one controller of a lease writes what comes next.                   *)
LEMMA NothingIsRefused ==
  ASSUME LeaseIInv, Calm, StillCalm, NEW p \in Proc, pc[p] # "idle", mem[p] = head[at[p]],
         NEW r, Accepts(event[at[p]], mem[p], r), NEW t, t = 0
  PROVE  ~Unrecorded(at[p], r, t, 0)
  BY CalmPlace, CalmWrites DEF StillCalm

LEMMA TrackWrites ==
  ASSUME LeaseIInv, Calm, StillCalm, NEW p \in Proc, pc[p] # "idle", mem[p] = head[at[p]],
         NEW r, Accepts(event[at[p]], mem[p], r), NEW t, t = 0,
         \/ Recorded(p, r, t)
         \/ RecordResilient(p, r, t, 0)
         \/ Unrecorded(at[p], r, t, 0)
  PROVE  /\ head'[at[p]] = r /\ mem'[p] = r
         /\ IsDeleteIntent(mem[p], r) => event'[at[p]] = "intent"
  <1>1. at[p] \in Lease /\ Valid(r) /\ mem = [q \in Proc |-> mem[q]]
    BY CalmPlace DEF Accepts, LeaseIInv, Typed
  <1>2. CASE Recorded(p, r, t)
    BY <1>1, <1>2, CalmPlace, CalmWrites DEF Recorded, StillCalm
  <1>3. CASE RecordResilient(p, r, t, 0)
    BY <1>1, <1>3, CalmPlace, CalmWrites DEF RecordResilient, StillCalm
  <1>4. CASE Unrecorded(at[p], r, t, 0)
    BY <1>1, <1>4, CalmPlace, CalmWrites DEF StillCalm
  <1> QED BY <1>2, <1>3, <1>4

(* What is accepted leaves a confirmed lease, when it confirms.            *)
LEMMA ConfirmingEnds ==
  ASSUME LeaseIInv, Calm, StillCalm, NEW p \in Proc, pc[p] # "idle", mem[p] = head[at[p]],
         \/ mem[p] = Initial \/ mem[p] = Made("CLEANUP_PENDING")
         \/ \E o \in Deletes : mem[p] = Deleted(o),
         Offered(at[p], ConfirmedRecord(mem[p]), now[p], 0), Return(p),
         NEW l, l = at[p]
  PROVE  at'[p] # l /\ ~Unresolved(l)'
  <1>1. at[p] \in Lease /\ now[p] = 0
    BY CalmPlace
  <1>2. /\ Accepts(event[at[p]], mem[p], ConfirmedRecord(mem[p]))
        /\ ConfirmedRecord(mem[p]).state = CONFIRMED
    BY EndIsAccepted
  <1>3. head'[l] = ConfirmedRecord(mem[p])
    BY <1>1, <1>2, CalmPlace, CalmWrites DEF StillCalm
  <1>4. at'[p] = NoLease
    BY DEF Return, LeaseIInv, Typed
  <1> QED BY <1>1, <1>2, <1>3, <1>4, LeaseAssumption DEF Unresolved, CONFIRMED

(* Without a fault a poll that answers tells of an operation that is done. *)
LEMMA DoneIsReported ==
  ASSUME LeaseIInv, Calm, StillCalm, NEW p \in Proc, pc[p] # "idle",
         NEW o \in Operations, Reconcile(p, o), NEW l, at[p] = l
  PROVE  Reported(l, o) = "DONE" /\ ops[l][o] = "done"
  <1> DEFINE status == Reported(l, o)
             r == ReconciledRecord(mem[p], o, status)
  <1>1. l \in Lease /\ ops[l][o] # "error"
    BY CalmPlace DEF Calm
  <1>2. status # "TIMEOUT"
    <2> SUFFICES ASSUME status = "TIMEOUT" PROVE FALSE
      OBVIOUS
    <2>1. Offered(l, r, clock, 1)
      BY DEF Reconcile, RecordResilient
    <2> HIDE DEF r
    <2> QED BY <1>1, <2>1, CalmPlace, CalmWrites DEF StillCalm
  <1>3. status = CASE ops[l][o] = "done" -> "DONE" [] OTHER -> "TIMEOUT"
    BY <1>1 DEF Reported
  <1> QED BY <1>2, <1>3

LEMMA ExecuteIsTracked ==
  ASSUME LeaseIInv, Calm, StillCalm, NEW p \in Proc, Execute(p)
  PROVE  Tracked(p)
  <1> SUFFICES ASSUME NEW l \in Lease \ shared, at[p] = l
               PROVE  \/ at'[p] = l /\ OnTrack(p)'
                      \/ at'[p] # l /\ ~Unresolved(l)'
    BY DEF Tracked
  <1>1. /\ mem[p] = head[l] /\ seen[p] # "mismatch" /\ Stage(p) /\ now[p] = 0
    BY DEF Calm, OnTrack
  <1>2. /\ pc = [q \in Proc |-> pc[q]] /\ pend = [q \in Proc |-> pend[q]]
        /\ Placed(p) /\ Lawful(l) /\ ~Fault
    BY DEF LeaseIInv, Typed, StillCalm, Fault, Faults
  <1>3. \E o \in Deletes : TRUE
    BY AttemptsAssumption, CallsAssumption DEF Deletes
  <1>4. CASE ConsumeArm(p)
    <2>1. /\ pc[p] = "arm" /\ UNCHANGED <<head, at, mem, pend, seen>>
          /\ pc'[p] \in {"armed", "abort"}
      BY <1>2, <1>4 DEF ConsumeArm, Goto, journal, locals
    <2>2. Stage(p)'
      BY <1>1, <2>1 DEF Stage
    <2> QED BY <1>1, <2>1, <2>2 DEF OnTrack
  <1>5. CASE ConsumeArmFails(p)
    BY <1>2, <1>5 DEF ConsumeArmFails
  <1>6. CASE RecordArm(p)
    <2>1. pc[p] = "armed" /\ mem[p] = Initial /\ pend[p] = NoOp
      BY <1>1, <1>6 DEF RecordArm, Stage
    <2>2. Accepts(event[l], Initial, Armed) /\ ArmedRecord(Initial) = Armed
      BY <1>3, RunIsAccepted, FirstRecords
    <2>3. ~Unrecorded(l, Armed, 0, 0)
      BY <1>1, <2>1, <2>2, NothingIsRefused
    <2>4. /\ Recorded(p, Armed, 0) /\ Goto(p, "precheck") /\ UNCHANGED <<at, pend, seen>>
      BY <1>1, <1>6, <2>1, <2>2, <2>3 DEF RecordArm
    <2>5. head'[l] = Armed /\ mem'[p] = Armed
      BY <1>1, <2>1, <2>2, <2>4, TrackWrites
    <2>6. pc'[p] = "precheck"
      BY <1>2, <2>4 DEF Goto
    <2> QED BY <1>1, <2>1, <2>4, <2>5, <2>6 DEF OnTrack, Stage
  <1>7. CASE Precheck(p)
    <2>1. pc[p] = "precheck" /\ UNCHANGED <<head, at, mem, pend, seen>>
      BY <1>7 DEF Precheck, journal, locals
    <2>2. l \notin vm
      BY <1>2, <2>1 DEF Placed, Early, Lawful, Sent
    <2>3. pc'[p] = "intent"
      BY <1>2, <1>7, <2>2 DEF Precheck, Goto
    <2> QED BY <1>1, <2>1, <2>3 DEF OnTrack, Stage
  <1>8. CASE Abort(p)
    <2>1. pc[p] = "abort" /\ mem[p] = Initial
      BY <1>1, <1>8 DEF Abort, Stage
    <2> QED BY <1>1, <1>8, <2>1, ConfirmingEnds DEF Abort
  <1>9. CASE RecordIntent(p)
    <2>1. pc[p] = "intent" /\ mem[p] = Armed /\ pend[p] = NoOp
      BY <1>1, <1>9 DEF RecordIntent, Stage
    <2>2. Accepts(event[l], Armed, Intended) /\ IntentRecord(Armed) = Intended
      BY <1>3, RunIsAccepted, FirstRecords
    <2>3. ~Unrecorded(l, Intended, 0, 0)
      BY <1>1, <2>1, <2>2, NothingIsRefused
    <2>4. /\ Recorded(p, Intended, 0) /\ Goto(p, "insert") /\ UNCHANGED <<at, pend, seen>>
      BY <1>1, <1>9, <2>1, <2>2, <2>3 DEF RecordIntent
    <2>5. head'[l] = Intended /\ mem'[p] = Intended
      BY <1>1, <2>1, <2>2, <2>4, TrackWrites
    <2>6. pc'[p] = "insert"
      BY <1>2, <2>4 DEF Goto
    <2> QED BY <1>1, <2>1, <2>4, <2>5, <2>6 DEF OnTrack, Stage
  <1>10. CASE Insert(p)
    <2>1. /\ pc[p] = "insert" /\ UNCHANGED <<head, at, mem, seen>>
          /\ Goto(p, "handle") /\ pend' = [pend EXCEPT ![p] = InsertOp]
      BY <1>2, <1>10 DEF Insert, journal
    <2>2. pc'[p] = "handle" /\ pend'[p] = InsertOp
      BY <1>2, <2>1 DEF Goto
    <2> QED BY <1>1, <2>1, <2>2 DEF OnTrack, Stage
  <1>11. CASE RecordHandle(p)
    <2>1. pc[p] = "handle" /\ mem[p] = Intended /\ pend[p] = InsertOp
      BY <1>1, <1>11 DEF RecordHandle, Stage
    <2>2. Accepts(event[l], Intended, Handled) /\ HandleRecord(Intended, InsertOp) = Handled
      BY <1>3, RunIsAccepted, FirstRecords
    <2>3. /\ RecordResilient(p, Handled, 0, 0) /\ Goto(p, "wait") /\ UNCHANGED <<at, pend, seen>>
      BY <1>1, <1>11, <2>1, <2>2 DEF RecordHandle
    <2>4. head'[l] = Handled /\ mem'[p] = Handled
      BY <1>1, <2>1, <2>2, <2>3, TrackWrites
    <2>5. pc'[p] = "wait"
      BY <1>2, <2>3 DEF Goto
    <2> QED BY <1>1, <2>1, <2>3, <2>4, <2>5 DEF OnTrack, Stage
  <1>12. CASE MarkInsertAmbiguous(p)
    BY <1>1, <1>12 DEF MarkInsertAmbiguous, Stage
  <1>13. CASE RecordRejection(p)
    BY <1>1, <1>13 DEF RecordRejection, Stage
  <1>14. CASE Wait(p)
    <2> DEFINE made == Made("CREATE_SUBMITTED")
    <2>1. pc[p] = "wait" /\ mem[p] = Handled /\ pend[p] = InsertOp
      BY <1>1, <1>14 DEF Wait, Stage
    <2>2. Accepts(event[l], Handled, made) /\ ReconciledRecord(Handled, InsertOp, "DONE") = made
      BY <1>3, RunIsAccepted, FirstRecords
    <2>3. /\ Reconcile(p, InsertOp) /\ UNCHANGED <<at, seen>>
          /\ Goto(p, IF Reported(l, InsertOp) = "DONE" THEN "verify" ELSE "cleanup")
      BY <1>2, <1>14, <2>1 DEF Wait, PollFails
    <2>4. Reported(l, InsertOp) = "DONE"
      BY <1>1, <2>1, <2>3, DoneIsReported DEF Operations
    <2>5. /\ RecordResilient(p, made, 0, 0) /\ pend' = [pend EXCEPT ![p] = NoOp]
      BY <2>1, <2>2, <2>3, <2>4 DEF Reconcile, StillCalm
    <2>6. head'[l] = made /\ mem'[p] = made
      BY <1>1, <2>1, <2>2, <2>5, TrackWrites
    <2>7. pc'[p] = "verify" /\ pend'[p] = NoOp
      BY <1>2, <2>3, <2>4, <2>5 DEF Goto
    <2> QED BY <1>1, <2>3, <2>6, <2>7 DEF OnTrack, Stage
  <1>15. CASE Verify(p)
    <2> DEFINE made == Made("CREATE_SUBMITTED")
               owned == Made("OWNED")
    <2>1. pc[p] = "verify" /\ mem[p] = made /\ pend[p] = NoOp
      BY <1>1, <1>15 DEF Verify, Stage
    <2>2. Accepts(event[l], made, owned) /\ OwnedRecord(made) = owned
      BY <1>3, RunIsAccepted, FirstRecords
    <2> HIDE DEF made, owned
    <2>3. ~Unrecorded(l, owned, 0, 0)
      BY <1>1, <2>1, <2>2, NothingIsRefused
    <2>4. /\ UNCHANGED <<at, pend, seen>>
          /\ \/ Recorded(p, owned, 0) /\ Goto(p, "work")
             \/ Goto(p, "cleanup") /\ UNCHANGED <<head, mem>>
      BY <1>1, <1>2, <1>15, <2>1, <2>2, <2>3 DEF Verify, journal
    <2>5. CASE Recorded(p, owned, 0) /\ Goto(p, "work")
      <3>1. head'[l] = owned /\ mem'[p] = owned
        BY <1>1, <2>1, <2>2, <2>5, TrackWrites
      <3>2. pc'[p] = "work"
        BY <1>2, <2>5 DEF Goto
      <3> QED BY <1>1, <2>1, <2>4, <3>1, <3>2 DEF OnTrack, Stage, owned
    <2>6. CASE Goto(p, "cleanup") /\ UNCHANGED <<head, mem>>
      <3>1. pc'[p] = "cleanup"
        BY <1>2, <2>6 DEF Goto
      <3> QED BY <1>1, <2>1, <2>4, <2>6, <3>1 DEF OnTrack, Stage, made
    <2> QED BY <2>4, <2>5, <2>6
  <1>16. CASE Work(p)
    <2>1. pc[p] = "work" /\ UNCHANGED <<head, at, mem, pend, seen>> /\ Goto(p, "cleanup")
      BY <1>16 DEF Work, journal, locals
    <2>2. pc'[p] = "cleanup"
      BY <1>2, <2>1 DEF Goto
    <2> QED BY <1>1, <2>1, <2>2 DEF OnTrack, Stage
  <1> QED BY <1>4, <1>5, <1>6, <1>7, <1>8, <1>9, <1>10, <1>11, <1>12, <1>13, <1>14, <1>15, <1>16
          DEF Execute

LEMMA CleanupIsTracked ==
  ASSUME LeaseIInv, Calm, StillCalm, NEW p \in Proc, Cleanup(p)
  PROVE  Tracked(p)
  <1> DEFINE made == Made("CLEANUP_PENDING")
  <1> SUFFICES ASSUME NEW l \in Lease \ shared, at[p] = l
               PROVE  \/ at'[p] = l /\ OnTrack(p)'
                      \/ at'[p] # l /\ ~Unresolved(l)'
    BY DEF Tracked
  <1>1. /\ mem[p] = head[l] /\ seen[p] # "mismatch" /\ Stage(p) /\ now[p] = 0 /\ clock = 0
        /\ pc[p] \in {"delete", "bind"} => event[l] = "intent"
    BY DEF Calm, OnTrack, StillCalm
  <1>2. /\ pc = [q \in Proc |-> pc[q]] /\ pend = [q \in Proc |-> pend[q]]
        /\ seen = [q \in Proc |-> seen[q]] /\ loops \in [Proc -> Int]
        /\ Placed(p) /\ Lawful(l) /\ ~Fault
    BY DEF LeaseIInv, Typed, StillCalm, Fault, Faults, Calm
  <1>3. \E o \in Deletes : TRUE
    BY AttemptsAssumption, CallsAssumption DEF Deletes
  <1>4. CASE StartCleanup(p)
    <2>1. PICK s \in {"CREATE_SUBMITTED", "OWNED"} :
            pc[p] = "cleanup" /\ mem[p] = Made(s) /\ pend[p] = NoOp
      BY <1>1, <1>4 DEF StartCleanup, Stage
    <2>2. Accepts(event[l], mem[p], made) /\ PendingRecord(mem[p]) = made
      BY <1>3, <2>1, RunIsAccepted, LastRecords
    <2> HIDE DEF made
    <2>3. /\ RecordResilient(p, made, 0, 0) /\ Goto(p, "reconcile") /\ UNCHANGED <<at, pend, seen>>
          /\ loops' = [loops EXCEPT ![p] = MaxAttempts + 1]
      BY <1>1, <1>4, <2>2 DEF StartCleanup
    <2>4. head'[l] = made /\ mem'[p] = made
      BY <1>1, <2>1, <2>2, <2>3, TrackWrites
    <2>5. pc'[p] = "reconcile" /\ loops'[p] >= 2
      BY <1>2, <2>3, AttemptsAssumption DEF Goto
    <2> QED BY <1>1, <2>1, <2>3, <2>4, <2>5 DEF OnTrack, Stage, made
  <1>5. CASE Iterate(p)
    <2>1. /\ pc[p] = "reconcile" /\ UNCHANGED <<at, seen>>
          /\ loops' = [loops EXCEPT ![p] = loops[p] - 1]
      BY <1>5 DEF Iterate
    <2>2. loops'[p] = loops[p] - 1 /\ loops[p] \in Int
      BY <1>2, <2>1
    <2>3. CASE mem[p] = made /\ pend[p] = NoOp /\ loops[p] >= 2
      <3>1. Awaited(p) = NoOp
        BY <2>3 DEF Awaited, Made, Terminal
      <3>2. Goto(p, "get") /\ UNCHANGED <<head, mem, pend>>
        BY <1>5, <3>1 DEF Iterate, journal
      <3>3. pc'[p] = "get"
        BY <1>2, <3>2 DEF Goto
      <3>4. Stage(p)'
        BY <2>2, <2>3, <3>2, <3>3 DEF Stage
      <3>5. mem'[p] = head'[l]
        BY <1>1, <3>2
      <3> QED BY <1>1, <2>1, <3>3, <3>4, <3>5 DEF OnTrack
    <2>4. CASE pend[p] \in Deletes /\ mem[p] = Bound(pend[p])
      <3>1. PICK o \in Deletes : o = pend[p]
        BY <2>4
      <3>2. Awaited(p) = o /\ o # NoOp /\ o \in Operations
        BY <3>1 DEF Awaited, Deletes, NoOp, Operations
      <3>3. Reconcile(p, o) /\ Goto(p, IF Reported(l, o) = "TIMEOUT" THEN "reconcile" ELSE "get")
        BY <1>2, <1>5, <3>2 DEF Iterate, PollFails
      <3>4. Reported(l, o) = "DONE" /\ ops[l][o] = "done"
        BY <2>1, <3>2, <3>3, DoneIsReported
      <3>5. Accepts(event[l], mem[p], Deleted(o))
            /\ ReconciledRecord(mem[p], o, "DONE") = Deleted(o)
        BY <2>4, <3>1, RunIsAccepted, LastRecords
      <3>6. RecordResilient(p, Deleted(o), 0, 0) /\ pend' = [pend EXCEPT ![p] = NoOp]
        BY <1>1, <3>3, <3>4, <3>5 DEF Reconcile
      <3>7. head'[l] = Deleted(o) /\ mem'[p] = Deleted(o)
        BY <1>1, <2>1, <3>5, <3>6, TrackWrites
      <3>8. pc'[p] = "get" /\ pend'[p] = NoOp
        BY <1>2, <3>3, <3>4, <3>6 DEF Goto
      <3>9. l \notin vm /\ vm' = vm /\ seen'[p] = "nothing"
        BY <1>2, <1>5, <2>1, <3>4 DEF Calm, Iterate, provider, Placed
      <3> QED BY <1>1, <2>1, <3>7, <3>8, <3>9 DEF OnTrack, Stage
    <2> QED BY <1>1, <2>1, <2>3, <2>4 DEF Stage
  <1>6. CASE GiveUp(p)
    BY <1>1, <1>6 DEF GiveUp, Stage
  <1>7. CASE Deadline(p)
    BY <1>2, <1>7 DEF Deadline
  <1>8. CASE GetInstance(p)
    <2>1. /\ pc[p] = "get" /\ UNCHANGED <<head, at, mem, pend, loops, vm>> /\ Goto(p, "list")
          /\ seen' = [seen EXCEPT ![p] = IF l \in vm THEN "owned" ELSE "nothing"]
      BY <1>2, <1>8 DEF GetInstance, journal, provider
    <2>2. pc'[p] = "list" /\ seen'[p] = IF l \in vm THEN "owned" ELSE "nothing"
      BY <1>2, <2>1 DEF Goto
    <2>3. CASE mem[p] = made /\ pend[p] = NoOp /\ loops[p] >= 1
      <3>1. Stage(p)'
        BY <2>1, <2>2, <2>3 DEF Stage
      <3> QED BY <1>1, <2>1, <2>2, <3>1 DEF OnTrack
    <2>4. CASE pend[p] = NoOp /\ l \notin vm /\ \E o \in Deletes : mem[p] = Deleted(o)
      <3>1. Stage(p)'
        BY <2>1, <2>2, <2>4 DEF Stage
      <3> QED BY <1>1, <2>1, <2>2, <3>1 DEF OnTrack
    <2> QED BY <1>1, <2>1, <2>3, <2>4 DEF Stage
  <1>9. CASE ListOwned(p)
    <2>1. /\ pc[p] = "list" /\ UNCHANGED <<head, at, mem, pend, loops, vm>> /\ Goto(p, NextStep(p))
          /\ seen' = [seen EXCEPT ![p] = "nothing"]
      BY <1>2, <1>9 DEF ListOwned, journal, provider
    <2>2. pc'[p] = NextStep(p) /\ seen'[p] = "nothing"
      BY <1>2, <2>1 DEF Goto
    <2>3. CASE mem[p] = made /\ pend[p] = NoOp /\ loops[p] >= 1
      <3>1. "ambiguous" \notin mem[p].flags /\ mem[p].deletes = 0
        BY <2>3 DEF Made
      <3>2. NextStep(p) = "prepare" \/ (NextStep(p) = "confirm" /\ l \notin vm)
        BY <1>1, <3>1, AttemptsAssumption DEF NextStep
      <3> QED BY <1>1, <2>1, <2>2, <2>3, <3>2 DEF OnTrack, Stage
    <2>4. CASE seen[p] = "nothing" /\ l \notin vm /\ \E o \in Deletes : mem[p] = Deleted(o)
      <3>1. "ambiguous" \notin mem[p].flags
        BY <2>4 DEF Deleted
      <3>2. NextStep(p) = "confirm"
        BY <2>4, <3>1 DEF NextStep
      <3> QED BY <1>1, <2>1, <2>2, <2>4, <3>2 DEF OnTrack, Stage
    <2> QED BY <1>1, <2>1, <2>3, <2>4 DEF Stage
  <1>10. CASE FinalConfirm(p)
    <2>1. /\ pc[p] = "confirm" /\ l \notin vm
          /\ mem[p] = made \/ \E o \in Deletes : mem[p] = Deleted(o)
      BY <1>1, <1>10 DEF FinalConfirm, Stage
    <2>2. UNCHANGED <<head, at, mem, seen, vm>> /\ Goto(p, "settle")
      BY <1>2, <1>10, <2>1 DEF FinalConfirm, Calm, journal, locals, provider
    <2>3. pc'[p] = "settle"
      BY <1>2, <2>2 DEF Goto
    <2> QED BY <1>1, <2>1, <2>2, <2>3 DEF OnTrack, Stage
  <1>11. CASE Settle(p)
    <2>1. pc[p] = "settle" /\ (mem[p] = made \/ \E o \in Deletes : mem[p] = Deleted(o))
      BY <1>1, <1>11 DEF Settle, Stage
    <2> QED BY <1>1, <1>11, <2>1, ConfirmingEnds DEF Settle
  <1>12. CASE Prepare(p)
    <2>1. pc[p] = "prepare" /\ mem[p] = made /\ pend[p] = NoOp /\ loops[p] >= 1
      BY <1>1, <1>12 DEF Prepare, Stage
    <2>2. /\ Accepts(event[l], made, Counting) /\ DeleteIntent(made) = Counting
          /\ IsDeleteIntent(made, Counting)
      BY <1>3, RunIsAccepted, LastRecords
    <2> HIDE DEF made
    <2>3. ~Unrecorded(l, Counting, 0, 0)
      BY <1>1, <2>1, <2>2, NothingIsRefused
    <2>4. /\ Recorded(p, Counting, 0) /\ Goto(p, "delete") /\ UNCHANGED <<at, pend, seen, loops>>
      BY <1>1, <1>12, <2>1, <2>2, <2>3 DEF Prepare
    <2>5. head'[l] = Counting /\ mem'[p] = Counting /\ event'[l] = "intent"
      BY <1>1, <2>1, <2>2, <2>4, TrackWrites
    <2>6. pc'[p] = "delete"
      BY <1>2, <2>4 DEF Goto
    <2> QED BY <1>1, <2>1, <2>4, <2>5, <2>6 DEF OnTrack, Stage
  <1>13. CASE Delete(p)
    <2>1. pc[p] = "delete" /\ mem[p] = Counting /\ loops[p] >= 1
      BY <1>1, <1>13 DEF Delete, Stage
    <2>2. /\ UNCHANGED <<head, event, at, mem, seen, loops>> /\ Goto(p, "bind")
          /\ \E o \in Deletes : pend' = [pend EXCEPT ![p] = o]
      BY <1>2, <1>13 DEF Delete, journal
    <2>3. pc'[p] = "bind" /\ pend'[p] \in Deletes
      BY <1>2, <2>2 DEF Goto
    <2> QED BY <1>1, <2>1, <2>2, <2>3 DEF OnTrack, Stage
  <1>14. CASE BindDelete(p)
    <2>1. PICK o \in Deletes : /\ pc[p] = "bind" /\ mem[p] = Counting /\ pend[p] = o
                               /\ loops[p] >= 1
      BY <1>1, <1>14 DEF BindDelete, Stage
    <2>2. /\ Accepts(event[l], Counting, Bound(o))
          /\ [HandleRecord(Counting, o) EXCEPT !.state = "CLEANUP_PENDING"] = Bound(o)
      BY <1>1, <2>1, RunIsAccepted, LastRecords
    <2>3. /\ RecordResilient(p, Bound(o), 0, 0) /\ Goto(p, "reconcile")
          /\ UNCHANGED <<at, pend, seen, loops>>
      BY <1>1, <1>14, <2>1, <2>2 DEF BindDelete
    <2>4. head'[l] = Bound(o) /\ mem'[p] = Bound(o)
      BY <1>1, <2>1, <2>2, <2>3, TrackWrites
    <2>5. pc'[p] = "reconcile"
      BY <1>2, <2>3 DEF Goto
    <2> QED BY <1>1, <2>1, <2>3, <2>4, <2>5 DEF OnTrack, Stage
  <1>15. CASE MarkDeleteAmbiguous(p)
    BY <1>1, <1>15 DEF MarkDeleteAmbiguous, Stage
  <1>16. CASE RecordDenial(p) \/ Orphan(p)
    BY <1>1, <1>16 DEF RecordDenial, Orphan, Stage
  <1> QED BY <1>4, <1>5, <1>6, <1>7, <1>8, <1>9, <1>10, <1>11, <1>12, <1>13, <1>14, <1>15, <1>16
          DEF Cleanup

(* An operation that ends, and a machine that is stopped, leave everyone   *)
(* on the way: who has seen a machine gone works on a settled insert.      *)
LEMMA ProviderIsCalm ==
  ASSUME LeaseIInv, Calm, StillCalm, NEW l \in Lease,
         RunDurationEnds(l) \/ \E o \in Operations : OperationEnds(l, o)
  PROVE  Calm'
  <1>1. UNCHANGED <<journal, pc, locals, counts>>
    BY DEF RunDurationEnds, OperationEnds
  <1>2. /\ vm' = disk'
        /\ \A k \in Lease, o \in Operations : ops'[k][o] # "error"
        /\ \A k \in Lease : Settled(k) /\ k \notin vm => k \notin vm'
        /\ \A k \in Lease, o \in Deletes : ops'[k][o] = "done" => k \notin vm'
    <2>1. CASE RunDurationEnds(l)
      BY <2>1 DEF RunDurationEnds, Calm
    <2>2. ASSUME NEW o \in Operations, OperationEnds(l, o)
          PROVE  /\ vm' = disk'
                 /\ \A k \in Lease, i \in Operations : ops'[k][i] # "error"
                 /\ \A k \in Lease : Settled(k) /\ k \notin vm => k \notin vm'
                 /\ \A k \in Lease, i \in Deletes : ops'[k][i] = "done" => k \notin vm'
      <3>1. /\ ops[l][o] = "pending" /\ ops' = [ops EXCEPT ![l][o] = "done"]
            /\ vm' = (IF o = InsertOp THEN vm \cup {l} ELSE vm \ {l})
            /\ disk' = (IF o = InsertOp THEN disk \cup {l} ELSE disk \ {l})
        BY <2>2 DEF OperationEnds, StillCalm, Fault, Faults
      <3>2. /\ ops'[l][o] = "done"
            /\ \A i \in Operations : i # o => ops'[l][i] = ops[l][i]
            /\ \A k \in Lease : k # l => ops'[k] = ops[k]
        BY <3>1 DEF LeaseIInv, Typed
      <3>3. vm' = disk' /\ \A k \in Lease, i \in Operations : ops'[k][i] # "error"
        BY <3>1, <3>2 DEF Calm
      <3>4. o = InsertOp => ~Settled(l)
        BY <3>1 DEF Settled
      <3>5. \A k \in Lease : Settled(k) /\ k \notin vm => k \notin vm'
        BY <3>1, <3>4
      <3>6. ASSUME NEW k \in Lease, NEW i \in Deletes, ops'[k][i] = "done"
            PROVE  k \notin vm'
        <4>1. CASE k = l /\ i = o
          BY <3>1, <4>1 DEF Deletes, InsertOp
        <4>2. CASE k # l \/ i # o
          <5>1. ops[k][i] = "done" /\ k \notin vm
            BY <3>2, <3>6, <4>2 DEF Calm, Operations
          <5>2. Settled(k)
            BY <5>1 DEF LeaseIInv, Lawful
          <5> QED BY <3>5, <5>1, <5>2
        <4> QED BY <4>1, <4>2
      <3> QED BY <3>3, <3>5, <3>6
    <2> QED BY <2>1, <2>2
  <1>3. ASSUME NEW q \in Proc, at'[q] \in Lease \ shared'
        PROVE  OnTrack(q)'
    <2>1. at[q] \in Lease \ shared /\ OnTrack(q) /\ Stays(q) /\ loops'[q] = loops[q]
      BY <1>1, <1>3 DEF Calm, counts, locals, Stays
    <2>2. Certain(mem[q]) => Settled(at[q])
      BY DEF LeaseIInv, Placed
    <2> QED BY <1>1, <1>2, <2>1, <2>2, TrackStays DEF journal
  <1>4. \A k \in Lease : Unresolved(k)' = Unresolved(k)
    BY <1>1 DEF Unresolved, journal
  <1> QED BY <1>1, <1>2, <1>3, <1>4 DEF Calm, journal, locals, counts

(* A new lease has its one controller; a second one shares it.             *)
LEMMA BeginningsAreCalm ==
  ASSUME LeaseIInv, BudgetIInv, Calm, StillCalm, NEW p \in Proc, NEW l \in Lease,
         Reserve(p, l) \/ ReserveFails(p, l) \/ RecoverCleanup(p, l)
  PROVE  Calm'
  <1>1. /\ pc[p] = "idle" /\ at[p] = NoLease /\ mem[p] = Initial /\ pend[p] = NoOp
        /\ seen[p] = "nothing"
    <2>1. pc[p] = "idle"
      BY DEF Reserve, ReserveFails, RecoverCleanup
    <2> QED BY <2>1 DEF BudgetIInv, Calm, LeaseIInv, Placed
  <1>2. \A q \in Proc : at[q] \in Lease => pc[q] # "idle" /\ prefix[at[q]] = "chain"
    BY LeaseAssumption DEF BudgetIInv, LeaseIInv, Placed
  <1>3. ~ReserveFails(p, l)
    BY DEF ReserveFails, StillCalm, Fault, Faults
  <1>4. CASE Reserve(p, l)
    <2>1. /\ prefix[l] # "chain" /\ prefix'[l] = "chain"
          /\ \A k \in Lease : k # l => (prefix'[k] = "chain" <=> prefix[k] = "chain")
      BY <1>4 DEF Reserve, CanReserve, DropAnchors
    <2>2. /\ UNCHANGED <<head, event, vm, disk, ops, mem, pend, loops, seen, shared>>
          /\ stamp' = [stamp EXCEPT ![l] = 0] /\ now' = [now EXCEPT ![p] = 0]
          /\ at' = [at EXCEPT ![p] = l] /\ Goto(p, "arm")
      BY <1>4 DEF Reserve, provider, counts, StillCalm
    <2>3. /\ at'[p] = l /\ pc'[p] = "arm"
          /\ \A q \in Proc \ {p} : at'[q] = at[q] /\ pc'[q] = pc[q] /\ Stays(q)
      BY <2>2 DEF LeaseIInv, Typed, Goto, Stays
    <2>4. stamp' \in [Lease -> {0}] /\ now' \in [Proc -> {0}]
      BY <2>2 DEF Calm
    <2>5. head[l] = Initial
      BY <2>1 DEF Calm
    <2>6. OnTrack(p)'
      BY <1>1, <2>2, <2>3, <2>5 DEF OnTrack, Stage
    <2>7. ASSUME NEW q \in Proc, at'[q] \in Lease \ shared'
          PROVE  OnTrack(q)'
      <3>1. CASE q # p
        <4>1. OnTrack(q) /\ Stays(q)
          BY <2>2, <2>3, <2>7, <3>1 DEF Calm
        <4> QED BY <2>2, <4>1, TrackStays
      <3> QED BY <2>6, <3>1
    <2>8. ASSUME NEW k \in Lease \ shared', Unresolved(k)'
          PROVE  \E q \in Proc : at'[q] = k
      <3>1. CASE k # l
        <4>1. Unresolved(k)
          BY <2>1, <2>2, <2>8, <3>1 DEF Unresolved
        <4>2. PICK q \in Proc : at[q] = k
          BY <2>2, <4>1 DEF Calm
        <4> QED BY <1>1, <2>3, <4>2, LeaseAssumption
      <3> QED BY <2>3, <3>1
    <2>9. \A q \in Proc : pc'[q] = "idle" => mem'[q] = Initial /\ pend'[q] = NoOp
      BY <2>2, <2>3 DEF Calm
    <2>10. \A k \in Lease : prefix'[k] # "chain" => head'[k] = Initial
      BY <2>1, <2>2 DEF Calm
    <2> QED BY <2>2, <2>4, <2>7, <2>8, <2>9, <2>10 DEF Calm
  <1>5. CASE RecoverCleanup(p, l)
    <2>1. /\ UNCHANGED <<prefix, head, event, stamp, vm, disk, ops, pend, loops, seen, now>>
          /\ at' = [at EXCEPT ![p] = l] /\ Goto(p, "cleanup") /\ mem' = [mem EXCEPT ![p] = head[l]]
          /\ Unresolved(l)
          /\ shared' = IF \E q \in Proc : at[q] = l THEN shared \cup {l} ELSE shared
      BY <1>5 DEF RecoverCleanup, journal, provider
    <2>2. /\ at'[p] = l /\ pc'[p] = "cleanup"
          /\ \A q \in Proc \ {p} : at'[q] = at[q] /\ pc'[q] = pc[q] /\ Stays(q)
      BY <2>1 DEF LeaseIInv, Typed, Goto, Stays
    <2>3. l \in shared' /\ shared \subseteq shared'
      BY <2>1 DEF Calm
    <2>4. ASSUME NEW q \in Proc, at'[q] \in Lease \ shared'
          PROVE  OnTrack(q)'
      <3>1. q # p
        BY <2>2, <2>3, <2>4
      <3>2. OnTrack(q) /\ Stays(q)
        BY <2>2, <2>3, <2>4, <3>1 DEF Calm
      <3> QED BY <2>1, <3>2, TrackStays
    <2>5. ASSUME NEW k \in Lease \ shared', Unresolved(k)'
          PROVE  \E q \in Proc : at'[q] = k
      <3>1. Unresolved(k)
        BY <2>1, <2>5 DEF Unresolved
      <3>2. PICK q \in Proc : at[q] = k
        BY <2>3, <3>1 DEF Calm
      <3> QED BY <1>1, <2>2, <3>2, LeaseAssumption
    <2>6. \A q \in Proc : pc'[q] = "idle" => mem'[q] = Initial /\ pend'[q] = NoOp
      BY <2>1, <2>2 DEF Calm, Stays
    <2> QED BY <2>1, <2>4, <2>5, <2>6 DEF Calm
  <1> QED BY <1>3, <1>4, <1>5

(* Faults and seconds are only added. *)
LEMMA FaultsStay ==
  ASSUME faults \in Nat, clock \in Nat, [Next]_vars
  PROVE  /\ faults' \in Nat /\ clock' \in Nat
         /\ faults' = 0 /\ clock' = 0 => StillCalm /\ ~Tick
  <1>1. \A n \in Nat : Faults(n) => faults' \in Nat /\ (faults' = 0 => faults = 0)
    BY DEF Faults
  <1>2. \A n \in Nat : \A l, r, t :
          Unrecorded(l, r, t, n) \/ Offered(l, r, t, n) =>
            faults' \in Nat /\ (faults' = 0 => faults = 0)
    BY <1>1 DEF Unrecorded, Offered
  <1>3. ASSUME NEW p \in Proc, NEW o, Reconcile(p, o) \/ PollFails(p, o)
        PROVE  faults' \in Nat /\ (faults' = 0 => faults = 0)
    <2>1. CASE Reconcile(p, o)
      <3> DEFINE status == Reported(at[p], o)
                 r == ReconciledRecord(mem[p], o, status)
                 n == IF status = "TIMEOUT" THEN 1 ELSE 0
      <3>1. Offered(at[p], r, clock, n)
        BY <2>1 DEF Reconcile, RecordResilient
      <3>2. n \in Nat
        OBVIOUS
      <3> HIDE DEF n, r
      <3> QED BY <1>2, <3>1, <3>2
    <2>2. CASE PollFails(p, o)
      BY <1>1, <2>2 DEF PollFails, Fault
    <2> QED BY <1>3, <2>1, <2>2
  <1>4. ASSUME NEW p \in Proc, Execute(p)
        PROVE  faults' \in Nat /\ (faults' = 0 => faults = 0) /\ clock' = clock
    <2>1. clock' = clock
      BY <1>4 DEF Execute, ConsumeArm, ConsumeArmFails, RecordArm, Precheck, Abort, RecordIntent,
         Insert, RecordHandle, MarkInsertAmbiguous, RecordRejection, Wait, Verify, Work, counts
    <2>2. CASE ConsumeArm(p) \/ ConsumeArmFails(p) \/ Precheck(p) \/ Insert(p) \/ Work(p)
      <3>1. Fault \/ Fine
        BY <2>2, Zenon DEF ConsumeArm, ConsumeArmFails, Precheck, Insert, Work
      <3> QED BY <1>1, <2>1, <3>1 DEF Fault, Fine
    <2>3. CASE \/ RecordArm(p) \/ Abort(p) \/ RecordIntent(p) \/ RecordHandle(p)
               \/ MarkInsertAmbiguous(p) \/ RecordRejection(p) \/ Verify(p)
      <3>1. \/ Fault \/ Fine
            \/ \E l, r, t : Unrecorded(l, r, t, 0) \/ Offered(l, r, t, 0)
        BY <2>3, Zenon DEF RecordArm, Abort, RecordIntent, RecordHandle, MarkInsertAmbiguous,
           RecordRejection, Verify, Recorded, RecordResilient
      <3> QED BY <1>1, <1>2, <2>1, <3>1 DEF Fault, Fine
    <2>4. CASE Wait(p)
      <3>1. Reconcile(p, pend[p]) \/ PollFails(p, pend[p])
        BY <2>4, Zenon DEF Wait
      <3> QED BY <1>3, <2>1, <3>1
    <2> QED BY <1>4, <2>1, <2>2, <2>3, <2>4 DEF Execute
  <1>5. ASSUME NEW p \in Proc, Cleanup(p)
        PROVE  faults' \in Nat /\ (faults' = 0 => faults = 0) /\ clock' = clock
    <2>1. clock' = clock
      BY <1>5 DEF Cleanup, StartCleanup, Iterate, GiveUp, Deadline, GetInstance, ListOwned,
         FinalConfirm, Settle, Prepare, Delete, BindDelete, MarkDeleteAmbiguous,
         RecordDenial, Orphan, counts
    <2>2. CASE \/ GiveUp(p) \/ Deadline(p) \/ GetInstance(p) \/ ListOwned(p) \/ FinalConfirm(p)
               \/ Delete(p)
      <3>1. Fault \/ Fine
        BY <2>2, Zenon DEF GiveUp, Deadline, GetInstance, ListOwned, FinalConfirm, Delete
      <3> QED BY <1>1, <2>1, <3>1 DEF Fault, Fine
    <2>3. CASE \/ StartCleanup(p) \/ Settle(p) \/ Prepare(p) \/ BindDelete(p)
               \/ MarkDeleteAmbiguous(p) \/ RecordDenial(p) \/ Orphan(p)
      <3>1. \/ Fault \/ Fine
            \/ \E l, r, t : Unrecorded(l, r, t, 0) \/ Offered(l, r, t, 0)
        BY <2>3, Zenon DEF StartCleanup, Settle, Prepare, BindDelete, MarkDeleteAmbiguous,
           RecordDenial, Orphan, Recorded, RecordResilient
      <3> QED BY <1>1, <1>2, <2>1, <3>1 DEF Fault, Fine
    <2>4. CASE Iterate(p)
      <3>1. Fine \/ Reconcile(p, Awaited(p)) \/ PollFails(p, Awaited(p))
        BY <2>4, Zenon DEF Iterate
      <3> QED BY <1>3, <2>1, <3>1 DEF Fine
    <2> QED BY <1>5, <2>1, <2>2, <2>3, <2>4 DEF Cleanup
  <1>6. ASSUME NEW p \in Proc, NEW l \in Lease,
               Reserve(p, l) \/ ReserveFails(p, l) \/ RecoverCleanup(p, l)
        PROVE  faults' \in Nat /\ (faults' = 0 => faults = 0) /\ clock' = clock
    BY <1>1, <1>6 DEF Reserve, ReserveFails, RecoverCleanup, Fault, Fine, counts
  <1>7. ASSUME NEW l \in Lease,
               RunDurationEnds(l) \/ \E o \in Operations : OperationEnds(l, o)
        PROVE  faults' \in Nat /\ (faults' = 0 => faults = 0) /\ clock' = clock
    BY <1>1, <1>7 DEF RunDurationEnds, OperationEnds, Fault, Fine, counts
  <1>8. CASE UNCHANGED vars
    BY <1>8 DEF vars, counts, StillCalm, Tick
  <1>9. CASE Tick
    BY <1>9 DEF Tick
  <1>10. ASSUME NEW p \in Proc, Crash(p)
         PROVE  faults' \in Nat /\ (faults' = 0 => faults = 0) /\ clock' = clock
    BY <1>1, <1>10 DEF Crash, Fault, counts
  <1>11. CASE ~Tick /\ Next
    <2>1. faults' \in Nat /\ (faults' = 0 => faults = 0) /\ clock' = clock
      BY <1>4, <1>5, <1>6, <1>7, <1>10, <1>11 DEF Next
    <2> QED BY <1>11, <2>1 DEF StillCalm
  <1> QED BY <1>8, <1>9, <1>11

LEMMA CalmBegins == Init => CalmIInv
  <1> SUFFICES ASSUME Init PROVE CalmIInv
    OBVIOUS
  <1>1. \A l \in Lease, o \in Operations : ops[l][o] = "none"
    BY DEF Init
  <1>2. \A l \in Lease : prefix[l] = "none" /\ head[l] = Initial
    BY DEF Init
  <1>3. \A p \in Proc : at[p] = NoLease /\ mem[p] = Initial /\ pend[p] = NoOp
    BY DEF Init
  <1>4. /\ stamp \in [Lease -> {0}] /\ now \in [Proc -> {0}] /\ loops \in [Proc -> Int]
        /\ event = [l \in Lease |-> event[l]] /\ vm = disk
    BY DEF Init
  <1>5. Calm
    BY <1>1, <1>2, <1>3, <1>4, LeaseAssumption DEF Calm, Unresolved, Operations
  <1> QED BY <1>5 DEF Init, CalmIInv

LEMMA CalmStays == LeaseIInv /\ BudgetIInv /\ CalmIInv /\ [Next]_vars => CalmIInv'
  <1> SUFFICES ASSUME LeaseIInv, BudgetIInv, CalmIInv, [Next]_vars, faults' = 0, clock' = 0
               PROVE  Calm'
    BY FaultsStay DEF CalmIInv
  <1>1. StillCalm /\ ~Tick /\ Calm
    <2>1. StillCalm /\ ~Tick
      BY FaultsStay DEF CalmIInv
    <2> QED BY <2>1 DEF StillCalm, CalmIInv
  <1>2. ASSUME NEW p \in Proc, NEW l \in Lease,
               Reserve(p, l) \/ ReserveFails(p, l) \/ RecoverCleanup(p, l)
        PROVE  Calm'
    BY <1>1, <1>2, BeginningsAreCalm
  <1>3. ASSUME NEW p \in Proc, Execute(p) \/ Cleanup(p)
        PROVE  Calm'
    <2>1. pc[p] # "idle"
      BY <1>3 DEF Execute, ConsumeArm, ConsumeArmFails, RecordArm, Precheck, Abort, RecordIntent,
         Insert, RecordHandle, MarkInsertAmbiguous, RecordRejection, Wait, Verify, Work,
         Cleanup, StartCleanup, Iterate, GiveUp, Deadline, GetInstance, ListOwned,
         FinalConfirm, Settle, Prepare, Delete, BindDelete, MarkDeleteAmbiguous,
         RecordDenial, Orphan
    <2>2. Moved(p) /\ Tracked(p)
      BY <1>1, <1>3, ExecuteMoves, CleanupMoves, ExecuteIsTracked, CleanupIsTracked
    <2> QED BY <1>1, <2>1, <2>2, MovingIsCalm
  <1>4. ASSUME NEW p \in Proc, Crash(p)
        PROVE  FALSE
    BY <1>1, <1>4 DEF Crash, Fault, Faults, StillCalm
  <1>5. ASSUME NEW l \in Lease,
               RunDurationEnds(l) \/ \E o \in Operations : OperationEnds(l, o)
        PROVE  Calm'
    BY <1>1, <1>5, ProviderIsCalm
  <1>6. CASE UNCHANGED vars
    <2>1. /\ UNCHANGED <<prefix, head, event, stamp, vm, disk, ops, pc, at, mem>>
          /\ UNCHANGED <<pend, loops, seen, now, shared>>
      BY <1>6 DEF vars, journal, provider, locals, counts
    <2>2. \A q \in Proc : OnTrack(q) => OnTrack(q)'
      BY <2>1, TrackStays DEF Stays
    <2> QED BY <1>1, <2>1, <2>2 DEF Calm, Unresolved
  <1> QED BY <1>1, <1>2, <1>3, <1>4, <1>5, <1>6 DEF Next

(* A lease is left behind unresolved only after something failed, two      *)
(* controllers worked on it at once, or a second passed: where nothing     *)
(* does, whoever reserves a lease takes it to CLEANUP_CONFIRMED, through   *)
(* records each of which the journal accepts after the one before.         *)
THEOREM LeftoversAreFaults == Spec => []LeftoversNeedAFault
  <1>1. CalmIInv => LeftoversNeedAFault
    BY DEF CalmIInv, Calm, LeftoversNeedAFault
  <1> QED BY <1>1, LeaseInvariant, BudgetBegins, BudgetStays, CalmBegins, CalmStays, PTL DEF Spec
=============================================================================
