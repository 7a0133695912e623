------------------------- MODULE AllocationReceipts -------------------------
(* Durable receipts of geographic allocations: the bank in the engine      *)
(* (geo_allocation_recovery.rs) and the attempts of its hosts              *)
(* (_geo_allocation_recovery.py, with the owners of _geo_overview_source.py *)
(* that retry, dispose and release).  A call to the engine may be lost on  *)
(* its way, or its reply on the way back; an attempt is then uncertain and *)
(* is repeated with the same nonce.  Each issuer is asked for one kind of  *)
(* allocation.                                                             *)
EXTENDS Naturals, FiniteSets

CONSTANTS
    Issuers,    \* retained data that allocations are made from
    MaxNonce,   \* bound: how often each issuer may be asked
    Slots,      \* SLOTS
    NoTarget

ASSUME BoundsAssumption == MaxNonce \in [Issuers -> Nat] /\ Slots \in Nat

Nonces == UNION {1..MaxNonce[i] : i \in Issuers}

(* An allocation that was made and its target: handles are never reused.   *)
(* A nonce should be born once; were it born again, the copies tell.       *)
Births == [issuer : Issuers, nonce : Nonces, copy : Nat]

ASSUME NoTargetAssumption == NoTarget \notin Births

VARIABLES
    issuers,    \* those not disposed of yet
    live,       \* births whose target is in the registry, in its phase
    made,       \* how often each nonce has been executed
    receipts,   \* Bank::receipts
    stamps,     \* Bank::stamps
    slot,       \* a host's slot of each issuer
    attempt     \* and its attempts, by nonce

bank == <<live, made, receipts, stamps>>
receiptVars == <<issuers, bank, slot, attempt>>

Stamped(b) == \E s \in stamps : s.birth = b
AllocationLive(b) == b \in live /\ Stamped(b)
ReceiptsOf(i) == {r \in receipts : r.birth.issuer = i}
-----------------------------------------------------------------------------
(* The bank.  Every command ends with collect().                           *)
Commit(newReceipts, newStamps, newLive) ==
    /\ receipts' = newReceipts /\ live' = newLive
    /\ stamps' = {s \in newStamps : s.forgotten => s.birth \in newLive}

\* Mutant: only a receipt that was confirmed is replayed.
ReplaysConfirmed(i, n) == {r.birth : r \in {r \in ReceiptsOf(i) : r.birth.nonce = n /\ r.confirmed}}

(* A request with a nonce that has a receipt is answered from it.          *)
Replays(i, n) == {r.birth : r \in {r \in ReceiptsOf(i) : r.birth.nonce = n}}

(* An older nonce is stale, and a newer one until the last was confirmed.  *)
Stale(i, n) == \E r \in ReceiptsOf(i) : n < r.birth.nonce \/ (n > r.birth.nonce /\ ~r.confirmed)

(* The receipt replaces the issuer's or takes a free slot; a stamp is free. *)
HasRoom(i) ==
    /\ ReceiptsOf(i) # {} \/ Cardinality(receipts) < Slots
    /\ Cardinality(stamps) < Slots

NewBirth(i, n) == [issuer |-> i, nonce |-> n, copy |-> made[i][n] + 1]

(* A new nonce is executed, its stamp and receipt are written.             *)
Allocated(i, n) ==
    LET b == NewBirth(i, n) IN
    /\ Replays(i, n) = {} /\ ~Stale(i, n) /\ HasRoom(i) /\ i \in issuers
    /\ made' = [made EXCEPT ![i][n] = @ + 1]
    /\ Commit((receipts \ ReceiptsOf(i)) \cup {[birth |-> b, confirmed |-> FALSE]},
              stamps \cup {[birth |-> b, confirmed |-> FALSE, forgotten |-> FALSE]},
              live \cup {b})

(* The birth an acknowledgement is about: by nonce if it has a receipt, by *)
(* its exact target if only a stamp is left.                               *)
Subject(i, n, target) ==
    IF Replays(i, n) # {}
    THEN {b \in Replays(i, n) : target = b \/ (target = NoTarget /\ ~AllocationLive(b))}
    ELSE {s.birth : s \in {s \in stamps : s.birth = target}}

Confirms(b) ==
    /\ Commit({IF r.birth = b THEN [r EXCEPT !.confirmed = TRUE] ELSE r : r \in receipts},
              {IF s.birth = b THEN [s EXCEPT !.confirmed = TRUE] ELSE s : s \in stamps}, live)
    /\ UNCHANGED made

(* Was it confirmed?  The receipt decides, or the stamp if there is none.  *)
IsConfirmed(i, n, b) ==
    IF Replays(i, n) # {} THEN \E r \in receipts : r.birth = b /\ r.confirmed
    ELSE \E s \in stamps : s.birth = b /\ s.confirmed

(* Action 2, of a birth that is no longer live: its stamp is given up.     *)
(* Repeated, it finds nothing and says yes again.                          *)
Releases(i, n, target) ==
    /\ \/ /\ Replays(i, n) = {} /\ target # NoTarget /\ Subject(i, n, target) = {}
          /\ Commit(receipts, stamps, live)
       \/ \E b \in Subject(i, n, target) :
            /\ ~AllocationLive(b) /\ IsConfirmed(i, n, b)
            /\ Commit(receipts, {s \in stamps : s.birth # b}, live)
    /\ UNCHANGED made

(* Action 1, once the issuer is gone: the receipt is given up.             *)
Forgets(i, n, target) ==
    /\ \/ Replays(i, n) = {} /\ Commit(receipts, stamps, live)
       \/ /\ Replays(i, n) # {}
          /\ \E b \in Subject(i, n, target) :
               /\ IsConfirmed(i, n, b) /\ i \notin issuers
               /\ Commit({r \in receipts : r.birth # b},
                         {IF s.birth = b THEN [s EXCEPT !.forgotten = TRUE] ELSE s : s \in stamps},
                         live)
    /\ UNCHANGED made

(* Another command ends the phase a target was allocated for: the session  *)
(* it began is superseded, or the query it is becomes a publication.       *)
Retire(b) ==
    /\ b \in live /\ Commit(receipts, stamps, live \ {b})
    /\ UNCHANGED <<issuers, made, slot, attempt>>
-----------------------------------------------------------------------------
(* The host.  An attempt is captured before its request is sent, when the  *)
(* one before it was settled.                                              *)
FreshAttempt(phase) ==
    [phase |-> phase, target |-> NoTarget, uncertain |-> FALSE, retired |-> FALSE,
     confirmed |-> FALSE, asked |-> FALSE, disposed |-> FALSE]

Settled(x) == x.phase = "rejected" \/ (x.confirmed /\ (x.retired => x.phase = "closed"))

BeginAttempt(i) ==
    LET n == slot[i].nonce + 1 IN
    /\ i \in issuers /\ n <= MaxNonce[i] /\ (n > 1 => Settled(attempt[i][n - 1]))
    /\ slot' = [slot EXCEPT ![i].nonce = n]
    /\ attempt' = [attempt EXCEPT ![i][n] = FreshAttempt("admitting")]
    /\ UNCHANGED <<issuers, bank>>

(* What an attempt becomes when its request is answered, or the answer is  *)
(* lost.  (Later calls make it uncertain too, which by then says nothing.) *)
Becomes(i, n, got, x) ==
    attempt' = [attempt EXCEPT ![i][n] = IF got THEN x ELSE [@ EXCEPT !.uncertain = TRUE]]

(* recover(): the request itself, first or again.  It is answered from the *)
(* receipt, is executed, is refused or never gets there.  A refusal is     *)
(* final only if no earlier request may have been executed.                *)
Asks(i, n) ==
    LET x == attempt[i][n] IN x.phase = "admitting" /\ x.target = NoTarget /\ ~x.retired

Replay(i, n, got) ==
    /\ Asks(i, n)
    /\ \E b \in Replays(i, n) :
         Becomes(i, n, got, IF AllocationLive(b) THEN [attempt[i][n] EXCEPT !.target = b]
                            ELSE [attempt[i][n] EXCEPT !.retired = TRUE])
    /\ UNCHANGED <<issuers, bank, slot>>

Allocate(i, n, got) ==
    /\ Asks(i, n) /\ Allocated(i, n)
    /\ Becomes(i, n, got, [attempt[i][n] EXCEPT !.target = NewBirth(i, n)])
    /\ UNCHANGED <<issuers, slot>>

Refuse(i, n, got) ==
    /\ Asks(i, n) /\ Replays(i, n) = {}
    /\ Becomes(i, n, got, IF attempt[i][n].uncertain THEN attempt[i][n]
                          ELSE [attempt[i][n] EXCEPT !.phase = "rejected"])
    /\ UNCHANGED <<issuers, bank, slot>>

NeverSent(i, n) ==
    /\ Asks(i, n) /\ Becomes(i, n, FALSE, attempt[i][n])
    /\ UNCHANGED <<issuers, bank, slot>>

(* recover(), the confirmation that follows.  From now on the slot's       *)
(* journal is this attempt.                                                *)
Confirm(i, n, got) ==
    LET x == attempt[i][n] IN
    /\ x.phase = "admitting" /\ (x.target # NoTarget \/ x.retired) /\ ~x.confirmed
    /\ \E b \in Subject(i, n, x.target) :
         /\ Confirms(b)
         /\ attempt' = IF ~got THEN attempt
                       ELSE [attempt EXCEPT ![i][n].confirmed = TRUE,
                                            ![i][n].retired = ~AllocationLive(b),
                                            ![i][n].phase = IF AllocationLive(b) THEN "open" ELSE @]
    /\ slot' = [slot EXCEPT ![i].journal = IF got THEN n ELSE @]
    /\ UNCHANGED issuers

(* close() of what was allocated: disposal is asked for; if that failed,   *)
(* the next close() asks first whether it happened nonetheless.  A target  *)
(* whose phase was retired may be gone, or be there in another phase.      *)
BeginClose(i, n) ==
    /\ attempt[i][n].phase = "open"
    /\ attempt' = [attempt EXCEPT ![i][n].phase = "closing"]
    /\ UNCHANGED <<issuers, bank, slot>>

DisposeAttempt(i, n, got) ==
    LET x == attempt[i][n] IN
    /\ x.phase = "closing" /\ ~x.disposed /\ ~x.asked
    /\ IF x.target \in live THEN Commit(receipts, stamps, live \ {x.target}) /\ UNCHANGED made
       ELSE UNCHANGED bank
    /\ \E there \in BOOLEAN :
         /\ x.target \in live => there
         /\ attempt' = [attempt EXCEPT ![i][n].asked = TRUE, ![i][n].disposed = got /\ there]
    /\ UNCHANGED <<issuers, slot>>

ProbeRetirement(i, n, got) ==
    LET x == attempt[i][n] IN
    /\ x.phase = "closing" /\ ~x.disposed /\ x.asked
    /\ \E b \in Subject(i, n, x.target) :
         /\ Confirms(b)
         /\ attempt' = [attempt EXCEPT ![i][n] =
                IF ~got THEN @
                ELSE IF AllocationLive(b) THEN [@ EXCEPT !.asked = FALSE]
                ELSE [@ EXCEPT !.retired = TRUE, !.disposed = TRUE]]
    /\ UNCHANGED <<issuers, slot>>

(* release(), when what was allocated is gone.                             *)
ReleaseAttempt(i, n, got) ==
    LET x == attempt[i][n] IN
    /\ \/ x.phase = "admitting" /\ x.retired /\ x.confirmed
       \/ x.phase = "closing" /\ x.disposed
    /\ Releases(i, n, x.target)
    /\ attempt' = [attempt EXCEPT ![i][n] =
            IF got THEN [@ EXCEPT !.phase = "closed"] ELSE @]
    /\ UNCHANGED <<issuers, slot>>

(* The issuer is disposed of.  Only if that is acknowledged will its       *)
(* receipts be forgotten.                                                  *)
CloseIssuer(i, got) ==
    /\ i \in issuers /\ issuers' = issuers \ {i}
    /\ slot' = [slot EXCEPT ![i].dead = got]
    /\ UNCHANGED <<bank, attempt>>

\* Mutant: the newest attempt is forgotten, also if it was rejected.
JournalNewest(i) == slot[i].nonce

Journal(i) == slot[i].journal

(* forget(): at the disposal of the issuer or at the release that comes    *)
(* after it, for the attempt whose receipt the bank still has.  Repeated,  *)
(* it finds nothing to do.                                                 *)
Forget(i, n) ==
    /\ slot[i].dead /\ Journal(i) = n /\ attempt[i][n].phase = "closed"
    /\ Forgets(i, n, attempt[i][n].target)
    /\ UNCHANGED <<issuers, slot, attempt>>
-----------------------------------------------------------------------------
ReceiptsInit ==
    /\ issuers = Issuers /\ live = {} /\ receipts = {} /\ stamps = {}
    /\ made = [i \in Issuers |-> [n \in Nonces |-> 0]]
    /\ slot = [i \in Issuers |-> [nonce |-> 0, dead |-> FALSE, journal |-> 0]]
    /\ attempt = [i \in Issuers |-> [n \in Nonces |-> FreshAttempt("none")]]

Recover(i, n, got) == Replay(i, n, got) \/ Allocate(i, n, got) \/ Refuse(i, n, got) \/ Confirm(i, n, got)
Close(i, n, got) ==
    DisposeAttempt(i, n, got) \/ ProbeRetirement(i, n, got) \/ ReleaseAttempt(i, n, got) \/ Forget(i, n)

ReceiptsNext ==
    \/ \E b \in live : Retire(b)
    \/ \E i \in Issuers : BeginAttempt(i) \/ \E got \in BOOLEAN : CloseIssuer(i, got)
    \/ \E i \in Issuers, n \in Nonces : NeverSent(i, n) \/ BeginClose(i, n)
    \/ \E i \in Issuers, n \in Nonces, got \in BOOLEAN : Recover(i, n, got) \/ Close(i, n, got)

(* A host that closes repeats the call that failed, and not every reply is *)
(* lost.  Nobody need close.                                               *)
ReceiptsSpec == ReceiptsInit /\ [][ReceiptsNext]_receiptVars
ReceiptsFairSpec == ReceiptsSpec /\ \A i \in Issuers, n \in Nonces : WF_receiptVars(Close(i, n, TRUE))
-----------------------------------------------------------------------------
(* Type invariant.                                                         *)
ReceiptsTypeOK ==
    /\ issuers \subseteq Issuers /\ live \subseteq Births
    /\ made \in [Issuers -> [Nonces -> Nat]]
    /\ receipts \subseteq [birth : Births, confirmed : BOOLEAN] /\ Cardinality(receipts) <= Slots
    /\ stamps \subseteq [birth : Births, confirmed : BOOLEAN, forgotten : BOOLEAN]
    /\ Cardinality(stamps) <= Slots
    /\ slot \in [Issuers -> [nonce : Nonces \cup {0}, dead : BOOLEAN, journal : Nonces \cup {0}]]
    /\ attempt \in [Issuers -> [Nonces ->
          [phase : {"none", "admitting", "rejected", "open", "closing", "closed"},
           target : Births \cup {NoTarget}, uncertain : BOOLEAN, retired : BOOLEAN, confirmed : BOOLEAN,
           asked : BOOLEAN, disposed : BOOLEAN]]]

(* However often a request is repeated, its nonce is executed once; what   *)
(* the host believes is what happened, and an attempt it gives up as       *)
(* rejected has not allocated; a nonce is confirmed before the next one is *)
(* executed.                                                               *)
BornOnce ==
    \A i \in Issuers, n \in Nonces : LET x == attempt[i][n] IN
        /\ made[i][n] <= 1
        /\ x.target # NoTarget => x.target = [issuer |-> i, nonce |-> n, copy |-> 1] /\ made[i][n] = 1
        /\ x.phase \in {"none", "rejected"} => made[i][n] = 0
        /\ x.confirmed => made[i][n] = 1
        /\ n - 1 \in Nonces /\ made[i][n] = 1 /\ made[i][n - 1] = 1 => attempt[i][n - 1].confirmed

(* Nothing that was allocated is orphaned: whatever replies were lost, its *)
(* host holds its handle, or is still at an attempt whose next request     *)
(* will be told; and the stamp that lets it be cleaned up is there.        *)
NothingOrphaned ==
    \A b \in live : LET x == attempt[b.issuer][b.nonce] IN
        /\ Stamped(b)
        /\ \/ x.phase \in {"open", "closing"} /\ x.target = b
           \/ x.phase = "admitting" /\ \E r \in receipts : r.birth = b

ReceiptsConsistent == ReceiptsTypeOK /\ BornOnce /\ NothingOrphaned

(* Once the disposal of an issuer was acknowledged and what was allocated  *)
(* from it is being closed, its births leave the bank: no stamp and no     *)
(* receipt is kept for ever, whatever calls to release it were lost.       *)
BankDrains ==
    \A i \in Issuers :
        (slot[i].dead /\ \A n \in Nonces : attempt[i][n].phase \notin {"admitting", "open"})
            ~> ReceiptsOf(i) = {} /\ \A s \in stamps : s.birth.issuer # i
=============================================================================
