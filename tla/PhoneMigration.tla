---------------------------- MODULE PhoneMigration ----------------------------
(***************************************************************************)
(* cmd/migrate-phone beside a server that already runs with the new key    *)
(* and pepper.  A run reads batches of rows in id order and updates row by *)
(* row from what it read; it may crash anywhere and be started again, also *)
(* while another run is going on.                                          *)
(***************************************************************************)
EXTENDS Account

CONSTANTS
    Runs,           \* processes of the command
    RowsPerBatch,   \* batchSize
    MaxStarts       \* bound on how often the command is started

ASSUME MigrationAssumption ==
    /\ RowsPerBatch \in Nat \ {0}
    /\ MaxStarts \in Nat

VARIABLES
    run,        \* run[m]: the state of process m
    starts      \* number of times the command was started

migrationVars == <<run, starts>>
vars == <<accountVars, migrationVars>>

Off == [step |-> "off"]

TypeOK ==
    /\ AccountTypeOK
    /\ \A m \in Runs : run[m].step \in {"off", "fetch", "rows", "done"}
    /\ starts \in 0..MaxStarts

Init ==
    /\ AccountInit
    /\ run = [m \in Runs |-> Off]
    /\ starts = 0

\* main: nothing to do without key and pepper.
Start(m, dryRun) ==
    /\ run[m].step \in {"off", "done"}
    /\ starts < MaxStarts
    /\ starts' = starts + 1
    /\ Key # None \/ Pepper # None
    /\ run' = [run EXCEPT ![m] = [step |-> "fetch", dry |-> dryRun, last |-> 0,
                                  batch |-> <<>>, errors |-> FALSE]]
    /\ UNCHANGED accountVars

\* The rows after id last, in order, at most RowsPerBatch of them.
BatchAfter(last) ==
    LET n == IF Len(users) - last < RowsPerBatch THEN Len(users) - last ELSE RowsPerBatch
    IN  [i \in 1..n |-> [id |-> last + i, row |-> users[last + i]]]

Done(m) == [run EXCEPT ![m] = [step |-> "done", dry |-> @.dry, errors |-> @.errors]]

\* An empty batch ends the loop.
FetchBatch(m) ==
    LET batch == BatchAfter(run[m].last)
    IN  /\ run[m].step = "fetch"
        /\ run' = IF batch = <<>> THEN Done(m)
                  ELSE [run EXCEPT ![m].step = "rows", ![m].batch = batch]
        /\ UNCHANGED <<accountVars, starts>>

\* Variant: ciphertext is not recognised.
PlainOfUnchecked(layers) == layers

\* What computeUpdates takes for the phone number: the decrypted value, or the
\* stored one if it does not decrypt or there is no key.
PlainOf(layers) ==
    IF Key # None /\ Decryptable(layers, Key) THEN Tail(layers) ELSE layers

\* Variant: the hash is taken of the wrong column.
UpdatedWrongHash(row) ==
    LET plain == PlainOf(row.enc)
    IN  [phone |-> row.phone,
         enc |-> IF Key # None /\ plain = row.enc THEN Encrypt(plain, Key) ELSE row.enc,
         hash |-> Hash(None, plain, Pepper)]

\* The row computeUpdates asks for.
Updated(row) ==
    LET plain == PlainOf(row.enc)
    IN  [phone |-> row.phone,
         enc |-> IF Key # None /\ plain = row.enc THEN Encrypt(plain, Key) ELSE row.enc,
         hash |-> Hash(row.phone, plain, Pepper)]

\* phone_hash of row i would collide with another row.
Collides(i, hash) == \E j \in DOMAIN users : j # i /\ users[j].hash = hash

\* Variant: the error of an UPDATE is not counted.
AfterRowUncounted(m, failed) ==
    LET b == run[m].batch
        id == Head(b).id
    IN  IF Len(b) > 1 THEN [run EXCEPT ![m].batch = Tail(b)]
        ELSE IF id - run[m].last = RowsPerBatch
        THEN [run EXCEPT ![m].step = "fetch", ![m].last = id, ![m].batch = <<>>]
        ELSE [run EXCEPT ![m] = [step |-> "done", dry |-> @.dry, errors |-> @.errors]]

\* After the last row of a batch: on to the next, or out if it was not full.
AfterRow(m, failed) ==
    LET b == run[m].batch
        err == run[m].errors \/ failed
        id == Head(b).id
    IN  IF Len(b) > 1 THEN [run EXCEPT ![m].batch = Tail(b), ![m].errors = err]
        ELSE IF id - run[m].last = RowsPerBatch
        THEN [run EXCEPT ![m].step = "fetch", ![m].last = id, ![m].batch = <<>>,
                         ![m].errors = err]
        ELSE [run EXCEPT ![m] = [step |-> "done", dry |-> @.dry, errors |-> err]]

\* One row: skipped if up to date or in a dry run, else one UPDATE of the
\* columns that change, which fails on a duplicate phone_hash.
MigrateRow(m) ==
    LET u == Head(run[m].batch)
        new == Updated(u.row)
        change == new # u.row /\ ~run[m].dry
        clash == change /\ new.hash # u.row.hash /\ Collides(u.id, new.hash)
        cur == users[u.id]
    IN  /\ run[m].step = "rows"
        /\ IF change /\ ~clash
             THEN users' = [users EXCEPT ![u.id] =
                        [phone |-> cur.phone,
                         enc |-> IF new.enc # u.row.enc THEN new.enc ELSE cur.enc,
                         hash |-> IF new.hash # u.row.hash THEN new.hash ELSE cur.hash]]
             ELSE UNCHANGED users
        /\ run' = AfterRow(m, clash)
        /\ UNCHANGED <<smsVars, reqVars, faults, historyVars, starts>>

\* The UPDATE fails for another reason: counted, and on to the next row.
MigrateRowFails(m) ==
    /\ Fault
    /\ run[m].step = "rows"
    /\ ~run[m].dry
    /\ Updated(Head(run[m].batch).row) # Head(run[m].batch).row
    /\ run' = AfterRow(m, TRUE)
    /\ UNCHANGED <<smsVars, users, reqVars, historyVars, starts>>

\* The process dies, or a fetch fails.
Crash(m) ==
    /\ run[m].step \in {"fetch", "rows"}
    /\ run' = [run EXCEPT ![m] = Off]
    /\ UNCHANGED <<accountVars, starts>>

MigrationStep(m) == FetchBatch(m) \/ MigrateRow(m)

Next ==
    \/ AccountNext /\ UNCHANGED migrationVars
    \/ \E m \in Runs :
          \/ \E dryRun \in BOOLEAN : Start(m, dryRun)
          \/ MigrationStep(m)
          \/ MigrateRowFails(m)
          \/ Crash(m)

Spec == Init /\ [][Next]_vars

-----------------------------------------------------------------------------
(* Properties *)

\* main.go:6, "Idempotent": whatever runs crashed, were repeated or overlapped,
\* no phone is encrypted twice and no hash is one of ciphertext, so GetMyProfile
\* can still read every phone and Login can find it.
PhoneReadable ==
    \A i \in DOMAIN users : users[i].enc \in {<<>>, <<Key>>} /\ users[i].hash.layers = <<>>

\* A real run that reports no errors has brought every row up to date, those
\* included that other runs and logins wrote meanwhile.
MigrationComplete ==
    \A m \in Runs :
        run[m].step = "done" /\ ~run[m].dry /\ ~run[m].errors =>
            \A i \in DOMAIN users : Updated(users[i]) = users[i]

\* A phone has one account.  The exception is the race between the command and
\* a server with the new pepper: a user who logs in before his row is re-hashed
\* is not found and registered again (user_service.go:177).
OneAccountPerPhone ==
    \A i, j \in DOMAIN users :
        users[i].phone = users[j].phone /\ users[i].phone \notin early => i = j

=============================================================================
