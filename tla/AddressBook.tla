----------------------------- MODULE AddressBook -----------------------------
(***************************************************************************)
(* internal/hypertrader: the traders a user follows, in groups.  A request  *)
(* is one call of the store, except that a batch creates its addresses one  *)
(* after the other and that PostgresStore.UpdateAddress reads the row,      *)
(* merges the fields it was given and writes all of them back.  MemoryStore *)
(* does each call under one lock.                                           *)
(***************************************************************************)
EXTENDS Naturals, Sequences

CONSTANTS
  Calls,       \* handler goroutines
  AddressIds,  \* ids that are given to addresses
  Seeded,      \* those of the seeded addresses
  GroupIds,    \* group ids
  Default,     \* the id of the seeded group
  Remarks,     \* remark names, "" among them
  Requests,    \* what clients send
  MaxFailures, \* bound on failed statements and restarts
  None         \* an absent row or request

RequestType(r) ==
  CASE r.op = "createGroup"   -> r.isDefault \in BOOLEAN
    [] r.op = "updateGroup"   -> r.id \in GroupIds /\ r.isDefault \in BOOLEAN
    [] r.op = "deleteGroup"   -> r.id \in GroupIds
    [] r.op = "create"        -> /\ r.addresses \in Seq({"", "0x"}) /\ r.remark \in Remarks
                                 /\ r.groups \subseteq GroupIds
    [] r.op = "update"        -> r.id \in AddressIds /\ r.remark \in Remarks /\ r.groups \subseteq GroupIds
    [] r.op = "delete"        -> r.id \in AddressIds
    [] OTHER                  -> FALSE

ASSUME BookAssumption ==
  /\ MaxFailures \in Nat /\ Default \in GroupIds /\ Seeded \subseteq AddressIds
  /\ "" \in Remarks /\ None \notin Requests
  /\ \A r \in Requests : RequestType(r)

VARIABLES
  store,      \* "memory" or "postgres": which Store main.go wired
  groups,     \* id -> "plain" or "default" (is_default), or None
  addresses,  \* id -> row, or None
  calls,      \* goroutine -> its request, how far it is and the row it read
  failures,   \* failures so far
  used,       \* history: ids that were given
  asked,      \* history: the fields as clients last set them
  raced       \* history: addresses written while another update had read them

history == <<used, asked, raced>>

vars == <<store, groups, addresses, calls, failures, history>>

\* The groups of an address are ids, of groups that may be gone.
Row == [remark: Remarks, groups: SUBSET GroupIds]

Idle == [req |-> None, done |-> 0, row |-> None]

Request(c) == calls[c].req

Asks(c, op) == Request(c) # None /\ Request(c).op = op

\* Every address is in some group or other.
TypeOK ==
  /\ store \in {"memory", "postgres"}
  /\ groups \in [GroupIds -> {"plain", "default", None}]
  /\ addresses \in [AddressIds -> Row \cup {None}]
  /\ calls \in [Calls -> [req: Requests \cup {None}, done: Nat, row: Row \cup {None}]]
  /\ failures \in 0 .. MaxFailures
  /\ used \subseteq AddressIds /\ raced \subseteq AddressIds
  /\ asked \in [AddressIds -> Row \cup {None}]
  /\ \A id \in AddressIds : addresses[id] # None => id \in used /\ addresses[id].groups # {}

FirstRow == [remark |-> "", groups |-> {Default}]

\* Both stores are seeded, Postgres by a migration.
Init ==
  /\ store \in {"memory", "postgres"}
  /\ groups = [g \in GroupIds |-> IF g = Default THEN "default" ELSE None]
  /\ addresses = [id \in AddressIds |-> IF id \in Seeded THEN FirstRow ELSE None]
  /\ calls = [c \in Calls |-> Idle]
  /\ failures = 0
  /\ used = Seeded
  /\ asked = addresses
  /\ raced = {}

End(c) == calls' = [calls EXCEPT ![c] = Idle]

-----------------------------------------------------------------------------
\* Groups.

Marked(isDefault) == IF isDefault THEN "default" ELSE "plain"

CreateGroup(c) ==
  /\ Asks(c, "createGroup") /\ End(c)
  /\ \E g \in GroupIds : groups[g] = None
       /\ groups' = [groups EXCEPT ![g] = Marked(Request(c).isDefault)]
  /\ UNCHANGED <<store, addresses, failures, history>>

UpdateGroup(c) ==
  /\ Asks(c, "updateGroup") /\ End(c)
  /\ groups' = [groups EXCEPT ![Request(c).id] =
                  IF @ = None THEN None ELSE Marked(Request(c).isDefault)]
  /\ UNCHANGED <<store, addresses, failures, history>>

\* Only PostgresStore keeps default groups; neither looks at the addresses.
DeleteGroup(c) ==
  /\ Asks(c, "deleteGroup") /\ End(c)
  /\ groups' = [groups EXCEPT ![Request(c).id] =
                  IF store = "postgres" /\ @ = "default" THEN @ ELSE None]
  /\ UNCHANGED <<store, addresses, failures, history>>

-----------------------------------------------------------------------------
\* Addresses.

\* Broken variant: no group is filled in.
CreatedAsAsked(r) == [remark |-> r.remark, groups |-> r.groups]

Created(r) == [remark |-> r.remark,
               groups |-> IF r.groups = {} THEN {Default} ELSE r.groups]

More(c) == Asks(c, "create") /\ calls[c].done < Len(Request(c).addresses)

\* The next address of the request; a blank one is skipped.
CreateAddress(c) ==
  /\ More(c)
  /\ calls' = [calls EXCEPT ![c].done = @ + 1]
  /\ IF Request(c).addresses[calls[c].done + 1] = "" THEN UNCHANGED <<addresses, history>>
     ELSE \E id \in AddressIds \ used :
            /\ addresses' = [addresses EXCEPT ![id] = Created(Request(c))]
            /\ asked' = [asked EXCEPT ![id] = Created(Request(c))]
            /\ used' = used \cup {id}
            /\ UNCHANGED raced
  /\ UNCHANGED <<store, groups, failures>>

\* A statement of a batch fails and the next address is tried.
SkipAddress(c) ==
  /\ More(c) /\ store = "postgres"
  /\ failures < MaxFailures /\ failures' = failures + 1
  /\ calls' = [calls EXCEPT ![c].done = @ + 1]
  /\ UNCHANGED <<store, groups, addresses, history>>

CreateDone(c) ==
  /\ Asks(c, "create") /\ ~More(c) /\ End(c)
  /\ UNCHANGED <<store, groups, addresses, failures, history>>

\* Broken variant: an update without groups takes the address out of all.
MergedGroups(row, r) ==
  [remark |-> IF r.remark = "" THEN row.remark ELSE r.remark, groups |-> r.groups]

\* A row with the fields an update gives.
Merged(row, r) ==
  [remark |-> IF r.remark = "" THEN row.remark ELSE r.remark,
   groups |-> IF r.groups = {} THEN row.groups ELSE r.groups]

Blank == [remark |-> "", groups |-> {}]

\* A row with every field of a request that is not blank.
Given(row, r) == [f \in DOMAIN Blank |-> IF r[f] = Blank[f] THEN row[f] ELSE r[f]]

Updating(c) == {d \in Calls \ {c} : calls[d].row # None /\ Request(d).id = Request(c).id}

\* What an update writes.
Put(c, row) ==
  LET id == Request(c).id IN
  /\ addresses' = [addresses EXCEPT ![id] = row]
  /\ asked' = [asked EXCEPT ![id] = Given(@, Request(c))]
  /\ raced' = IF Updating(c) = {} THEN raced ELSE raced \cup {id}
  /\ UNCHANGED used

Present(c) == addresses[Request(c).id] # None

UpdateInMemory(c) ==
  /\ Asks(c, "update") /\ store = "memory" /\ End(c)
  /\ IF Present(c) THEN Put(c, Merged(addresses[Request(c).id], Request(c)))
     ELSE UNCHANGED <<addresses, history>>
  /\ UNCHANGED <<store, groups, failures>>

\* getAddress.
ReadAddress(c) ==
  /\ Asks(c, "update") /\ store = "postgres" /\ calls[c].row = None
  /\ IF Present(c) THEN calls' = [calls EXCEPT ![c].row = addresses[Request(c).id]] ELSE End(c)
  /\ UNCHANGED <<store, groups, addresses, failures, history>>

\* Broken variant: the row is inserted when there is none.
WriteAddressUpsert(c) ==
  /\ Asks(c, "update") /\ calls[c].row # None /\ End(c)
  /\ Put(c, Merged(calls[c].row, Request(c)))
  /\ UNCHANGED <<store, groups, failures>>

\* The UPDATE, of a row that may have changed or gone.
WriteAddress(c) ==
  /\ Asks(c, "update") /\ calls[c].row # None /\ End(c)
  /\ IF Present(c) THEN Put(c, Merged(calls[c].row, Request(c)))
     ELSE UNCHANGED <<addresses, history>>
  /\ UNCHANGED <<store, groups, failures>>

DeleteAddress(c) ==
  /\ Asks(c, "delete") /\ End(c)
  /\ addresses' = [addresses EXCEPT ![Request(c).id] = None]
  /\ UNCHANGED <<store, groups, failures, history>>

-----------------------------------------------------------------------------
Ask(c, r) ==
  /\ calls[c] = Idle
  /\ calls' = [calls EXCEPT ![c].req = r]
  /\ UNCHANGED <<store, groups, addresses, failures, history>>

\* A statement fails and its request with it.
Fails(c) ==
  /\ store = "postgres" /\ Request(c) # None /\ ~Asks(c, "create")
  /\ failures < MaxFailures /\ failures' = failures + 1
  /\ End(c)
  /\ UNCHANGED <<store, groups, addresses, history>>

\* The service restarts; with the memory store another behaviour begins.
Crash ==
  /\ store = "postgres"
  /\ failures < MaxFailures /\ failures' = failures + 1
  /\ calls' = [c \in Calls |-> Idle]
  /\ UNCHANGED <<store, groups, addresses, history>>

Next ==
  \/ \E c \in Calls :
       \/ \E r \in Requests : Ask(c, r)
       \/ CreateGroup(c) \/ UpdateGroup(c) \/ DeleteGroup(c)
       \/ CreateAddress(c) \/ SkipAddress(c) \/ CreateDone(c)
       \/ UpdateInMemory(c) \/ ReadAddress(c) \/ WriteAddress(c) \/ DeleteAddress(c)
       \/ Fails(c)
  \/ Crash

Spec == Init /\ [][Next]_vars

-----------------------------------------------------------------------------
\* An address holds, field by field, what clients last gave for it, whatever
\* came in between, except when two updates of it overlapped in Postgres: then
\* the later write puts the fields it was not given back to what it had read
\* (UpdateAddress).
FieldsAreLastAsked ==
  \A id \in AddressIds \ raced : addresses[id] \in {None, asked[id]}

\* A deleted address never comes back: an update that read it before the delete
\* finds no row to write (UpdateAddress and DeleteAddress).
DeletedStaysDeleted ==
  [][\A id \in used : addresses[id] = None => addresses'[id] = None]_vars
===============================================================================
