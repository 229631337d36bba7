--------------------------- MODULE AddressBookProofs ---------------------------
(***************************************************************************)
(* Proofs about AddressBook for any number of handlers, addresses, groups   *)
(* and requests and either store.  What a handler read of an address still  *)
(* is what the address holds, unless the address was written meanwhile,     *)
(* which "raced" remembers.                                                 *)
(***************************************************************************)
EXTENDS AddressBook, TLAPS

\* What the handlers and the history know of an address.
ReadersOK ==
  \A c \in Calls : calls[c].row # None =>
    /\ Asks(c, "update") /\ Request(c).id \in used /\ calls[c].row.groups # {}
    /\ Request(c).id \in raced \/ addresses[Request(c).id] \in {None, calls[c].row}

AskedOK == \A id \in used : asked[id] \in Row

IInv == TypeOK /\ ReadersOK /\ AskedOK /\ FieldsAreLastAsked

LEMMA Constants ==
  /\ None \notin Requests /\ MaxFailures \in Nat /\ "" \in Remarks
  /\ Default \in GroupIds /\ Seeded \subseteq AddressIds
BY BookAssumption

LEMMA FailureBound == MaxFailures \in Nat
BY Constants

LEMMA FailureCounted ==
  ASSUME failures \in 0 .. MaxFailures, failures < MaxFailures, failures' = failures + 1
  PROVE  failures' \in 0 .. MaxFailures
BY FailureBound

LEMMA RequestFields ==
  ASSUME NEW r \in Requests
  PROVE  /\ r.op = "create" => /\ r.addresses \in Seq({"", "0x"}) /\ r.remark \in Remarks
                               /\ r.groups \subseteq GroupIds
         /\ r.op = "update" => /\ r.id \in AddressIds /\ r.remark \in Remarks
                               /\ r.groups \subseteq GroupIds
         /\ r.op = "delete" => r.id \in AddressIds
         /\ r.op \in {"updateGroup", "deleteGroup"} => r.id \in GroupIds
BY BookAssumption DEF RequestType

LEMMA TypedCall ==
  ASSUME TypeOK, NEW c \in Calls
  PROVE  /\ calls[c] \in [req: Requests \cup {None}, done: Nat, row: Row \cup {None}]
         /\ Request(c) # None => Request(c) \in Requests
BY DEF TypeOK, Request

LEMMA IdleType == Idle \in [req: Requests \cup {None}, done: Nat, row: Row \cup {None}]
BY DEF Idle

LEMMA InitIInv == Init => IInv
<1> SUFFICES ASSUME Init PROVE IInv
  OBVIOUS
<1>1. FirstRow \in Row /\ FirstRow.groups # {}
  BY Constants DEF FirstRow, Row
<1>2. TypeOK
  <2>1. addresses \in [AddressIds -> Row \cup {None}]
        /\ \A id \in AddressIds : addresses[id] # None => id \in used /\ addresses[id].groups # {}
    BY <1>1 DEF Init
  <2>2. groups \in [GroupIds -> {"plain", "default", None}]
    BY DEF Init
  <2>3. calls \in [Calls -> [req: Requests \cup {None}, done: Nat, row: Row \cup {None}]]
    BY IdleType DEF Init
  <2>4. store \in {"memory", "postgres"} /\ failures \in 0 .. MaxFailures
    BY FailureBound DEF Init
  <2>5. used \subseteq AddressIds /\ raced \subseteq AddressIds
    BY Constants DEF Init
  <2>6. asked \in [AddressIds -> Row \cup {None}]
    BY <2>1 DEF Init
  <2>7. QED
    BY <2>1, <2>2, <2>3, <2>4, <2>5, <2>6 DEF TypeOK
<1>3. ReadersOK
  BY DEF Init, ReadersOK, Idle
<1>4. AskedOK
  BY <1>1, Constants DEF Init, AskedOK
<1>5. FieldsAreLastAsked
  BY DEF Init, FieldsAreLastAsked
<1>6. QED
  BY <1>2, <1>3, <1>4, <1>5 DEF IInv

-----------------------------------------------------------------------------
\* A call that ends, or goes on without a row it has read.
LEMMA CallKeepsReaders ==
  ASSUME TypeOK, ReadersOK, NEW c \in Calls, NEW new, calls' = [calls EXCEPT ![c] = new],
         new.row = None, UNCHANGED <<addresses, used, raced>>
  PROVE  ReadersOK'
<1>1. \A d \in Calls : calls'[d] = IF d = c THEN new ELSE calls[d]
  BY DEF TypeOK
<1>2. QED
  BY <1>1 DEF ReadersOK, Asks, Request

\* The rows and the history stay, and one call moves on.
LEMMA MoveKeeps ==
  ASSUME IInv, NEW c \in Calls,
         NEW new \in [req: Requests \cup {None}, done: Nat, row: Row \cup {None}],
         calls' = [calls EXCEPT ![c] = new], new.row = None,
         groups' \in [GroupIds -> {"plain", "default", None}], failures' \in 0 .. MaxFailures,
         UNCHANGED <<store, addresses, used, asked, raced>>
  PROVE  IInv'
<1>1. TypeOK'
  BY DEF IInv, TypeOK
<1>2. ReadersOK'
  BY CallKeepsReaders DEF IInv
<1>3. AskedOK' /\ FieldsAreLastAsked'
  BY DEF IInv, AskedOK, FieldsAreLastAsked
<1>4. QED
  BY <1>1, <1>2, <1>3 DEF IInv

LEMMA EndKeeps ==
  ASSUME IInv, NEW c \in Calls, End(c),
         groups' \in [GroupIds -> {"plain", "default", None}], failures' \in 0 .. MaxFailures,
         UNCHANGED <<store, addresses, history>>
  PROVE  IInv'
<1>1. Idle.row = None
  BY DEF Idle
<1>2. QED
  BY <1>1, IdleType, MoveKeeps DEF End, history

\* The fields an update does not give stay.
LEMMA MergedIsGiven ==
  ASSUME NEW row, NEW r
  PROVE  Merged(row, r) = Given(row, r)
<1>1. DOMAIN Blank = {"remark", "groups"}
  BY DEF Blank
<1>2. Given(row, r) = [f \in {"remark", "groups"} |->
                         IF r[f] = Blank[f] THEN row[f] ELSE r[f]]
  BY <1>1 DEF Given
<1>3. Blank["remark"] = "" /\ Blank["groups"] = {}
  BY DEF Blank
<1>4. QED
  BY <1>2, <1>3 DEF Merged

LEMMA MergedType ==
  ASSUME NEW row \in Row, row.groups # {}, NEW r \in Requests, r.op = "update"
  PROVE  Merged(row, r) \in Row /\ Merged(row, r).groups # {}
BY RequestFields DEF Merged, Row

\* An update writes a row that is there.
LEMMA PutKeeps ==
  ASSUME IInv, NEW c \in Calls, Asks(c, "update"), Present(c), End(c),
         NEW row \in Row, row.groups # {}, Put(c, Merged(row, Request(c))),
         \/ Request(c).id \in raced \/ row = addresses[Request(c).id],
         UNCHANGED <<store, groups, failures>>
  PROVE  IInv'
<1> DEFINE id == Request(c).id
           r == Request(c)
<1>1. r \in Requests /\ r.op = "update" /\ id \in AddressIds /\ TypeOK
  BY TypedCall, RequestFields DEF IInv, Asks
<1>2. /\ Merged(row, r) \in Row /\ Merged(row, r).groups # {}
      /\ addresses[id] \in Row /\ id \in used /\ asked[id] \in Row
  BY <1>1, MergedType DEF Present, IInv, TypeOK, AskedOK
<1>3. /\ addresses' = [addresses EXCEPT ![id] = Merged(row, r)]
      /\ asked' = [asked EXCEPT ![id] = Given(asked[id], r)]
      /\ raced' = IF Updating(c) = {} THEN raced ELSE raced \cup {id}
      /\ used' = used
  BY DEF Put
<1>4. Given(asked[id], r) \in Row
  BY <1>1, <1>2, MergedIsGiven, RequestFields DEF Merged, Row
<1>5. \A d \in Calls : calls'[d] = IF d = c THEN Idle ELSE calls[d]
  BY <1>1 DEF End, TypeOK
<1>6. TypeOK'
  BY <1>1, <1>2, <1>3, <1>4, IdleType DEF End, TypeOK
<1>7. ReadersOK'
  <2>1. SUFFICES ASSUME NEW d \in Calls, calls'[d].row # None
        PROVE  /\ calls[d].req # None /\ calls[d].req.op = "update"
               /\ calls[d].req.id \in used /\ calls[d].row.groups # {}
               /\ \/ calls[d].req.id \in raced'
                  \/ addresses'[calls[d].req.id] \in {None, calls[d].row}
               /\ calls'[d] = calls[d]
    BY <1>3 DEF ReadersOK, Asks, Request
  <2>2. d # c /\ calls'[d] = calls[d]
    BY <1>5, <2>1 DEF Idle
  <2>3. CASE calls[d].req.id = id
    <3>1. d \in Updating(c)
      BY <2>1, <2>2, <2>3 DEF Updating, Request
    <3>2. id \in raced'
      BY <1>3, <3>1
    <3>3. QED
      BY <2>1, <2>2, <2>3, <3>2 DEF IInv, ReadersOK, Asks, Request
  <2>4. CASE calls[d].req.id # id
    <3>1. addresses'[calls[d].req.id] = addresses[calls[d].req.id] /\ raced \subseteq raced'
      BY <1>1, <1>3, <2>1, <2>2, <2>4 DEF IInv, ReadersOK, TypeOK, Request
    <3>2. QED
      BY <2>1, <2>2, <3>1 DEF IInv, ReadersOK, Asks, Request
  <2>5. QED
    BY <2>3, <2>4
<1>8. AskedOK'
  BY <1>1, <1>3, <1>4 DEF IInv, AskedOK, TypeOK
<1>9. FieldsAreLastAsked'
  <2>1. SUFFICES ASSUME NEW j \in AddressIds, j \notin raced'
                 PROVE  addresses'[j] \in {None, asked'[j]}
    BY DEF FieldsAreLastAsked
  <2>2. CASE j # id
    BY <1>1, <1>3, <2>1, <2>2 DEF IInv, FieldsAreLastAsked, TypeOK
  <2>3. CASE j = id
    <3>1. row = addresses[id] /\ addresses[id] = asked[id]
      BY <1>1, <1>3, <2>1, <2>3 DEF IInv, FieldsAreLastAsked, Present
    <3>2. addresses'[id] = Merged(asked[id], r) /\ asked'[id] = Given(asked[id], r)
      BY <1>1, <1>3, <3>1 DEF TypeOK
    <3>3. QED
      BY <2>3, <3>2, MergedIsGiven
  <2>4. QED
    BY <2>2, <2>3
<1>10. QED
  BY <1>6, <1>7, <1>8, <1>9 DEF IInv

-----------------------------------------------------------------------------
\* One lemma per kind of action.

LEMMA GroupsKeep ==
  ASSUME IInv, NEW c \in Calls, CreateGroup(c) \/ UpdateGroup(c) \/ DeleteGroup(c)
  PROVE  IInv'
<1>1. groups' \in [GroupIds -> {"plain", "default", None}]
  BY DEF IInv, TypeOK, CreateGroup, UpdateGroup, DeleteGroup, Marked
<1>2. End(c) /\ UNCHANGED <<store, addresses, failures, history>>
  BY DEF CreateGroup, UpdateGroup, DeleteGroup
<1>3. QED
  BY <1>1, <1>2, EndKeeps DEF IInv, TypeOK

LEMMA CreateAddressKeeps ==
  ASSUME IInv, NEW c \in Calls, CreateAddress(c)
  PROVE  IInv'
<1> DEFINE new == [calls[c] EXCEPT !.done = @ + 1]
           r == Request(c)
<1>1. r \in Requests /\ r.op = "create" /\ calls[c].row = None
  BY TypedCall DEF CreateAddress, More, Asks, IInv, ReadersOK
<1>2. /\ new \in [req: Requests \cup {None}, done: Nat, row: Row \cup {None}]
      /\ new.row = None /\ calls' = [calls EXCEPT ![c] = new]
      /\ UNCHANGED <<store, groups, failures>>
  <2>1. new \in [req: Requests \cup {None}, done: Nat, row: Row \cup {None}] /\ new.row = None
    BY <1>1, TypedCall DEF IInv
  <2>2. QED
    BY <2>1 DEF CreateAddress
<1>3. CASE UNCHANGED <<addresses, history>>
  BY <1>2, <1>3, MoveKeeps DEF history, IInv, TypeOK
<1>4. ASSUME NEW id \in AddressIds \ used,
             addresses' = [addresses EXCEPT ![id] = Created(r)],
             asked' = [asked EXCEPT ![id] = Created(r)], used' = used \cup {id}, UNCHANGED raced
      PROVE  IInv'
  <2>1. Created(r) \in Row /\ Created(r).groups # {}
    BY <1>1, RequestFields, Constants DEF Created, Row
  <2>2. TypeOK'
    <3>1. addresses' \in [AddressIds -> Row \cup {None}] /\ asked' \in [AddressIds -> Row \cup {None}]
      BY <1>4, <2>1 DEF IInv, TypeOK
    <3>2. \A j \in AddressIds : addresses'[j] # None => j \in used' /\ addresses'[j].groups # {}
      BY <1>4, <2>1 DEF IInv, TypeOK
    <3>3. calls' \in [Calls -> [req: Requests \cup {None}, done: Nat, row: Row \cup {None}]]
      BY <1>2 DEF IInv, TypeOK
    <3>4. QED
      BY <1>2, <1>4, <3>1, <3>2, <3>3 DEF IInv, TypeOK
  <2>3. ReadersOK'
    <3>1. \A d \in Calls : calls'[d].row # None => d # c /\ calls'[d] = calls[d]
      BY <1>2 DEF IInv, TypeOK
    <3>2. \A d \in Calls : calls[d].row # None =>
             /\ calls[d].req.id \in used' /\ calls[d].req.id # id
             /\ addresses'[calls[d].req.id] = addresses[calls[d].req.id]
      BY <1>4 DEF IInv, TypeOK, ReadersOK, Request
    <3>3. QED
      BY <1>4, <3>1, <3>2 DEF IInv, ReadersOK, Asks, Request
  <2>4. AskedOK' /\ FieldsAreLastAsked'
    BY <1>4, <2>1 DEF IInv, TypeOK, AskedOK, FieldsAreLastAsked
  <2>5. QED
    BY <2>2, <2>3, <2>4 DEF IInv
<1>5. QED
  BY <1>3, <1>4 DEF CreateAddress

LEMMA SkipAddressKeeps ==
  ASSUME IInv, NEW c \in Calls, SkipAddress(c)
  PROVE  IInv'
<1> DEFINE new == [calls[c] EXCEPT !.done = @ + 1]
<1>1. calls[c].row = None
  BY DEF SkipAddress, More, Asks, IInv, ReadersOK
<1>2. /\ new \in [req: Requests \cup {None}, done: Nat, row: Row \cup {None}]
      /\ new.row = None /\ calls' = [calls EXCEPT ![c] = new]
      /\ UNCHANGED <<store, groups, addresses, used, asked, raced>>
  BY <1>1, TypedCall DEF SkipAddress, IInv, history
<1>3. failures' \in 0 .. MaxFailures
  BY FailureCounted DEF SkipAddress, IInv, TypeOK
<1> HIDE DEF new
<1>4. QED
  BY <1>2, <1>3, MoveKeeps DEF IInv, TypeOK

LEMMA UpdateInMemoryKeeps ==
  ASSUME IInv, NEW c \in Calls, UpdateInMemory(c)
  PROVE  IInv'
<1>1. CASE ~Present(c)
  BY <1>1, EndKeeps DEF UpdateInMemory, IInv, TypeOK
<1>2. CASE Present(c)
  <2> DEFINE row == addresses[Request(c).id]
  <2>1. Request(c).id \in AddressIds
    BY TypedCall, RequestFields DEF UpdateInMemory, Asks, IInv
  <2>2. row \in Row /\ row.groups # {}
    BY <1>2, <2>1 DEF Present, IInv, TypeOK
  <2>3. /\ Asks(c, "update") /\ End(c) /\ Put(c, Merged(row, Request(c)))
        /\ UNCHANGED <<store, groups, failures>>
    BY <1>2 DEF UpdateInMemory
  <2>4. QED
    BY <1>2, <2>2, <2>3, PutKeeps
<1>3. QED
  BY <1>1, <1>2

LEMMA ReadAddressKeeps ==
  ASSUME IInv, NEW c \in Calls, ReadAddress(c)
  PROVE  IInv'
<1>1. CASE ~Present(c)
  BY <1>1, EndKeeps DEF ReadAddress, IInv, TypeOK
<1>2. CASE Present(c)
  <2> DEFINE id == Request(c).id
             new == [calls[c] EXCEPT !.row = addresses[id]]
  <2>1. id \in AddressIds /\ Asks(c, "update")
    BY TypedCall, RequestFields DEF ReadAddress, Asks, IInv
  <2>2. /\ addresses[id] \in Row /\ addresses[id] # None /\ addresses[id].groups # {}
        /\ id \in used
    BY <1>2, <2>1 DEF Present, IInv, TypeOK
  <2>3. /\ new \in [req: Requests \cup {None}, done: Nat, row: Row \cup {None}]
        /\ new.req = Request(c) /\ new.row = addresses[id]
    BY <2>2, TypedCall DEF IInv, Request
  <2>4. /\ calls' = [calls EXCEPT ![c] = new]
        /\ UNCHANGED <<store, groups, addresses, failures, used, asked, raced>>
    BY <1>2 DEF ReadAddress, history
  <2>5. \A d \in Calls : calls'[d] = IF d = c THEN new ELSE calls[d]
    BY <2>4 DEF IInv, TypeOK
  <2> HIDE DEF new
  <2>6. TypeOK'
    BY <2>3, <2>4 DEF IInv, TypeOK
  <2>7. ReadersOK'
    <3>1. SUFFICES ASSUME NEW d \in Calls, calls'[d].row # None
          PROVE  /\ Asks(d, "update")' /\ Request(d)'.id \in used /\ calls'[d].row.groups # {}
                 /\ \/ Request(d)'.id \in raced
                    \/ addresses[Request(d)'.id] \in {None, calls'[d].row}
      BY <2>4 DEF ReadersOK
    <3>2. CASE d = c
      BY <2>1, <2>2, <2>3, <2>5, <3>2 DEF Asks, Request
    <3>3. CASE d # c
      BY <2>5, <3>1, <3>3 DEF IInv, ReadersOK, Asks, Request
    <3>4. QED
      BY <3>2, <3>3
  <2>8. AskedOK' /\ FieldsAreLastAsked'
    BY <2>4 DEF IInv, AskedOK, FieldsAreLastAsked
  <2>9. QED
    BY <2>6, <2>7, <2>8 DEF IInv
<1>3. QED
  BY <1>1, <1>2

LEMMA WriteAddressKeeps ==
  ASSUME IInv, NEW c \in Calls, WriteAddress(c)
  PROVE  IInv'
<1>1. CASE ~Present(c)
  BY <1>1, EndKeeps DEF WriteAddress, IInv, TypeOK
<1>2. CASE Present(c)
  <2> DEFINE row == calls[c].row
  <2>1. /\ Asks(c, "update") /\ End(c) /\ Put(c, Merged(row, Request(c))) /\ row # None
        /\ UNCHANGED <<store, groups, failures>>
    BY <1>2 DEF WriteAddress
  <2>2. row \in Row
    BY <2>1, TypedCall DEF IInv
  <2>3. row.groups # {} /\ (Request(c).id \in raced \/ row = addresses[Request(c).id])
    BY <1>2, <2>1 DEF IInv, ReadersOK, Present
  <2>4. QED
    BY <1>2, <2>1, <2>2, <2>3, PutKeeps
<1>3. QED
  BY <1>1, <1>2

LEMMA DeleteAddressKeeps ==
  ASSUME IInv, NEW c \in Calls, DeleteAddress(c)
  PROVE  IInv'
<1> DEFINE id == Request(c).id
<1>1. /\ addresses' = [addresses EXCEPT ![id] = None]
      /\ UNCHANGED <<store, groups, failures, used, asked, raced>>
      /\ calls' = [calls EXCEPT ![c] = Idle]
  BY DEF DeleteAddress, End, history
<1>2. \A j \in AddressIds : addresses'[j] \in {None, addresses[j]}
  BY <1>1 DEF IInv, TypeOK
<1>3. TypeOK'
  BY <1>1, <1>2, IdleType DEF IInv, TypeOK
<1>4. \A d \in Calls : calls'[d] = IF d = c THEN Idle ELSE calls[d]
  BY <1>1 DEF IInv, TypeOK
<1>5. ReadersOK'
  <2>1. SUFFICES ASSUME NEW d \in Calls, calls'[d].row # None
        PROVE  /\ calls'[d] = calls[d]
               /\ \/ calls[d].req.id \in raced
                  \/ addresses'[calls[d].req.id] \in {None, calls[d].row}
    BY <1>1 DEF IInv, ReadersOK, Asks, Request
  <2>2. calls'[d] = calls[d]
    BY <1>4, <2>1 DEF Idle
  <2>3. /\ calls[d].req.id \in AddressIds
        /\ \/ calls[d].req.id \in raced
           \/ addresses[calls[d].req.id] \in {None, calls[d].row}
    BY <2>1, <2>2 DEF IInv, ReadersOK, Request, TypeOK
  <2>4. QED
    BY <1>2, <2>2, <2>3
<1>6. AskedOK' /\ FieldsAreLastAsked'
  BY <1>1, <1>2 DEF IInv, AskedOK, FieldsAreLastAsked
<1>7. QED
  BY <1>3, <1>5, <1>6 DEF IInv

LEMMA AskKeeps ==
  ASSUME IInv, NEW c \in Calls, NEW r \in Requests, Ask(c, r)
  PROVE  IInv'
<1> DEFINE new == [calls[c] EXCEPT !.req = r]
<1>1. /\ new \in [req: Requests \cup {None}, done: Nat, row: Row \cup {None}]
      /\ new.row = None /\ calls' = [calls EXCEPT ![c] = new]
      /\ UNCHANGED <<store, groups, addresses, failures, used, asked, raced>>
  BY TypedCall DEF Ask, Idle, IInv, history
<1> HIDE DEF new
<1>2. QED
  BY <1>1, MoveKeeps DEF IInv, TypeOK

LEMMA CrashKeeps ==
  ASSUME IInv, Crash
  PROVE  IInv'
<1>1. /\ \A c \in Calls : calls'[c] = Idle
      /\ UNCHANGED <<store, groups, addresses, used, asked, raced>>
  BY DEF Crash, history
<1>2. TypeOK'
  <2>1. failures' \in 0 .. MaxFailures
    BY FailureCounted DEF Crash, IInv, TypeOK
  <2>2. calls' \in [Calls -> [req: Requests \cup {None}, done: Nat, row: Row \cup {None}]]
    BY IdleType DEF Crash
  <2>3. QED
    BY <1>1, <2>1, <2>2 DEF IInv, TypeOK
<1>3. ReadersOK' /\ AskedOK' /\ FieldsAreLastAsked'
  BY <1>1 DEF IInv, ReadersOK, Idle, AskedOK, FieldsAreLastAsked
<1>4. QED
  BY <1>2, <1>3 DEF IInv

LEMMA StepKeeps == IInv /\ [Next]_vars => IInv'
<1> SUFFICES ASSUME IInv, [Next]_vars PROVE IInv'
  OBVIOUS
<1>1. CASE UNCHANGED vars
  BY <1>1 DEF vars, history, IInv, TypeOK, ReadersOK, AskedOK, FieldsAreLastAsked, Asks, Request
<1>2. ASSUME NEW c \in Calls, CreateDone(c) \/ Fails(c) PROVE IInv'
  <2>1. failures' \in 0 .. MaxFailures
    BY <1>2, FailureCounted DEF CreateDone, Fails, IInv, TypeOK
  <2>2. QED
    BY <1>2, <2>1, EndKeeps DEF CreateDone, Fails, IInv, TypeOK
<1>3. QED
  BY <1>1, <1>2, GroupsKeep, CreateAddressKeeps, SkipAddressKeeps, UpdateInMemoryKeeps,
     ReadAddressKeeps, WriteAddressKeeps, DeleteAddressKeeps, AskKeeps, CrashKeeps DEF Next

-----------------------------------------------------------------------------
\* The variables keep their types, and no address is without a group (TypeOK),
\* whatever rows updates had read when they write (CreateAddress, UpdateAddress).
THEOREM TypeCorrect == Spec => []TypeOK
<1>1. IInv => TypeOK
  BY DEF IInv
<1>2. QED
  BY <1>1, InitIInv, StepKeeps, PTL DEF Spec

\* For any number of handlers and requests, an address holds field by field what
\* clients last gave for it, unless two updates of it overlapped (UpdateAddress).
THEOREM FieldsKept == Spec => []FieldsAreLastAsked
<1>1. IInv => FieldsAreLastAsked
  BY DEF IInv
<1>2. QED
  BY <1>1, InitIInv, StepKeeps, PTL DEF Spec

LEMMA StepKeepsDeleted ==
  ASSUME TypeOK, [Next]_vars, NEW id \in used, addresses[id] = None
  PROVE  addresses'[id] = None
<1>1. id \in AddressIds
  BY DEF TypeOK
<1>2. CASE addresses' = addresses
  BY <1>2
<1>3. ASSUME NEW c \in Calls, CreateAddress(c) PROVE addresses'[id] = None
  BY <1>1, <1>3 DEF CreateAddress, TypeOK
<1>4. ASSUME NEW c \in Calls, UpdateInMemory(c) \/ WriteAddress(c)
      PROVE  addresses'[id] = None
  BY <1>1, <1>4 DEF UpdateInMemory, WriteAddress, Put, Present, TypeOK
<1>5. ASSUME NEW c \in Calls, DeleteAddress(c) PROVE addresses'[id] = None
  BY <1>1, <1>5 DEF DeleteAddress, TypeOK
<1>6. QED
  BY <1>2, <1>3, <1>4, <1>5
     DEF Next, vars, Ask, CreateGroup, UpdateGroup, DeleteGroup, SkipAddress, CreateDone,
         ReadAddress, Fails, Crash

\* No update brings a deleted address back, in either store (UpdateAddress finds
\* no row to write).
THEOREM DeletedForGood == Spec => DeletedStaysDeleted
<1>1. TypeOK /\ [Next]_vars =>
        [\A id \in used : addresses[id] = None => addresses'[id] = None]_vars
  BY StepKeepsDeleted
<1>2. QED
  BY <1>1, TypeCorrect, PTL DEF Spec, DeletedStaysDeleted
===============================================================================
