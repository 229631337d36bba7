---------------------------- MODULE MCAddressBook ----------------------------
(* Small instances of AddressBook for TLC. *)
EXTENDS AddressBook, TLC

CONSTANTS a1, a2, a3, default, vip, c1, c2

Handlers == Permutations(Calls)

Update(id, remark, gs) == [op |-> "update", id |-> id, remark |-> remark, groups |-> gs]

\* Updates of one field and of the other, of two addresses, next to a delete.
SomeRequests ==
  { Update(a1, "A", {}), Update(a1, "", {vip}), Update(a1, "B", {default, vip}), Update(a2, "A", {}),
    [op |-> "delete", id |-> a1],
    [op |-> "create", addresses |-> <<"0x", "", "0x">>, remark |-> "", groups |-> {}],
    [op |-> "create", addresses |-> <<"0x">>, remark |-> "A", groups |-> {vip}],
    [op |-> "createGroup", isDefault |-> FALSE],
    [op |-> "updateGroup", id |-> default, isDefault |-> FALSE],
    [op |-> "deleteGroup", id |-> default] }
===============================================================================
