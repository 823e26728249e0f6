------------------------------ MODULE Controls ------------------------------
(***************************************************************************)
(* monks_kmodule/control.c: the tables behind /proc/sys/monks.  kmem holds *)
(* the tables that are allocated, by their address; the tree that is       *)
(* registered reads the one that state_table[0].child points to.  The      *)
(* actions are steps of hook_init and hook_exit, in module Hooking.        *)
(***************************************************************************)
EXTENDS Integers, Sequences, FiniteSetsExt, Functions

CONSTANTS
  Blocks,             (* bound: addresses kmalloc can return               *)
  NoData              (* the data pointer of a zero entry                  *)

ASSUME ControlsAssumption == IsFiniteSet(Blocks) /\ Blocks \subseteq Nat \ {0}

NULL          == 0
ZERO_SIZE_PTR == -1   (* what kcalloc returns for no bytes at all          *)

VARIABLES
  kmem,
  nsyscalls_state_table,
  syscalls_state_table,
  child,              (* state_table[0].child                              *)
  netlink,            (* state_table[2].data is &netlink_id, not -1        *)
  registered          (* monks_table_header is not NULL                    *)

controlVars == <<kmem, nsyscalls_state_table, syscalls_state_table, child, netlink, registered>>

(* An entry of a ctl_table.  No name: the end of the table.                *)
Entry(procname, data) == [procname |-> procname, data |-> data]
ZeroEntry == Entry(0, NoData)

kcalloc   == Min(Blocks \ DOMAIN kmem)
FreeBlock == Blocks \ DOMAIN kmem # {}

(* f with v at x                                                           *)
Put(f, x, v) == [y \in DOMAIN f \cup {x} |-> IF y = x THEN v ELSE f[y]]

(* The data section of the module as insmod finds it in the file           *)
ControlsLoaded ==
  /\ nsyscalls_state_table' = 0
  /\ syscalls_state_table' = NULL
  /\ child' = NULL
  /\ netlink' = FALSE
  /\ registered' = FALSE
  /\ UNCHANGED kmem

ControlsInit ==
  /\ kmem = <<>>
  /\ nsyscalls_state_table = 0
  /\ syscalls_state_table = NULL
  /\ child = NULL
  /\ netlink = FALSE
  /\ registered = FALSE

set_monks_control_netlink_id ==
  /\ netlink' = TRUE
  /\ UNCHANGED <<kmem, nsyscalls_state_table, syscalls_state_table, child, registered>>

(* A slip: child is set for the first entry only.                          *)
add_syscalls_state_table_entry_once(procname, state) ==
  LET n     == IF nsyscalls_state_table = 0 THEN 2 ELSE nsyscalls_state_table + 1
      grown == IF nsyscalls_state_table = 0 THEN <<ZeroEntry, ZeroEntry>>
               ELSE Append(kmem[syscalls_state_table], ZeroEntry)
      table == [grown EXCEPT ![n - 1] = Entry(procname, state)]
  IN  /\ nsyscalls_state_table' = n
      /\ syscalls_state_table' = kcalloc
      /\ kmem' = Restrict(Put(kmem, kcalloc, table),
                          (DOMAIN kmem \cup {kcalloc}) \ {syscalls_state_table})
      /\ child' = IF nsyscalls_state_table = 0 THEN syscalls_state_table' ELSE child
      /\ UNCHANGED <<netlink, registered>>

(* krealloc leaves the table where it is or moves it.                      *)
add_syscalls_state_table_entry(procname, state) ==
  LET n     == IF nsyscalls_state_table = 0 THEN 2 ELSE nsyscalls_state_table + 1
      grown == IF nsyscalls_state_table = 0 THEN <<ZeroEntry, ZeroEntry>>
               ELSE Append(kmem[syscalls_state_table], ZeroEntry)
      table == [grown EXCEPT ![n - 1] = Entry(procname, state)]
  IN  /\ nsyscalls_state_table' = n
      /\ \/ /\ FreeBlock
            /\ syscalls_state_table' = kcalloc
            /\ kmem' = Restrict(Put(kmem, kcalloc, table),
                                (DOMAIN kmem \cup {kcalloc}) \ {syscalls_state_table})
         \/ /\ nsyscalls_state_table # 0
            /\ syscalls_state_table' = syscalls_state_table
            /\ kmem' = Put(kmem, syscalls_state_table, table)
      /\ child' = syscalls_state_table'
      /\ UNCHANGED <<netlink, registered>>

(* It ends with registered' false when there is no memory, for a new table *)
(* or in register_sysctl_table, which has the new table not freed.         *)
register_monks_controls ==
  /\ \/ /\ nsyscalls_state_table = 0
        /\ syscalls_state_table' = ZERO_SIZE_PTR
        /\ registered' \in BOOLEAN
        /\ UNCHANGED kmem
     \/ /\ nsyscalls_state_table # 0
        /\ FreeBlock
        /\ syscalls_state_table' = kcalloc
        /\ kmem' = Put(kmem, kcalloc, [i \in 1 .. nsyscalls_state_table |-> ZeroEntry])
        /\ registered' \in BOOLEAN
     \/ /\ syscalls_state_table' = NULL
        /\ registered' = FALSE
        /\ UNCHANGED kmem
  /\ UNCHANGED <<nsyscalls_state_table, child, netlink>>

unregister_monks_controls ==
  /\ registered' = FALSE
  /\ kmem' = Restrict(kmem, DOMAIN kmem \ {syscalls_state_table})
  /\ UNCHANGED <<nsyscalls_state_table, syscalls_state_table, child, netlink>>

-----------------------------------------------------------------------------
(* The files under /proc/sys/monks/syscalls: the entries up to the first   *)
(* without a name.                                                         *)
Files ==
  IF child \notin DOMAIN kmem THEN {}
  ELSE LET table == kmem[child]
       IN  {table[f] : f \in {g \in DOMAIN table :
                                \A h \in 1 .. g : table[h].procname # ZeroEntry.procname}}

=============================================================================
