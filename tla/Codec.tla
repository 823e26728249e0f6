-------------------------------- MODULE Codec --------------------------------
(***************************************************************************)
(* One event from the hooks of a system call to the viewer, byte by byte:  *)
(* what the pre- and post-hook allocate and note, serialize_syscall_info,  *)
(* nl_send, read_from_socket and deserialize_syscall_info.  Any allocation *)
(* may fail; meanwhile others rename the process and change what its file  *)
(* descriptor stands for.  The queue and the kernel thread in between are  *)
(* Netlink.tla's.  A size_t and a pid_t take one cell here, as a character *)
(* does; 0 ends a string.                                                  *)
(***************************************************************************)
EXTENDS Naturals, Sequences

CONSTANTS
  Names,        (* names a process may have                                *)
  Paths,        (* paths d_path may give                                   *)
  MaxPayload    (* cells the viewer receives at most                       *)

ASSUME CodecAssumption == /\ Names \subseteq Seq(Nat \ {0}) /\ Paths \subseteq Seq(Nat \ {0})
                          /\ MaxPayload \in Nat

VARIABLES
  comm,         (* the name of the process: pname points to it             *)
  file,         (* the path of what fd stands for, None if it is closed    *)
  pc, k,        (* where the hooks are, and at which field                 *)
  size,         (* the size add_chunk is called with                       *)
  heap,         (* blocks allocated for this event by the kernel           *)
  info,         (* the fields the hooks have noted, as strings             *)
  data,         (* what the membuffer of the kernel holds                  *)
  wire,         (* the message for the viewer, None if there is none       *)
  vpc, vk, vheap, xdata,
  got,          (* the chunks the viewer has taken out of the message      *)
  shown,        (* the fields the viewer will show                         *)
  renamed       (* the process got another name between strlen and memcpy  *)

envVars    == <<comm, file>>
hookVars   == <<pc, k, size, heap, info, data, renamed>>
viewerVars == <<vpc, vk, vheap, xdata, got, shown>>
vars == <<envVars, hookVars, wire, viewerVars>>

None == <<0>>                   \* no string holds a 0
Fields == 1 .. 6                \* pname, pid, operation, path, result, details
PID == 2  PATH == 4  DETAILS == 6

Err == <<101>>
Pid == <<102>>
Operation == <<103>>
Result(ok) == IF ok THEN <<104>> ELSE <<105>>
Details(ok) == IF ok THEN <<106, 107>> ELSE <<108>>

Unnoted == [f \in Fields |-> None]

(* What lies at the string s: its characters, then 0.                      *)
Cells(s, n) == [j \in 1 .. n |-> IF j <= Len(s) THEN s[j] ELSE 0]

-----------------------------------------------------------------------------
Init ==
  /\ comm \in Names
  /\ file \in Paths \union {None}
  /\ pc = "idle" /\ k = 1 /\ size = 1
  /\ heap = {} /\ info = Unnoted /\ data = <<>>
  /\ wire = None
  /\ vpc = "idle" /\ vk = 1
  /\ vheap = {} /\ xdata = <<>> /\ got = Unnoted /\ shown = Unnoted
  /\ renamed = FALSE

(* Other threads: /proc/<pid>/task/<tid>/comm, dup2, close.                *)
Rename ==
  /\ comm' \in Names \ {comm}
  /\ renamed' = (renamed \/ (pc = "copy" /\ k = 1))
  /\ UNCHANGED <<file, pc, k, size, heap, info, data, wire, viewerVars>>

Reopen ==
  /\ file' \in (Paths \union {None}) \ {file}
  /\ UNCHANGED <<comm, hookVars, wire, viewerVars>>

-----------------------------------------------------------------------------
(* The hooks.  "oops" is the end of the thread: a NULL pointer was followed *)

(* A system call is intercepted; the event before it has been read or lost.*)
SysCall ==
  /\ pc \in {"idle", "oops"}
  /\ vpc = "idle" /\ wire = None
  /\ pc' = "pre" /\ k' = 1 /\ size' = 1
  /\ heap' = {} /\ info' = Unnoted /\ data' = <<>> /\ renamed' = FALSE
  /\ vheap' = {} /\ got' = Unnoted /\ shown' = Unnoted
  /\ UNCHANGED <<envVars, wire, vpc, vk, xdata>>

(* path_from_fd: new(4) may fail, and so may everything after it.          *)
PathFromFd ==
  \/ pc' = "oops" /\ UNCHANGED <<heap, info>>
  \/ /\ pc' = "post"
     /\ \E path \in {Err} \union (IF file = None THEN {} ELSE {file, None}) :
          /\ info' = [info EXCEPT ![PATH] = path]
          /\ heap' = {"node"} \union (IF path = None THEN {} ELSE {"path"})

(* Without a node the post-hook has nothing to report.                     *)
PreHook ==
  /\ pc = "pre"
  /\ \/ pc' = "idle" /\ UNCHANGED <<heap, info>>
     \/ PathFromFd
  /\ UNCHANGED <<envVars, k, size, data, renamed, wire, viewerVars>>

(* The post-hook up to nl_send, and the first line of                      *)
(* serialize_syscall_info.                                                 *)
PostHook ==
  /\ pc = "post"
  /\ \E ok \in BOOLEAN, details \in BOOLEAN, mb \in BOOLEAN :
       /\ info' = <<comm, Pid, Operation, info[PATH], Result(ok),
                    IF details THEN Details(ok) ELSE None>>
       /\ heap' = heap \union (IF details THEN {"details"} ELSE {})
                       \union (IF mb THEN {"mb"} ELSE {})
       /\ pc' = IF mb THEN "measure" ELSE "oops"
  /\ UNCHANGED <<envVars, k, size, data, renamed, wire, viewerVars>>

(* A slip: the 0 at the end of a string is not counted. *)
SizeShort(f, s) == IF f = PID THEN 1 ELSE Len(s)

SizeOf(f, s) == IF f = PID THEN 1 ELSE Len(s) + 1

(* pname is whatever the process is called now.                            *)
At(f) == IF f = 1 THEN comm ELSE info[f]

(* The argument strlen(...) + 1; strlen follows the pointer.               *)
Measure ==
  /\ pc = "measure"
  /\ \/ At(k) = None /\ pc' = "oops" /\ UNCHANGED <<size, info>>
     \/ /\ At(k) # None
        /\ size' = SizeOf(k, At(k))
        /\ info' = [info EXCEPT ![k] = At(k)]
        /\ pc' = "copy"
  /\ UNCHANGED <<envVars, k, heap, data, renamed, wire, viewerVars>>

(* A slip: add_chunk frees the buffer but its caller is not told. *)
AddChunkGoesOn ==
  /\ pc = "copy"
  /\ \/ /\ data' = data \o <<size>> \o Cells(At(k), size)
        /\ heap' = heap \union {"data"}
     \/ /\ data' = data
        /\ heap' = heap \ (IF data = <<>> THEN {} ELSE {"mb", "data"})
  /\ pc' = IF k = 6 THEN "skb" ELSE "measure"
  /\ k' = IF k = 6 THEN 1 ELSE k + 1
  /\ UNCHANGED <<envVars, size, info, renamed, wire, viewerVars>>

(* A slip: the buffer is not freed when a chunk does not fit. *)
AddChunkLeaks ==
  /\ pc = "copy"
  /\ \/ /\ data' = data \o <<size>> \o Cells(At(k), size)
        /\ heap' = heap \union {"data"}
        /\ pc' = IF k = 6 THEN "skb" ELSE "measure"
        /\ k' = IF k = 6 THEN 1 ELSE k + 1
     \/ pc' = "free" /\ UNCHANGED <<data, heap, k>>
  /\ UNCHANGED <<envVars, size, info, renamed, wire, viewerVars>>

(* add_chunk.  When the first allocation fails nothing is freed, when a    *)
(* later one fails all is; nl_send gives up in both cases.                 *)
AddChunk ==
  /\ pc = "copy"
  /\ \/ /\ data' = data \o <<size>> \o Cells(At(k), size)
        /\ heap' = heap \union {"data"}
        /\ pc' = IF k = 6 THEN "skb" ELSE "measure"
        /\ k' = IF k = 6 THEN 1 ELSE k + 1
     \/ /\ heap' = heap \ (IF data = <<>> THEN {} ELSE {"mb", "data"})
        /\ pc' = "free"
        /\ UNCHANGED <<data, k>>
  /\ UNCHANGED <<envVars, size, info, renamed, wire, viewerVars>>

(* nl_send: with a message or without, the membuffer goes.                 *)
Send ==
  /\ pc = "skb"
  /\ wire' \in {data, None}
  /\ heap' = heap \ {"mb", "data"}
  /\ pc' = "free"
  /\ UNCHANGED <<envVars, k, size, info, data, renamed, viewerVars>>

(* The end of the post-hook.                                               *)
Free ==
  /\ pc = "free"
  /\ heap' = heap \ {"path", "details", "node"}
  /\ pc' = "idle"
  /\ UNCHANGED <<envVars, k, size, info, data, renamed, wire, viewerVars>>

-----------------------------------------------------------------------------
(* The viewer.  "crash": it followed a NULL pointer; "wild": it read what  *)
(* is behind its buffer.                                                   *)

(* read_from_socket up to the call of deserialize_syscall_info, and the    *)
(* allocation at its start.                                                *)
Receive ==
  /\ vpc = "idle"
  /\ wire # None
  /\ wire' = None
  /\ vk' = 1
  /\ \/ vheap' = {} /\ vpc' = "idle" /\ UNCHANGED xdata
     \/ vheap' = {"x"} /\ vpc' = "idle" /\ UNCHANGED xdata
     \/ vheap' = {"x", "xdata"} /\ Len(wire) > MaxPayload /\ vpc' = "wild" /\ UNCHANGED xdata
     \/ /\ Len(wire) <= MaxPayload
        /\ xdata' = wire
        /\ \/ vheap' = {} /\ vpc' = "idle"
           \/ vheap' = {"x", "xdata", "i"} /\ vpc' = "chunk"
  /\ UNCHANGED <<envVars, hookVars, got, shown>>

(* A slip: the size of the chunk is left in front of what remains. *)
RestWithSize(n) == SubSeq(xdata, n + 1, Len(xdata))

(* A slip: the chunk is copied from where its size is. *)
ChunkFromSize(n) == SubSeq(xdata, 1, n)

Chunk(n) == SubSeq(xdata, 2, n + 1)
Rest(n)  == SubSeq(xdata, n + 2, Len(xdata))

ChunkFits == xdata # <<>> /\ xdata[1] < Len(xdata)

ChunkName == <<"pname", "pid", "operation", "path", "result", "details">>

(* A slip: the copy of the pid is not freed. *)
GetChunkKeepsPid ==
  /\ vpc = "chunk"
  /\ got' = [got EXCEPT ![vk] = Chunk(xdata[1])]
  /\ xdata' = Rest(xdata[1])
  /\ vheap' = vheap \union {ChunkName[vk]}
  /\ vpc' = IF vk = 6 THEN "end" ELSE "chunk"
  /\ vk' = IF vk = 6 THEN 1 ELSE vk + 1
  /\ UNCHANGED <<envVars, hookVars, wire, shown>>

(* get_chunk; deserialize_syscall_info frees the copy of the pid.          *)
GetChunk ==
  /\ vpc = "chunk"
  /\ \/ vpc' = "crash" /\ UNCHANGED <<vk, vheap, xdata, got>>
     \/ ~ChunkFits /\ vpc' = "wild" /\ UNCHANGED <<vk, vheap, xdata, got>>
     \/ /\ ChunkFits
        /\ got' = [got EXCEPT ![vk] = Chunk(xdata[1])]
        /\ xdata' = Rest(xdata[1])
        /\ vheap' = vheap \union (IF vk = PID THEN {} ELSE {ChunkName[vk]})
        /\ vpc' = IF vk = 6 THEN "end" ELSE "chunk"
        /\ vk' = IF vk = 6 THEN 1 ELSE vk + 1
  /\ UNCHANGED <<envVars, hookVars, wire, shown>>

(* The end of read_from_socket.                                            *)
Finish ==
  /\ vpc = "end"
  /\ shown' = got
  /\ vheap' = vheap \ {"x", "xdata"}
  /\ vpc' = "idle"
  /\ UNCHANGED <<envVars, hookVars, wire, vk, xdata, got>>

(* Another viewer takes the place of one that is gone.                     *)
Restart ==
  /\ vpc \in {"crash", "wild"}
  /\ vpc' = "idle" /\ vk' = 1 /\ vheap' = {} /\ xdata' = <<>>
  /\ got' = Unnoted
  /\ UNCHANGED <<envVars, hookVars, wire, shown>>

Hooks  == SysCall \/ PreHook \/ PostHook \/ Measure \/ AddChunk \/ Send \/ Free
Viewer == Receive \/ GetChunk \/ Finish \/ Restart

Next == Rename \/ Reopen \/ Hooks \/ Viewer

Spec == Init /\ [][Next]_vars

-----------------------------------------------------------------------------
Strings == Names \union Paths
           \union {Err, Pid, Operation, Result(TRUE), Result(FALSE), Details(TRUE), Details(FALSE), None}

TypeOK ==
  /\ comm \in Names /\ file \in Paths \union {None}
  /\ pc \in {"idle", "pre", "post", "measure", "copy", "skb", "free", "oops"}
  /\ k \in Fields /\ vk \in Fields
  /\ size \in Nat \ {0}
  /\ heap \subseteq {"node", "path", "details", "mb", "data"}
  /\ info \in [Fields -> Strings]
  /\ vpc \in {"idle", "chunk", "end", "crash", "wild"}
  /\ vheap \subseteq {"x", "xdata", "i"} \union {ChunkName[f] : f \in Fields \ {PID}}
  /\ renamed \in BOOLEAN

(* Whichever allocation fails: when the post-hook is through, all that was *)
(* allocated for the event has been freed, but for the membuffer of an     *)
(* event whose first chunk found no memory.                                *)
KernelFrees == pc = "idle" => heap = {} \/ (heap = {"mb"} /\ data = <<>>)

(* Nothing is used or freed after it was freed: the buffer is there while  *)
(* chunks are added to it and when it is put into a message.               *)
BufferLives ==
  /\ pc \in {"measure", "copy", "skb"} => "mb" \in heap
  /\ pc \in {"measure", "copy", "skb"} => (data # <<>> <=> "data" \in heap)

(* What is left of an event in the viewer is what it shows, with the five  *)
(* strings that free_data will free, or one membuffer for which no data    *)
(* could be allocated.                                                     *)
ViewerFrees ==
  vpc = "idle" =>
    IF shown = Unnoted THEN vheap \in {{}, {"x"}}
    ELSE vheap = {"i"} \union {ChunkName[f] : f \in Fields \ {PID}}

(* The viewer shows the fields the hooks have noted.  If the process was   *)
(* renamed between strlen and memcpy, its name may be wrong and lack the   *)
(* 0 at its end, but no other field is disturbed.                          *)
RoundTrip ==
  shown # Unnoted =>
    \A f \in Fields : (f = 1 /\ renamed) \/ shown[f] = (IF f = PID THEN Pid ELSE Append(info[f], 0))

(* The viewer reads past its buffer only if the message is too long for it *)
(* (a long path): the sizes in a message never lead it astray.             *)
WildOnlyTooLong == vpc = "wild" => Len(data) > MaxPayload

=============================================================================
