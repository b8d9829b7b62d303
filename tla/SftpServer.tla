----------------------------- MODULE SftpServer -----------------------------
(***************************************************************************)
(* The SFTP commands (sftp_dispatch_spkt and continue_write in             *)
(* User/ssh/sftp_parse.c) on the packets SftpDispatch cuts from the        *)
(* stream, with FatFS below and a client above.                            *)
(*                                                                         *)
(* The client sends well-formed requests, many before the first reply if   *)
(* it likes, on handles it has been given and has not closed.  A handle is *)
(* the address of a FatFS object, as in the code.  The data of a WRITE are *)
(* the bytes of its packet after the first HDR, each named by packet and   *)
(* position, so a file shows which byte came from where.                   *)
(***************************************************************************)
EXTENDS SftpDispatch

CONSTANTS
    HDR,         \* bytes of a WRITE in front of its data (29 in the code)
    MINPKT,      \* opcode and id (5 in the code)
    Name,        \* file names
    Absent,      \* content of a name that has no file
    Addr,        \* addresses malloc can return
    Ops,         \* commands the client uses
    Offs,        \* offsets it writes and reads at
    Dlens,       \* lengths of data it writes
    MaxLight,    \* bound: requests that change no file and no handle
    MaxSession,  \* bound: sessions
    MaxFault,    \* bound: FatFS errors
    DirWrites    \* the client may WRITE to the handle of a directory

ASSUME ServerAssumption ==
    /\ HDR \in Nat /\ MINPKT \in Nat /\ MINPKT <= HDR /\ HDR <= CHUNK
    /\ Offs \subseteq Nat /\ Dlens \subseteq Nat /\ DirWrites \in BOOLEAN
    /\ MaxSession \in Nat /\ MaxFault \in Nat /\ MaxLight \in Nat
    /\ {0, MINPKT - 1, MINPKT, HDR, CHUNK + 1} \cup {HDR + d : d \in Dlens} \subseteq Lens

VARIABLES
    requests,        \* client: everything sent, the pkt-th being received
    held,            \* client: handles it may use
    session,         \* sessions so far
    should_close,
    last_cmd_write,
    last_fp,
    last_offs,
    disk,            \* content of each file
    objects,         \* the FatFS objects allocated
    replies,         \* replies of the session, in order
    first,           \* history: requests sent before this session
    expect,          \* history: what the WRITEs completed so far amount to
    hurt,            \* history: files with a FatFS error or an open handle lost
    lost,            \* history: objects nobody holds a handle of
    faults           \* history: FatFS errors

client  == <<requests, held, session>>
server  == <<should_close, last_cmd_write, last_fp, last_offs>>
fatfs   == <<disk, objects>>
history == <<first, expect, hurt, lost, faults>>
vars == <<dvars, client, server, fatfs, replies, history>>

-----------------------------------------------------------------------------
NoAddr == 0
Free   == [kind |-> "free"]
FilObj(name, writes) == [kind |-> "file", name |-> name, writes |-> writes, fptr |-> 0, err |-> FALSE]
DirObj == [kind |-> "dir", done |-> FALSE]

Handle(a) == [addr |-> a, dir |-> objects[a].kind = "dir"]
NoHandle  == [addr |-> NoAddr, dir |-> FALSE]

Init ==
    /\ DInit
    /\ requests = <<>> /\ held = {} /\ session = 1
    /\ should_close = FALSE /\ last_cmd_write = FALSE /\ last_fp = NoAddr /\ last_offs = 0
    /\ disk = [f \in Name |-> Absent] /\ objects = [a \in Addr |-> Free]
    /\ replies = <<>> /\ first = 0
    /\ expect = disk /\ hurt = {} /\ lost = {} /\ faults = 0

-----------------------------------------------------------------------------
(* The client (external). *)

AnyName == CHOOSE f \in Name : TRUE

Request(op, len, h, f, w, o, d) ==
    [op |-> op, len |-> len, h |-> h, name |-> f, writes |-> w, offs |-> o, dlen |-> d]
Plain(op, len)  == Request(op, len, NoHandle, AnyName, FALSE, 0, 0)
OnName(op)      == {Request(op, HDR, NoHandle, f, FALSE, 0, 0) : f \in Name}
OnHandle(op)    == {Request(op, HDR, h, AnyName, FALSE, 0, 0) : h \in held}

(* Requests of this session that have not been looked at. *)
Pending == {k \in (first + 1)..Len(requests) : k > pkt \/ (k = pkt /\ calls = <<>>)}

(* A file is opened by one handle at a time (FF_FS_LOCK is 0: FatFS does    *)
(* not check it), and not removed while it is open.                         *)
Closed(f) == /\ \A a \in Addr : objects[a].kind = "file" => objects[a].name # f
             /\ \A k \in Pending : requests[k].op = "open" => requests[k].name # f

Opens  == {Request("open", HDR, NoHandle, f, w, 0, 0) : f \in {g \in Name : Closed(g)}, w \in BOOLEAN}
Reads  == {Request("read", HDR, h, AnyName, FALSE, o, 0) : h \in held, o \in Offs}
Writable == {h \in held : DirWrites \/ ~h.dir}
Writes == {Request("write", HDR + d, h, AnyName, FALSE, o, d) : h \in Writable, o \in Offs, d \in Dlens}
Removes == {r \in OnName("remove") : Closed(r.name)}
PlainOnes ==
    {Plain("realpath", HDR), Plain("init", MINPKT), Plain("other", HDR),
     Plain("other", CHUNK + 1), Plain("short", 0), Plain("short", MINPKT - 1)}

Requests ==
    Opens \cup Reads \cup Writes \cup Removes \cup PlainOnes
    \cup OnHandle("close") \cup OnHandle("readdir") \cup OnName("opendir") \cup OnName("stat")

Light == {"read", "readdir", "stat", "realpath", "init", "other", "short"}
LightSent == Len(SelectSeq(requests, LAMBDA r : r.op \in Light))

ClientSends ==
    /\ Len(requests) < MaxPkt
    /\ \E r \in Requests :
          /\ r.op \in Ops /\ (r.op \in Light => LightSent < MaxLight)
          /\ requests' = Append(requests, r)
          /\ held' = IF r.op = "close" THEN held \ {r.h} ELSE held
    /\ UNCHANGED <<dvars, session, server, fatfs, replies, history>>

StreamNext ==
    /\ pkt < Len(requests) /\ NextPacket(requests[pkt + 1].len)
    /\ UNCHANGED <<client, server, fatfs, replies, history>>

-----------------------------------------------------------------------------
(* FatFS (external). An error makes the object refuse everything later.     *)

Extended(s, len) == [i \in 1..(IF len > Len(s) THEN len ELSE Len(s)) |->
                       IF i <= Len(s) THEN s[i] ELSE "gap"]
WriteAt(s, offs, data) ==
    [i \in DOMAIN Extended(s, offs + Len(data)) |->
       IF i \in (offs + 1)..(offs + Len(data)) THEN data[i - offs]
                                               ELSE Extended(s, offs + Len(data))[i]]

Works  == faults' = faults /\ hurt' = hurt
Fails(f) == faults < MaxFault /\ faults' = faults + 1 /\ hurt' = hurt \cup f

(* f_lseek, then f_write even if that failed (as continue_write does: an    *)
(* object in error refuses the write as well).                              *)
SeekWrite(a, offs, data, ok) ==
    LET o == objects[a] IN
    \/ /\ ~o.err /\ o.writes /\ ok = TRUE /\ Works
       /\ disk' = [disk EXCEPT ![o.name] = WriteAt(@, offs, data)]
       /\ objects' = [objects EXCEPT ![a].fptr = offs + Len(data)]
    \/ /\ ~o.err /\ ~o.writes /\ ok = FALSE /\ Works /\ UNCHANGED fatfs
    \/ /\ ~o.err /\ ok = FALSE /\ Fails({o.name}) /\ UNCHANGED disk
       /\ objects' = [objects EXCEPT ![a].err = TRUE]
    \/ /\ o.err /\ ok = FALSE /\ Works /\ UNCHANGED fatfs

-----------------------------------------------------------------------------
(* sftp_dispatch_spkt, one action per command.                              *)

req == requests[pkt]
Reply(what) == replies' = Append(replies, [id |-> pkt, what |-> what])
NoFs == UNCHANGED fatfs /\ Works
KeepServer == UNCHANGED server
KeepHeld   == UNCHANGED <<held, lost>>

TooShort ==
    /\ req.op = "short" /\ should_close' = TRUE
    /\ UNCHANGED <<replies, last_cmd_write, last_fp, last_offs>> /\ NoFs /\ KeepHeld

Simple(op, what) == req.op = op /\ Reply(what) /\ NoFs /\ KeepServer /\ KeepHeld

Init_  == Simple("init", "version")
Other  == Simple("other", "unsupported")
Stat   == Simple("stat", "failure") \/ (disk[req.name] # Absent /\ Simple("stat", "attrs"))

(* f_getcwd failing leaves the request without an answer. *)
RealPath ==
    \/ Simple("realpath", "name")
    \/ /\ req.op = "realpath" /\ Fails({})
       /\ UNCHANGED <<replies, fatfs>> /\ KeepServer /\ KeepHeld

FreeAddr == {a \in Addr : objects[a] = Free}

(* malloc takes any free address; none left is an error of f_open. *)
Allocate(o) ==
    \E a \in FreeAddr :
       /\ objects' = [objects EXCEPT ![a] = o]
       /\ held' = held \cup {[addr |-> a, dir |-> o.kind = "dir"]}

Open ==
    /\ req.op = "open" /\ KeepServer /\ UNCHANGED lost
    /\ \/ /\ req.writes \/ disk[req.name] # Absent
          /\ Allocate(FilObj(req.name, req.writes)) /\ Works /\ Reply("handle")
          /\ disk' = IF req.writes THEN [disk EXCEPT ![req.name] = <<>>] ELSE disk
       \/ /\ FreeAddr = {} \/ (~req.writes /\ disk[req.name] = Absent)
          /\ NoFs /\ Reply("failure") /\ UNCHANGED held
       \/ Fails({req.name}) /\ UNCHANGED <<fatfs, held>> /\ Reply("failure")

OpenDir ==
    /\ req.op = "opendir" /\ KeepServer /\ UNCHANGED lost
    /\ \/ Allocate(DirObj) /\ Works /\ Reply("handle") /\ UNCHANGED disk
       \/ FreeAddr = {} /\ NoFs /\ Reply("failure") /\ UNCHANGED held
       \/ Fails({}) /\ UNCHANGED <<fatfs, held>> /\ Reply("failure")

ClosedAddrKept(a) == objects                             \* mutant
ClosedAddr(a)     == [objects EXCEPT ![a] = Free]

(* An object that f_close refuses is not freed. *)
Close ==
    /\ req.op = "close" /\ KeepServer /\ UNCHANGED <<disk, held>>
    /\ LET a == req.h.addr
           f == IF req.h.dir THEN {} ELSE {objects[a].name} IN
       \/ objects' = ClosedAddr(a) /\ Works /\ Reply("ok") /\ UNCHANGED lost
       \/ /\ Fails(f) /\ UNCHANGED objects /\ Reply("failure") /\ lost' = lost \cup {a}

NotA(op, kind) == req.op = op /\ objects[req.h.addr].kind # kind

Read ==
    /\ ~NotA("read", "file") /\ req.op = "read" /\ KeepServer /\ KeepHeld
    /\ LET a == req.h.addr
           o == objects[a] IN
       \/ ~o.err /\ NoFs /\ Reply(IF req.offs < Len(disk[o.name]) THEN "data" ELSE "eof")
       \/ o.err /\ NoFs /\ Reply("failure")
       \/ /\ ~o.err /\ Fails({o.name}) /\ UNCHANGED disk
          /\ objects' = [objects EXCEPT ![a].err = TRUE] /\ Reply("failure")

ReadDir ==
    /\ ~NotA("readdir", "dir") /\ req.op = "readdir" /\ KeepServer /\ KeepHeld
    /\ UNCHANGED disk /\ Works
    /\ objects' = [objects EXCEPT ![req.h.addr].done = TRUE]
    /\ Reply(IF ~objects[req.h.addr].done /\ \E f \in Name : disk[f] # Absent
             THEN "name" ELSE "eof")

WrongKind ==
    /\ NotA("read", "file") \/ NotA("readdir", "dir")
    /\ Reply("no_such_file") /\ NoFs /\ KeepServer /\ KeepHeld

Remove ==
    /\ req.op = "remove" /\ KeepServer /\ KeepHeld /\ UNCHANGED objects
    /\ \/ /\ disk[req.name] # Absent /\ Works /\ Reply("ok")
          /\ disk' = [disk EXCEPT ![req.name] = Absent]
       \/ disk[req.name] = Absent /\ UNCHANGED disk /\ Works /\ Reply("failure")
       \/ UNCHANGED disk /\ Fails({req.name}) /\ Reply("failure")

DataOf(bytes) == SubSeq(bytes, HDR + 1, Len(bytes))
Trimmed       == HDR + req.dlen > Len(got)
OffsetAfterFull    == req.offs + req.dlen                \* mutant
OffsetAfter        == req.offs + Len(DataOf(got))

(* A packet that was cut leaves word for continue_write before anything     *)
(* has been checked.                                                        *)
Remember ==
    /\ UNCHANGED should_close
    /\ IF Trimmed
       THEN last_cmd_write' = TRUE /\ last_fp' = req.h.addr /\ last_offs' = OffsetAfter
       ELSE UNCHANGED <<last_cmd_write, last_fp, last_offs>>

Write ==
    /\ ~NotA("write", "file") /\ req.op = "write" /\ Remember /\ KeepHeld
    /\ \E ok \in BOOLEAN :
          /\ SeekWrite(req.h.addr, req.offs, DataOf(got), ok)
          /\ Reply(IF ok THEN "ok" ELSE "failure")

(* A directory is refused, and then written to all the same.  FatFS takes   *)
(* the DIR for a FIL without write access: it denies the write, but its     *)
(* seek moves the directory's own position.                                 *)
WriteDir ==
    /\ NotA("write", "file") /\ Remember /\ KeepHeld /\ Works /\ UNCHANGED disk
    /\ \E d \in BOOLEAN : objects' = [objects EXCEPT ![req.h.addr].done = d]
    /\ replies' = replies \o <<[id |-> pkt, what |-> "no_such_file"],
                               [id |-> pkt, what |-> "failure"]>>

Spkt == TooShort \/ Init_ \/ Other \/ Stat \/ RealPath \/ Open \/ OpenDir \/ Close
        \/ Read \/ ReadDir \/ WrongKind \/ Remove \/ Write \/ WriteDir

(* continue_write: no answer, and its errors are not looked at. *)
ContinueWrite ==
    /\ UNCHANGED <<replies, should_close, last_cmd_write, last_fp>> /\ KeepHeld
    /\ IF ~last_cmd_write THEN NoFs /\ UNCHANGED last_offs
       ELSE /\ last_offs' = last_offs + Len(got)
            /\ IF objects[last_fp].kind = "file"
               THEN \E ok \in BOOLEAN : SeekWrite(last_fp, last_offs, got, ok)
               ELSE NoFs

-----------------------------------------------------------------------------
(* What a request is to do to the files, once all of it has been received. *)
Written == [expect EXCEPT ![objects[req.h.addr].name] =
              WriteAt(@, req.offs, Cells(LENLEN + HDR, LENLEN + plen))]
Expected ==
    expect' = CASE req.op \in {"open", "remove"} /\ calls = <<>> ->
                     [expect EXCEPT ![req.name] = disk'[req.name]]
                [] /\ req.op = "write" /\ PacketEnd /\ ~req.h.dir
                   /\ objects[req.h.addr].writes -> Written
                [] OTHER -> expect

(* One byte of SSH_MSG_CHANNEL_DATA; should_close does not stop the loop    *)
(* over the message's bytes.                                                *)
ForgetNever(len) == last_cmd_write                       \* mutant
Forget(len)      == last_cmd_write /\ len <= CHUNK

LengthBytes ==
    /\ \/ LengthByte /\ UNCHANGED last_cmd_write
       \/ LengthDone /\ last_cmd_write' = Forget(dpch_len')
    /\ UNCHANGED <<client, should_close, last_fp, last_offs, fatfs, replies, history>>

CollectByte == Collect /\ UNCHANGED <<client, server, fatfs, replies, history>>

SpktByte     == Handed("spkt") /\ Spkt
ContinueByte == Handed("continue") /\ ContinueWrite
CallByte == (SpktByte \/ ContinueByte) /\ Expected /\ UNCHANGED <<requests, session, first>>

(* CHANNEL_EOF, CHANNEL_CLOSE and KEXINIT. *)
CloseMessage ==
    /\ ~should_close /\ should_close' = TRUE
    /\ UNCHANGED <<dvars, client, last_cmd_write, last_fp, last_offs, fatfs, replies, history>>

(* The loop of sshd_acpt ends because of should_close or because the client *)
(* is gone.  Nothing closes the handles.  The next session starts with      *)
(* sftp_parser_init.                                                        *)
OpenAddr  == {h.addr : h \in held} \cup
             {requests[k].h.addr : k \in {j \in Pending : requests[j].op = "close"}}
OpenNames == {objects[a].name : a \in {b \in OpenAddr : objects[b].kind = "file"}}
NewSessionStale ==                                       \* mutant
    last_cmd_write' = FALSE /\ UNCHANGED <<dpch_state, dpch_len, dpch_cnt, chnldat>>
NewSession == Reset /\ last_cmd_write' = FALSE

EndSession ==
    /\ session < MaxSession /\ session' = session + 1
    /\ lost' = lost \cup OpenAddr /\ hurt' = hurt \cup OpenNames /\ held' = {}
    /\ StreamRestarts(Len(requests)) /\ first' = Len(requests) /\ replies' = <<>>
    /\ NewSession /\ should_close' = FALSE
    /\ UNCHANGED <<requests, last_fp, last_offs, fatfs, expect, faults>>

Next == ClientSends \/ StreamNext \/ LengthBytes \/ CollectByte \/ CallByte
        \/ CloseMessage \/ EndSession

Spec == Init /\ [][Next]_vars

-----------------------------------------------------------------------------
Cell == (Nat \X Nat) \cup {"gap"}
TypeOK ==
    /\ DTypeOK
    /\ \A h \in held : h.addr \in Addr /\ h.dir \in BOOLEAN
    /\ session \in 1..MaxSession /\ first \in 0..MaxPkt
    /\ should_close \in BOOLEAN /\ last_cmd_write \in BOOLEAN
    /\ last_fp \in Addr \cup {NoAddr} /\ last_offs \in Nat
    /\ \A f \in Name : disk[f] = Absent \/ disk[f] \in Seq(Cell)
    /\ DOMAIN objects = Addr /\ lost \subseteq Addr /\ hurt \subseteq Name

(* Between two packets every file is what the WRITEs to it say, whole and   *)
(* at their offsets, however they were cut into chunks and whatever large   *)
(* packets came between them; a FatFS error or a session that ended with    *)
(* the file open excuses that file alone (sftp_parse.c:393-449, 718-743).   *)
FilesExact ==
    pos = LENLEN + plen => \A f \in Name \ hurt : disk[f] = expect[f]

(* What continue_write relies on is about the packet being received: its    *)
(* handle, and the offset its next byte belongs to (sftp_parse.c:410-416,   *)
(* 146, 742).                                                               *)
ContinueOwn ==
    (last_cmd_write /\ dpch_state = "REG" /\ dpch_cnt >= CHUNK) =>
        /\ req.op = "write" /\ last_fp = req.h.addr
        /\ last_offs = req.offs + (dpch_cnt - Len(chnldat)) - HDR

(* The FatFS objects allocated are those behind the handles the client      *)
(* holds or is about to close, and those lost; a handle never names an      *)
(* object that was freed or given out again (sftp_parse.c:274-326).         *)
HandlesLive ==
    /\ {a \in Addr : objects[a] # Free} = OpenAddr \cup lost
    /\ OpenAddr \cap lost = {}
    /\ \A h \in held : h = Handle(h.addr)

(* What the client reads: every request is answered exactly once, in the    *)
(* order sent, whether it came in one chunk or several (sftp_parse.c:212-   *)
(* 743).  Not covered: REALPATH, which may stay unanswered, and a WRITE to  *)
(* a directory, which is answered twice.                                    *)
Dispatched == IF calls = <<>> THEN pkt - 1 ELSE pkt
Owed       == {k \in (first + 1)..Dispatched : requests[k].op # "short"}
Settled(k) == requests[k].op # "realpath" /\ ~(requests[k].op = "write" /\ requests[k].h.dir)
OneReply ==
    /\ \A i \in 1..Len(replies) : replies[i].id \in Owed
    /\ \A i, j \in 1..Len(replies) : i < j =>
          \/ replies[i].id < replies[j].id
          \/ replies[i].id = replies[j].id /\ ~Settled(replies[i].id)
    /\ \A k \in Owed : Settled(k) => \E i \in 1..Len(replies) : replies[i].id = k
=============================================================================
