----------------------------- MODULE HostsFile -----------------------------
(***************************************************************************)
(* The hosts file and the two operations of pkg/hosts/hosts.go on it,      *)
(* UpdateEntry and RemoveEntry, run by several init-vm processes: each     *)
(* reads the file, computes its new lines, truncates the file and writes   *)
(* it. Nothing locks the file.                                             *)
(*                                                                         *)
(* The file is the sequence of lines that strings.Split finds in it: never *)
(* empty, and with an empty last line when the text ends in a newline.     *)
(***************************************************************************)
EXTENDS Naturals, Sequences, FiniteSets

CONSTANTS
    Procs,      \* processes that use the file
    Rooms,      \* rooms; a room's name stands for its host name, room.thm
    Others,     \* other host names in the file, which no room is called
    IPs,        \* addresses
    Comment,    \* a line that is a comment
    Files,      \* what the file may hold at first
    MaxOps      \* bound: operations in a behaviour

Blank == [ip |-> "none", host |-> ""]
Entry(room, ip) == [ip |-> ip, host |-> room]
Lines == {Blank, Comment} \cup [ip : IPs, host : Rooms \cup Others]

ASSUME HostsFileAssumption ==
    /\ Files \subseteq Seq(Lines) \ {<<>>}
    /\ Rooms \cap Others = {} /\ "" \notin Rooms \cup Others
    /\ Comment.host \notin Rooms
    /\ IPs \cap {"gone", "unset"} = {}
    /\ MaxOps \in Nat

VARIABLES
    file, original,     \* its lines now, and at first
    pc, op, new,        \* each process: place, operation, lines to write
    entry,              \* the address each room's lines should have, by the last
                        \* operation that ended: an address, "gone" or "unset"
    overlap,            \* two operations have overlapped, or one died writing
    ops                 \* operations begun

hostsVars == <<file, original, pc, op, new, entry, overlap, ops>>

Ops == [room : Rooms, ip : IPs \cup {"gone"}]

-----------------------------------------------------------------------------
(* The new contents *)

Names(line, room) == line.host = room

\* Variant with a defect: only the first such line is replaced.
ReplacedFirst(ls, room, ip) ==
    [i \in 1..Len(ls) |->
        IF Names(ls[i], room) /\ \A j \in 1..(i - 1) : ~Names(ls[j], room)
        THEN Entry(room, ip) ELSE ls[i]]

\* UpdateEntry puts the entry in place of every line that names the host, ...
Replaced(ls, room, ip) ==
    [i \in 1..Len(ls) |-> IF Names(ls[i], room) THEN Entry(room, ip) ELSE ls[i]]

\* Variant with a defect: the last line is overwritten.
AppendedOver(ls, room, ip) == SubSeq(ls, 1, Len(ls) - 1) \o <<Entry(room, ip)>>

\* ... or at the end, after an empty line if the last one is not empty.
Appended(ls, room, ip) ==
    (IF ls[Len(ls)] # Blank THEN Append(ls, Blank) ELSE ls) \o <<Entry(room, ip)>>

\* The lines read back after strings.Join and the newline that is added unless
\* the text ends in one.
Written(ls) ==
    CASE ls = <<>> -> <<Blank, Blank>>
      [] Len(ls) >= 2 /\ ls[Len(ls)] = Blank -> ls
      [] OTHER -> Append(ls, Blank)

HasName(ls, room) == \E i \in 1..Len(ls) : Names(ls[i], room)

\* Variant with a defect: an entry that is there is not recognised.
UpdatedBlindly(ls, room, ip) == Written(Appended(ls, room, ip))

Updated(ls, room, ip) ==
    Written(IF HasName(ls, room) THEN Replaced(ls, room, ip) ELSE Appended(ls, room, ip))

\* The lines of ls at the places in T, in their order.
Rank(T, i) == Cardinality({j \in T : j <= i})
LinesAt(ls, T) == [k \in 1..Cardinality(T) |-> ls[CHOOSE i \in T : Rank(T, i) = k]]

PlacesOf(ls, room) == {i \in 1..Len(ls) : Names(ls[i], room)}

Removed(ls, room) ==
    IF HasName(ls, room) THEN Written(LinesAt(ls, (1..Len(ls)) \ PlacesOf(ls, room))) ELSE ls

Applied(ls, o) == IF o.ip = "gone" THEN Removed(ls, o.room) ELSE Updated(ls, o.room, o.ip)

-----------------------------------------------------------------------------
HostsTypeOK ==
    /\ file \in Seq(Lines) \ {<<>>} /\ original \in Files
    /\ pc \in [Procs -> {"idle", "truncate", "write"}]
    /\ op \in [Procs -> Ops]
    /\ new \in [Procs -> Seq(Lines)]
    /\ entry \in [Rooms -> IPs \cup {"gone", "unset"}]
    /\ overlap \in BOOLEAN
    /\ ops \in 0..MaxOps

HostsInit ==
    /\ file \in Files /\ original = file
    /\ pc = [p \in Procs |-> "idle"]
    /\ op \in [Procs -> {CHOOSE o \in Ops : TRUE}]
    /\ new = [p \in Procs |-> <<>>]
    /\ entry = [r \in Rooms |-> "unset"]
    /\ overlap = FALSE /\ ops = 0

Alone(p) == \A q \in Procs \ {p} : pc[q] = "idle"

OpDone(p, o) ==
    /\ pc' = [pc EXCEPT ![p] = "idle"]
    /\ entry' = [entry EXCEPT ![o.room] = o.ip]

\* os.ReadFile and the loop over the lines. RemoveEntry does not write when it
\* found nothing; a file that cannot be read ends both operations.
ReadFile(p, o) ==
    /\ pc[p] = "idle" /\ ops < MaxOps
    /\ ops' = ops + 1
    /\ overlap' = (overlap \/ ~Alone(p))
    /\ op' = [op EXCEPT ![p] = o]
    /\ new' = [new EXCEPT ![p] = Applied(file, o)]
    /\ IF o.ip = "gone" /\ ~HasName(file, o.room)
       THEN OpDone(p, o)
       ELSE pc' = [pc EXCEPT ![p] = "truncate"] /\ UNCHANGED entry
    /\ UNCHANGED <<file, original>>

\* os.WriteFile, or sudo tee when it is denied: both truncate and then write.
Truncate(p) ==
    /\ pc[p] = "truncate"
    /\ file' = <<Blank>>
    /\ pc' = [pc EXCEPT ![p] = "write"]
    /\ UNCHANGED <<original, op, new, entry, overlap, ops>>

WriteFile(p) ==
    /\ pc[p] = "write"
    /\ file' = new[p]
    /\ OpDone(p, op[p])
    /\ UNCHANGED <<original, op, new, overlap, ops>>

\* Neither WriteFile nor sudo may write: an error the callers ignore.
Denied(p) ==
    /\ pc[p] = "truncate"
    /\ pc' = [pc EXCEPT ![p] = "idle"]
    /\ UNCHANGED <<file, original, op, new, entry, overlap, ops>>

\* The process is killed: the file stays as it is, possibly truncated.
Die(p) ==
    /\ pc[p] # "idle"
    /\ pc' = [pc EXCEPT ![p] = "idle"]
    /\ overlap' = (overlap \/ pc[p] = "write")
    /\ UNCHANGED <<file, original, op, new, entry, ops>>

HostsOver == ops = MaxOps /\ (\A p \in Procs : pc[p] = "idle") /\ UNCHANGED hostsVars

HostsNext ==
    \/ \E p \in Procs : \/ \E o \in Ops : ReadFile(p, o)
                        \/ Truncate(p) \/ WriteFile(p) \/ Denied(p) \/ Die(p)
    \/ HostsOver

HostsSpec == HostsInit /\ [][HostsNext]_hostsVars

-----------------------------------------------------------------------------
(* Properties. They are about operations that do not overlap and are not     *)
(* killed while they write: others lose lines.                               *)

Quiet == ~overlap /\ \A p \in Procs : pc[p] # "write"

ForeignPlaces(ls) == {i \in 1..Len(ls) : ls[i] # Blank /\ ls[i].host \notin Rooms}
Foreign(ls) == LinesAt(ls, ForeignPlaces(ls))

\* The lines of other hosts, and comments, survive any number of operations, in
\* their order.
OthersKept == Quiet => Foreign(file) = Foreign(original)

\* A room whose last operation was an update resolves to that address and to no
\* other, however many lines named it; one that was removed resolves to none.
EntryIsLatest ==
    Quiet => \A r \in Rooms :
        /\ entry[r] \in IPs => HasName(file, r)
        /\ \A i \in 1..Len(file) : Names(file[i], r) =>
               entry[r] = "unset" \/ file[i] = Entry(r, entry[r])

BlankPlaces(ls) == {i \in 1..Len(ls) : ls[i] = Blank}
Bound(n) == IF n = 0 THEN 1 ELSE n

\* However often rooms are started and terminated, their lines do not pile up:
\* UpdateEntry writes a second line for a room only where one was already, and
\* an operation leaves at most one more empty line behind.
GrowthBounded ==
    Quiet =>
        /\ \A r \in Rooms :
              Cardinality(PlacesOf(file, r)) <= Bound(Cardinality(PlacesOf(original, r)))
        /\ Cardinality(BlankPlaces(file)) <= Cardinality(BlankPlaces(original)) + ops + 1

=============================================================================
