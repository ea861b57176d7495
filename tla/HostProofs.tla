----------------------------- MODULE HostProofs -------------------------------
(***************************************************************************)
(* Proofs about what the commands of init-vm use on the user's machine: the  *)
(* login prompt, for every set of contents that the session file may have   *)
(* at first; the hosts file, for every text, room and address; the VPN      *)
(* script, for any number of calls and pids.                                *)
(***************************************************************************)
EXTENDS LoginGate, HostsFile, VpnScript, FiniteSetTheorems, TLAPS

-----------------------------------------------------------------------------
(* The login prompt                                                          *)

Forced == entered \/ signalled \/ ~tty \/ unsaved # {}

\* Whoever puts a token into done has seen what it is for; so has, then, the
\* main goroutine once it is past the prompt. When it launches the headless
\* browser the session is a user's, unless the prompt was forced or not saved.
TokensHaveCause ==
    /\ prod["sig"] # "work" => signalled
    /\ prod["enter"] # "work" => entered \/ ~tty
    /\ prod["poller"] = "send" => loggedIn \/ Forced
    /\ done => loggedIn \/ Forced
    /\ main \notin {"starting", "waiting", "dead"} => loggedIn \/ Forced
    /\ main \in {"close", "relaunch"} => session = "user" \/ Forced
    /\ main = "guest" => Forced

GateInv == GateTypeOK /\ TokensHaveCause /\ GuestOnlyByForce

-----------------------------------------------------------------------------
\* The flags stay flags.
LEMMA GateFlags ==
    GateTypeOK /\ [GateNext]_gateVars =>
        /\ done' \in BOOLEAN /\ tty' \in BOOLEAN /\ headless' \in BOOLEAN
        /\ loggedIn' \in BOOLEAN /\ entered' \in BOOLEAN /\ signalled' \in BOOLEAN
<1> DEFINE Flags == /\ done \in BOOLEAN /\ tty \in BOOLEAN /\ headless \in BOOLEAN
                    /\ loggedIn \in BOOLEAN /\ entered \in BOOLEAN /\ signalled \in BOOLEAN
<1> SUFFICES ASSUME Flags, [GateNext]_gateVars PROVE Flags'
  BY Zenon DEF GateTypeOK
<1> USE DEF worldVars
<1>1. CASE Await \/ Work
  BY <1>1, Zenon DEF Await, Work
<1>2. CASE SaveSession \/ WriteSession \/ CloseWindow
  BY <1>2, Zenon DEF SaveSession, WriteSession, CloseWindow
<1>3. CASE Relaunch
  BY <1>3, Zenon DEF Relaunch
<1>4. CASE Poll
  BY <1>4, Zenon DEF Poll, PollSelect, PollMisses, PollDetects
<1>5. CASE CatchSignal \/ ReadEnter
  BY <1>5, Zenon DEF CatchSignal, ReadEnter
<1>6. ASSUME NEW p \in Producers, SendDone(p) PROVE Flags'
  BY <1>6, Zenon DEF SendDone
<1>7. CASE SignalGoroutine
  BY <1>7, Zenon DEF SignalGoroutine, CloseAll, BrowsersClosed, ExitProcess
<1>8. CASE LogIn \/ Interrupt \/ WindowGone
  BY <1>8, Zenon DEF LogIn, Interrupt, WindowGone
<1>9. CASE GateOver \/ UNCHANGED gateVars
  BY <1>9, Zenon DEF GateOver, gateVars
<1> QED BY <1>1, <1>2, <1>3, <1>4, <1>5, <1>6, <1>7, <1>8, <1>9, Zenon DEF GateNext, Prompt

\* The variables keep their types.
LEMMA GateTypeInductive == GateTypeOK /\ [GateNext]_gateVars => GateTypeOK'
<1> DEFINE Rest == /\ main \in MainLabels \cup {"dead"}
                   /\ prod \in [Producers -> {"work", "check", "send", "end"}]
                   /\ exiting \in {"waiting", "closing", "exit"}
                   /\ browser \in {"open", "closed", "gone"}
                   /\ session \in Contents /\ unsaved \subseteq {"kept", "cut"}
           Parked == ~(main = "waiting" /\ done)
<1> SUFFICES ASSUME GateTypeOK, [GateNext]_gateVars PROVE Rest' /\ Parked'
  BY GateFlags, Zenon DEF GateTypeOK
<1>1. Rest /\ Parked
  BY Zenon DEF GateTypeOK
<1>2. Rest'
  <2> USE <1>1 DEF MainLabels, Producers, Contents, worldVars
  <2>1. CASE Await \/ Work
    BY <2>1 DEF Await, Work
  <2>2. CASE SaveSession \/ WriteSession \/ CloseWindow
    BY <2>2 DEF SaveSession, WriteSession, CloseWindow
  <2>3. CASE Relaunch
    BY <2>3 DEF Relaunch
  <2>4. CASE Poll
    BY <2>4 DEF Poll, PollSelect, PollMisses, PollDetects
  <2>5. CASE CatchSignal \/ ReadEnter
    BY <2>5 DEF CatchSignal, ReadEnter
  <2>6. ASSUME NEW p \in Producers, SendDone(p) PROVE Rest'
    BY <2>6 DEF SendDone
  <2>7. CASE SignalGoroutine
    BY <2>7 DEF SignalGoroutine, CloseAll, BrowsersClosed, ExitProcess
  <2>8. CASE LogIn \/ Interrupt \/ WindowGone
    BY <2>8 DEF LogIn, Interrupt, WindowGone
  <2>9. CASE GateOver \/ UNCHANGED gateVars
    BY <2>9 DEF GateOver, gateVars
  <2> QED BY <2>1, <2>2, <2>3, <2>4, <2>5, <2>6, <2>7, <2>8, <2>9, Zenon DEF GateNext, Prompt
<1>3. Parked'
  <2> USE <1>1 DEF worldVars
  <2>1. CASE Await \/ Work
    BY <2>1, Zenon DEF Await, Work
  <2>2. CASE SaveSession \/ WriteSession \/ CloseWindow \/ Relaunch
    BY <2>2 DEF SaveSession, WriteSession, CloseWindow, Relaunch
  <2>3. CASE Poll
    BY <2>3, Zenon DEF Poll, PollSelect, PollMisses, PollDetects
  <2>4. CASE CatchSignal \/ ReadEnter
    BY <2>4, Zenon DEF CatchSignal, ReadEnter
  <2>5. ASSUME NEW p \in Producers, SendDone(p) PROVE Parked'
    BY <2>5 DEF SendDone
  <2>6. CASE SignalGoroutine
    BY <2>6 DEF SignalGoroutine, CloseAll, BrowsersClosed, ExitProcess
  <2>7. CASE LogIn \/ Interrupt \/ WindowGone
    BY <2>7, Zenon DEF LogIn, Interrupt, WindowGone
  <2>8. CASE GateOver \/ UNCHANGED gateVars
    BY <2>8, Zenon DEF GateOver, gateVars
  <2> QED BY <2>1, <2>2, <2>3, <2>4, <2>5, <2>6, <2>7, <2>8, Zenon DEF GateNext, Prompt
<1> QED BY <1>2, <1>3, Zenon

\* A token never comes from nothing, and a guest's cookies need a user who forced
\* the prompt.
LEMMA CauseInductive == GateInv /\ [GateNext]_gateVars => TokensHaveCause' /\ GuestOnlyByForce'
<1> SUFFICES ASSUME GateInv, [GateNext]_gateVars PROVE TokensHaveCause' /\ GuestOnlyByForce'
  OBVIOUS
<1> USE DEF GateInv, GateTypeOK, TokensHaveCause, GuestOnlyByForce, Forced, MainLabels, Producers, Running, worldVars
<1>1. CASE Await
  BY <1>1 DEF Await
<1>2. CASE SaveSession
  BY <1>2 DEF SaveSession
<1>3. CASE WriteSession \/ CloseWindow \/ Relaunch
  BY <1>3 DEF WriteSession, CloseWindow, Relaunch
<1>4. CASE Poll
  BY <1>4 DEF Poll, PollSelect, PollMisses, PollDetects
<1>5. CASE CatchSignal \/ ReadEnter
  BY <1>5 DEF CatchSignal, ReadEnter
<1>6. ASSUME NEW p \in Producers, SendDone(p) PROVE TokensHaveCause' /\ GuestOnlyByForce'
  BY <1>6 DEF SendDone
<1>7. CASE SignalGoroutine
  BY <1>7 DEF SignalGoroutine, CloseAll, BrowsersClosed, ExitProcess
<1>8. CASE LogIn \/ Interrupt \/ WindowGone
  BY <1>8 DEF LogIn, Interrupt, WindowGone
<1>9. CASE GateOver \/ UNCHANGED gateVars
  BY <1>9 DEF GateOver, gateVars
<1>10. CASE Work
  BY <1>10 DEF Work
<1> QED BY <1>1, <1>2, <1>3, <1>4, <1>5, <1>6, <1>7, <1>8, <1>9, <1>10 DEF GateNext, Prompt

\* The invariant that the statement about the session file rests on.
THEOREM GateInvariant == GateSpec => []GateInv
<1>1. GateInit => GateInv
  BY LoginGateAssumption DEF GateInit, GateInv, GateTypeOK, TokensHaveCause, GuestOnlyByForce,
       Forced, MainLabels, Producers, Contents
<1>2. GateInv /\ [GateNext]_gateVars => GateInv'
  BY GateTypeInductive, CauseInductive DEF GateInv
<1> QED BY <1>1, <1>2, PTL DEF GateSpec

\* A guest's cookies replace the session only when the user forced the prompt, or
\* where there is no terminal, or when a login was not saved.
THEOREM GuestByForce == GateSpec => []GuestOnlyByForce
BY GateInvariant, PTL DEF GateInv

\* Only a process that writes the session file, or could not finish, leaves it broken.
THEOREM BrokenByWriting == GateSpec => []BrokenOnlyByWriting
<1>1. GateInit => BrokenOnlyByWriting
  BY DEF GateInit, BrokenOnlyByWriting
<1>2. BrokenOnlyByWriting /\ [GateNext]_gateVars => BrokenOnlyByWriting'
  <2> SUFFICES ASSUME BrokenOnlyByWriting, [GateNext]_gateVars PROVE BrokenOnlyByWriting'
    OBVIOUS
  <2> USE DEF BrokenOnlyByWriting, worldVars
  <2>1. CASE Prompt \/ Work
    BY <2>1 DEF Prompt, Work, Await, SaveSession, WriteSession, CloseWindow, Relaunch
  <2>2. CASE Poll \/ CatchSignal \/ ReadEnter
    BY <2>2 DEF Poll, PollSelect, PollMisses, PollDetects, CatchSignal, ReadEnter
  <2>3. ASSUME NEW p \in Producers, SendDone(p) PROVE BrokenOnlyByWriting'
    BY <2>3 DEF SendDone
  <2>4. CASE SignalGoroutine \/ LogIn \/ Interrupt \/ WindowGone
    BY <2>4 DEF SignalGoroutine, CloseAll, BrowsersClosed, ExitProcess, LogIn, Interrupt, WindowGone
  <2>5. CASE GateOver \/ UNCHANGED gateVars
    BY <2>5 DEF GateOver, gateVars
  <2> QED BY <2>1, <2>2, <2>3, <2>4, <2>5 DEF GateNext
<1> QED BY <1>1, <1>2, PTL DEF GateSpec

-----------------------------------------------------------------------------
(* The hosts file                                                            *)

-----------------------------------------------------------------------------
(* Places and ranks *)

\* The ranks of a set's members count them in their order.
LEMMA RankOrder ==
    ASSUME NEW T \in SUBSET Nat, IsFiniteSet(T)
    PROVE  /\ \A i \in T : Rank(T, i) \in 1..Cardinality(T)
           /\ \A i, j \in T : i < j <=> Rank(T, i) < Rank(T, j)
           /\ \A i, j \in T : Rank(T, i) = Rank(T, j) => i = j
           /\ \A k \in 1..Cardinality(T) : \E i \in T : Rank(T, i) = k
<1> DEFINE Below(i) == {j \in T : j <= i}
<1>1. \A i \in T : IsFiniteSet(Below(i)) /\ Cardinality(Below(i)) \in Nat
                   /\ Cardinality(Below(i)) <= Cardinality(T)
  BY FS_Subset, FS_CardinalityType
<1>2. ASSUME NEW i \in T PROVE Rank(T, i) \in 1..Cardinality(T)
  <2>1. i \in Below(i)
    OBVIOUS
  <2>2. Cardinality(Below(i)) # 0
    BY <1>1, <2>1, FS_EmptySet
  <2>3. Cardinality(T) \in Nat
    BY FS_CardinalityType
  <2> QED BY <1>1, <2>2, <2>3 DEF Rank
<1>3. ASSUME NEW i \in T, NEW j \in T, i < j PROVE Rank(T, i) < Rank(T, j)
  <2>0. \A x \in T : x \in Nat
    OBVIOUS
  <2>a. i \in Nat /\ j \in Nat
    BY <2>0
  <2>b. \A x \in T : x <= i => x <= j
    BY <1>3, <2>0, <2>a
  <2>c. j <= j /\ ~(j <= i)
    BY <1>3, <2>a
  <2>1. Below(i) \subseteq Below(j) /\ j \in Below(j) /\ j \notin Below(i)
    BY <2>b, <2>c, Zenon
  <2>2. Cardinality(Below(i)) <= Cardinality(Below(j))
        /\ (Cardinality(Below(j)) = Cardinality(Below(i)) => Below(j) = Below(i))
    BY <1>1, <2>1, FS_Subset
  <2>3. Cardinality(Below(i)) # Cardinality(Below(j))
    BY <2>1, <2>2
  <2>4. Cardinality(Below(i)) \in Nat /\ Cardinality(Below(j)) \in Nat
    BY <1>1
  <2> HIDE DEF Below
  <2> QED BY <2>2, <2>3, <2>4 DEF Rank, Below
<1>4. \A i, j \in T : i < j \/ j < i \/ i = j
  OBVIOUS
<1>5. \A i, j \in T : i < j <=> Rank(T, i) < Rank(T, j)
  BY <1>2, <1>3, <1>4
<1>6. \A i, j \in T : Rank(T, i) = Rank(T, j) => i = j
  BY <1>2, <1>3, <1>4
<1>7. ASSUME NEW k \in 1..Cardinality(T) PROVE \E i \in T : Rank(T, i) = k
  <2> DEFINE n == Cardinality(T)
             f == [i \in T |-> Rank(T, i)]
  <2>1. n \in Nat
    BY FS_CardinalityType
  <2>2. IsFiniteSet(1..n) /\ Cardinality(1..n) = n
    BY <2>1, FS_Interval
  <2>3. f \in [T -> 1..n] /\ \A i, j \in T : f[i] = f[j] => i = j
    BY <1>2, <1>6
  <2>5. f \in Injection(T, 1..n)
    BY <2>3, Zenon DEF Injection, IsInjective
  <2>4. f \in Surjection(T, 1..n)
    BY <2>2, <2>5, FS_Injection
  <2> QED BY <2>4 DEF Surjection
<1> QED BY <1>2, <1>5, <1>6, <1>7

\* What LinesAt holds, and where.
LEMMA LinesAtRank ==
    ASSUME NEW ls, NEW T \in SUBSET Nat, IsFiniteSet(T)
    PROVE  /\ Cardinality(T) \in Nat
           /\ DOMAIN LinesAt(ls, T) = 1..Cardinality(T)
           /\ \A i \in T : Rank(T, i) \in 1..Cardinality(T) /\ LinesAt(ls, T)[Rank(T, i)] = ls[i]
           /\ \A k \in 1..Cardinality(T) : \E i \in T : k = Rank(T, i) /\ LinesAt(ls, T)[k] = ls[i]
<1>1. Cardinality(T) \in Nat
  BY FS_CardinalityType
<1>2. ASSUME NEW i \in T
      PROVE  Rank(T, i) \in 1..Cardinality(T) /\ LinesAt(ls, T)[Rank(T, i)] = ls[i]
  <2>1. Rank(T, i) \in 1..Cardinality(T)
    BY RankOrder
  <2>2. \A j \in T : Rank(T, j) = Rank(T, i) => j = i
    BY RankOrder
  <2>3. (CHOOSE j \in T : Rank(T, j) = Rank(T, i)) = i
    BY <2>2
  <2> QED BY <2>1, <2>3 DEF LinesAt
<1>3. ASSUME NEW k \in 1..Cardinality(T)
      PROVE  \E i \in T : k = Rank(T, i) /\ LinesAt(ls, T)[k] = ls[i]
  <2>1. PICK i \in T : Rank(T, i) = k
    BY RankOrder
  <2> QED BY <1>2, <2>1
<1>4. DOMAIN LinesAt(ls, T) = 1..Cardinality(T)
  BY DEF LinesAt
<1> QED BY <1>1, <1>2, <1>3, <1>4

\* Only the lines at the places matter.
LEMMA LinesAtAlike ==
    ASSUME NEW ls, NEW ms, NEW T \in SUBSET Nat, IsFiniteSet(T), \A i \in T : ls[i] = ms[i]
    PROVE  LinesAt(ls, T) = LinesAt(ms, T)
<1>1. \A k \in 1..Cardinality(T) : LinesAt(ls, T)[k] = LinesAt(ms, T)[k]
  <2> TAKE k \in 1..Cardinality(T)
  <2>1. PICK i \in T : k = Rank(T, i) /\ LinesAt(ls, T)[k] = ls[i]
    BY LinesAtRank
  <2>2. LinesAt(ms, T)[k] = ms[i]
    BY <2>1, LinesAtRank
  <2> QED BY <2>1, <2>2
<1> QED BY <1>1 DEF LinesAt

\* The ranks that places have among others, and how many they are.
LEMMA RanksOf ==
    ASSUME NEW U \in SUBSET Nat, IsFiniteSet(U), NEW T \in SUBSET U
    PROVE  LET V == {Rank(U, i) : i \in T}
           IN  IsFiniteSet(V) /\ Cardinality(V) = Cardinality(T) /\ V \in SUBSET Nat
<1> DEFINE V == {Rank(U, i) : i \in T}
           f == [i \in T |-> Rank(U, i)]
<1>1. \A i \in U : Rank(U, i) \in Nat
  <2>1. Cardinality(U) \in Nat
    BY FS_CardinalityType
  <2> QED BY <2>1, RankOrder
<1>2. V \subseteq Nat
  BY <1>1
<1>3. f \in [T -> V] /\ (\A v \in V : \E i \in T : f[i] = v)
  OBVIOUS
<1>4. \A i, j \in T : f[i] = f[j] => i = j
  BY RankOrder
<1>5. f \in Bijection(T, V)
  <2> HIDE DEF V, f
  <2> QED BY <1>3, <1>4, Zenon DEF Bijection, Injection, Surjection, IsInjective
<1>6. IsFiniteSet(T)
  BY FS_Subset
<1>7. ExistsBijection(T, V)
  BY <1>5 DEF ExistsBijection
<1>8. IsFiniteSet(V) /\ Cardinality(V) = Cardinality(T)
  BY <1>6, <1>7, FS_Bijection
<1> QED BY <1>2, <1>8

\* Taking lines from lines that were taken.
LEMMA LinesAtTwice ==
    ASSUME NEW ls, NEW U \in SUBSET Nat, IsFiniteSet(U), NEW T \in SUBSET U
    PROVE  LinesAt(LinesAt(ls, U), {Rank(U, i) : i \in T}) = LinesAt(ls, T)
<1> DEFINE V == {Rank(U, i) : i \in T}
           ks == LinesAt(ls, U)
<1>1. IsFiniteSet(V) /\ Cardinality(V) = Cardinality(T) /\ V \in SUBSET Nat
  BY RanksOf, Zenon
<1>2. IsFiniteSet(T) /\ T \in SUBSET Nat
  BY FS_Subset
<1>3. ASSUME NEW i \in T PROVE Rank(V, Rank(U, i)) = Rank(T, i)
  <2> DEFINE Below == {j \in T : j <= i}
             Ranks == {Rank(U, j) : j \in Below}
  <2>1. \A j \in T : j <= i <=> Rank(U, j) <= Rank(U, i)
    <3>1. \A j \in U : Rank(U, j) \in Nat
      BY RankOrder, LinesAtRank
    <3> QED BY <3>1, RankOrder
  <2>2. {v \in V : v <= Rank(U, i)} = Ranks
    BY <2>1
  <2>3. Cardinality(Ranks) = Cardinality(Below)
    <3>1. Below \in SUBSET U
      OBVIOUS
    <3> HIDE DEF Below
    <3> QED BY <3>1, RanksOf, Zenon
  <2> QED BY <2>2, <2>3 DEF Rank
<1>4. ASSUME NEW k \in 1..Cardinality(T) PROVE LinesAt(ks, V)[k] = LinesAt(ls, T)[k]
  <2>1. PICK i \in T : k = Rank(T, i) /\ LinesAt(ls, T)[k] = ls[i]
    BY <1>2, LinesAtRank
  <2>2. ks[Rank(U, i)] = ls[i]
    BY LinesAtRank
  <2>3. Rank(U, i) \in V
    OBVIOUS
  <2> HIDE DEF V, ks
  <2>4. LinesAt(ks, V)[Rank(V, Rank(U, i))] = ks[Rank(U, i)]
    BY <1>1, <2>3, LinesAtRank
  <2> QED BY <1>3, <2>1, <2>2, <2>4
<1>5. DOMAIN LinesAt(ks, V) = 1..Cardinality(T) /\ DOMAIN LinesAt(ls, T) = 1..Cardinality(T)
  BY <1>1 DEF LinesAt
<1>6. LinesAt(ks, V) = [k \in 1..Cardinality(T) |-> LinesAt(ks, V)[k]]
      /\ LinesAt(ls, T) = [k \in 1..Cardinality(T) |-> LinesAt(ls, T)[k]]
  BY <1>1 DEF LinesAt
<1> HIDE DEF V, ks
<1>7. LinesAt(ks, V) = LinesAt(ls, T)
  BY <1>4, <1>6
<1> QED BY <1>7 DEF V, ks

-----------------------------------------------------------------------------
(* What the operations make of the lines *)

\* A file is never without lines: the empty one has a blank line.
Text == Seq(Lines) \ {<<>>}

\* Which lines name which rooms.
LEMMA LinesFacts ==
    /\ Blank \in Lines /\ \A r \in Rooms : ~Names(Blank, r)
    /\ \A r \in Rooms, ip \in IPs :
          /\ Entry(r, ip) \in Lines /\ Entry(r, ip) # Blank
          /\ \A q \in Rooms : Names(Entry(r, ip), q) <=> q = r
BY HostsFileAssumption DEF Lines, Blank, Entry, Names

\* The places of a text that the proofs count are finitely many.
LEMMA PlacesFinite ==
    ASSUME NEW ls, Len(ls) \in Nat
    PROVE  /\ \A r : /\ IsFiniteSet(PlacesOf(ls, r)) /\ PlacesOf(ls, r) \in SUBSET Nat
                     /\ Cardinality(PlacesOf(ls, r)) \in Nat
           /\ IsFiniteSet(ForeignPlaces(ls)) /\ ForeignPlaces(ls) \in SUBSET Nat
           /\ IsFiniteSet(BlankPlaces(ls)) /\ BlankPlaces(ls) \in SUBSET Nat
           /\ Cardinality(BlankPlaces(ls)) \in Nat
<1>1. IsFiniteSet(1..Len(ls)) /\ 1..Len(ls) \in SUBSET Nat
  BY FS_Interval
<1>2. ForeignPlaces(ls) \in SUBSET (1..Len(ls)) /\ BlankPlaces(ls) \in SUBSET (1..Len(ls))
      /\ \A r : PlacesOf(ls, r) \in SUBSET (1..Len(ls))
  BY DEF ForeignPlaces, BlankPlaces, PlacesOf
<1> QED BY <1>1, <1>2, FS_Subset, FS_CardinalityType

\* Only empty lines are added: one, or two where there was no line at all.
LEMMA WrittenAdds ==
    ASSUME NEW ls \in Seq(Lines)
    PROVE  LET ms == Written(ls)
           IN  /\ ms \in Text /\ ms[Len(ms)] = Blank
               /\ Len(ls) <= Len(ms) /\ Len(ms) <= Len(ls) + 2
               /\ ls # <<>> => Len(ms) <= Len(ls) + 1
               /\ \A i \in 1..Len(ls) : ms[i] = ls[i]
               /\ \A i \in 1..Len(ms) : i > Len(ls) => ms[i] = Blank
<1> USE LinesFacts DEF Text
<1>1. CASE ls = <<>>
  <2>1. Written(ls) = <<Blank, Blank>>
    <3>1. ~(Len(ls) >= 2 /\ ls[Len(ls)] = Blank)
      BY <1>1
    <3> QED BY <1>1, <3>1, Zenon DEF Written
  <2>2. Len(<<Blank, Blank>>) = 2 /\ \A i \in 1..2 : <<Blank, Blank>>[i] = Blank
    OBVIOUS
  <2>3. <<Blank, Blank>> \in Seq(Lines) /\ <<Blank, Blank>> # <<>>
    OBVIOUS
  <2>4. Len(ls) = 0
    BY <1>1
  <2> DEFINE two == <<Blank, Blank>>
  <2> HIDE DEF two
  <2>5. Len(two) = 2 /\ two \in Text /\ (\A i \in 1..2 : two[i] = Blank) /\ Written(ls) = two
    BY <2>1, <2>2, <2>3 DEF two
  <2> QED BY <2>4, <2>5
<1>2. CASE Len(ls) >= 2 /\ ls[Len(ls)] = Blank
  <2>1. Written(ls) = ls
    BY <1>2 DEF Written
  <2> QED BY <1>2, <2>1
<1>3. CASE ls # <<>> /\ ~(Len(ls) >= 2 /\ ls[Len(ls)] = Blank)
  <2>1. Written(ls) = Append(ls, Blank)
    BY <1>3, Zenon DEF Written
  <2> QED BY <1>3, <2>1
<1> QED BY <1>1, <1>2, <1>3

\* So the lines that name a room or others stay, and a few empty ones come.
LEMMA WrittenKeeps ==
    ASSUME NEW ls \in Seq(Lines)
    PROVE  LET ms == Written(ls)
           IN  /\ \A r \in Rooms : PlacesOf(ms, r) = PlacesOf(ls, r)
               /\ \A r \in Rooms : HasName(ms, r) <=> HasName(ls, r)
               /\ Foreign(ms) = Foreign(ls)
               /\ Cardinality(BlankPlaces(ms)) <= Cardinality(BlankPlaces(ls)) + 2
               /\ ls # <<>> => Cardinality(BlankPlaces(ms)) <= Cardinality(BlankPlaces(ls)) + 1
<1> DEFINE ms == Written(ls)
<1>1. /\ ms \in Text /\ Len(ls) <= Len(ms) /\ Len(ms) <= Len(ls) + 2
      /\ ls # <<>> => Len(ms) <= Len(ls) + 1
      /\ \A i \in 1..Len(ls) : ms[i] = ls[i]
      /\ \A i \in 1..Len(ms) : i > Len(ls) => ms[i] = Blank
  BY WrittenAdds, Zenon
<1> HIDE DEF ms
<1>2. Len(ls) \in Nat /\ Len(ms) \in Nat
  BY <1>1 DEF Text
<1>3. \A r \in Rooms : PlacesOf(ms, r) = PlacesOf(ls, r)
  BY <1>1, <1>2, LinesFacts DEF PlacesOf
<1>4. \A r \in Rooms : HasName(ms, r) <=> HasName(ls, r)
  BY <1>1, <1>2, LinesFacts DEF HasName
<1>5. Foreign(ms) = Foreign(ls)
  <2>1. ForeignPlaces(ms) = ForeignPlaces(ls)
    BY <1>1, <1>2 DEF ForeignPlaces
  <2>2. \A i \in ForeignPlaces(ls) : ms[i] = ls[i]
    BY <1>1 DEF ForeignPlaces
  <2>3. IsFiniteSet(ForeignPlaces(ls)) /\ ForeignPlaces(ls) \in SUBSET Nat
    BY <1>2, PlacesFinite
  <2> QED BY <2>1, <2>2, <2>3, LinesAtAlike DEF Foreign
<1>6. ASSUME NEW n \in 0..2, Len(ms) <= Len(ls) + n
      PROVE  Cardinality(BlankPlaces(ms)) <= Cardinality(BlankPlaces(ls)) + n
  <2> DEFINE added == (Len(ls) + 1)..(Len(ls) + n)
  <2>1. BlankPlaces(ms) \subseteq BlankPlaces(ls) \cup added
    BY <1>1, <1>2, <1>6 DEF BlankPlaces
  <2>2. IsFiniteSet(added) /\ Cardinality(added) = n
    <3>1. Len(ls) + 1 \in Int /\ Len(ls) + n \in Int
      BY <1>2
    <3>2. IsFiniteSet(added)
          /\ Cardinality(added) = IF Len(ls) + 1 > Len(ls) + n THEN 0 ELSE (Len(ls) + n) - (Len(ls) + 1) + 1
      BY <3>1, FS_Interval, Zenon
    <3> QED BY <1>2, <3>2
  <2>3. IsFiniteSet(BlankPlaces(ls)) /\ Cardinality(BlankPlaces(ls)) \in Nat
        /\ Cardinality(BlankPlaces(ms)) \in Nat
    BY <1>2, PlacesFinite
  <2>4. BlankPlaces(ls) \cap added = {}
    BY <1>2 DEF BlankPlaces
  <2> HIDE DEF added
  <2>5. IsFiniteSet(BlankPlaces(ls) \cup added)
        /\ Cardinality(BlankPlaces(ls) \cup added) = Cardinality(BlankPlaces(ls)) + n
    <3>1. IsFiniteSet(BlankPlaces(ls) \cup added)
          /\ Cardinality(BlankPlaces(ls) \cup added)
               = Cardinality(BlankPlaces(ls)) + Cardinality(added) - Cardinality(BlankPlaces(ls) \cap added)
      BY <2>2, <2>3, FS_Union, Zenon
    <3>2. Cardinality(BlankPlaces(ls) \cap added) = 0
      BY <2>4, FS_EmptySet
    <3> QED BY <2>2, <2>3, <3>1, <3>2
  <2>6. Cardinality(BlankPlaces(ms)) <= Cardinality(BlankPlaces(ls) \cup added)
    BY <2>1, <2>5, FS_Subset
  <2> QED BY <2>3, <2>5, <2>6
<1>7. Cardinality(BlankPlaces(ms)) <= Cardinality(BlankPlaces(ls)) + 2
      /\ (ls # <<>> => Cardinality(BlankPlaces(ms)) <= Cardinality(BlankPlaces(ls)) + 1)
  BY <1>1, <1>6
<1> QED BY <1>3, <1>4, <1>5, <1>7 DEF ms

\* Replacing a room's lines by its entry keeps every line in its place.
LEMMA ReplacedKeeps ==
    ASSUME NEW ls \in Text, NEW room \in Rooms, NEW ip \in IPs
    PROVE  LET ks == Replaced(ls, room, ip)
           IN  /\ ks \in Text /\ Len(ks) = Len(ls)
               /\ \A r \in Rooms : PlacesOf(ks, r) = PlacesOf(ls, r)
               /\ \A r \in Rooms : HasName(ks, r) <=> HasName(ls, r)
               /\ \A i \in 1..Len(ls) :
                     ks[i] = IF Names(ls[i], room) THEN Entry(room, ip) ELSE ls[i]
               /\ Foreign(ks) = Foreign(ls)
               /\ BlankPlaces(ks) = BlankPlaces(ls)
<1> DEFINE ks == Replaced(ls, room, ip)
<1> USE LinesFacts
<1>0. ls \in Seq(Lines) /\ Len(ls) \in Nat /\ Len(ls) >= 1
  BY DEF Text
<1>1. \A i \in 1..Len(ls) : ks[i] = IF Names(ls[i], room) THEN Entry(room, ip) ELSE ls[i]
  BY DEF Replaced
<1>2. ks \in Text /\ Len(ks) = Len(ls)
  <2>1. \A i \in 1..Len(ls) : (IF Names(ls[i], room) THEN Entry(room, ip) ELSE ls[i]) \in Lines
    BY <1>0
  <2>2. ks \in Seq(Lines) /\ Len(ks) = Len(ls)
    BY <1>0, <2>1 DEF Replaced
  <2> QED BY <1>0, <2>2 DEF Text
<1> HIDE DEF ks
<1>3. \A i \in 1..Len(ls) : \A r \in Rooms : Names(ks[i], r) <=> Names(ls[i], r)
  <2> TAKE i \in 1..Len(ls)
  <2>1. CASE Names(ls[i], room)
    BY <1>1, <2>1 DEF Names
  <2>2. CASE ~Names(ls[i], room)
    BY <1>1, <2>2
  <2> QED BY <2>1, <2>2
<1>4. \A r \in Rooms : PlacesOf(ks, r) = PlacesOf(ls, r)
  BY <1>2, <1>3 DEF PlacesOf
<1>5. \A r \in Rooms : HasName(ks, r) <=> HasName(ls, r)
  BY <1>2, <1>3 DEF HasName
<1>6. \A i \in 1..Len(ls) : ks[i].host \in Rooms <=> ls[i].host \in Rooms
  BY <1>3 DEF Names
<1>7. \A i \in 1..Len(ls) : ls[i].host \notin Rooms => ks[i] = ls[i]
  BY <1>1 DEF Names
<1>8. \A i \in 1..Len(ls) : ls[i].host \in Rooms => ls[i] # Blank
  BY DEF Names
<1>9. \A i \in 1..Len(ls) : ks[i] = Blank <=> ls[i] = Blank
  BY <1>6, <1>7, <1>8, <1>1
<1>10. Foreign(ks) = Foreign(ls)
  <2>1. ForeignPlaces(ks) = ForeignPlaces(ls)
    BY <1>2, <1>6, <1>7, <1>9 DEF ForeignPlaces
  <2>2. \A i \in ForeignPlaces(ls) : ks[i] = ls[i]
    BY <1>7 DEF ForeignPlaces
  <2>3. IsFiniteSet(ForeignPlaces(ls)) /\ ForeignPlaces(ls) \in SUBSET Nat
    BY <1>0, PlacesFinite
  <2> QED BY <2>1, <2>2, <2>3, LinesAtAlike DEF Foreign
<1>11. BlankPlaces(ks) = BlankPlaces(ls)
  BY <1>2, <1>9 DEF BlankPlaces
<1> QED BY <1>1, <1>2, <1>4, <1>5, <1>10, <1>11 DEF ks

\* An entry that is appended comes last, after a blank line at most.
LEMMA AppendedKeeps ==
    ASSUME NEW ls \in Text, NEW room \in Rooms, NEW ip \in IPs, ~HasName(ls, room)
    PROVE  LET ks == Appended(ls, room, ip)
           IN  /\ ks \in Text /\ Len(ks) > Len(ls) /\ ks[Len(ks)] = Entry(room, ip)
               /\ \A i \in 1..Len(ls) : ks[i] = ls[i]
               /\ \A r \in Rooms : PlacesOf(ks, r) = IF r = room THEN {Len(ks)} ELSE PlacesOf(ls, r)
               /\ Foreign(ks) = Foreign(ls)
               /\ Cardinality(BlankPlaces(ks)) <= Cardinality(BlankPlaces(ls)) + 1
               /\ ls[Len(ls)] = Blank => BlankPlaces(ks) = BlankPlaces(ls)
<1> DEFINE ks == Appended(ls, room, ip)
           last == Entry(room, ip)
<1> USE LinesFacts
<1>0. ls \in Seq(Lines) /\ Len(ls) \in Nat /\ Len(ls) >= 1 /\ last \in Lines
  BY DEF Text
<1>1. /\ ks \in Seq(Lines) /\ ks[Len(ks)] = last
      /\ \A i \in 1..Len(ls) : ks[i] = ls[i]
      /\ \/ Len(ks) = Len(ls) + 1
         \/ Len(ks) = Len(ls) + 2 /\ ks[Len(ls) + 1] = Blank /\ ls[Len(ls)] # Blank
  <2> HIDE DEF last
  <2>1. CASE ls[Len(ls)] # Blank
    <3>1. ks = Append(ls, Blank) \o <<last>>
      BY <2>1, Zenon DEF Appended, last
    <3> HIDE DEF ks
    <3> QED BY <1>0, <2>1, <3>1
  <2>2. CASE ls[Len(ls)] = Blank
    <3>1. ks = ls \o <<last>>
      BY <2>2, Zenon DEF Appended, last
    <3> HIDE DEF ks
    <3> QED BY <1>0, <3>1
  <2> QED BY <2>1, <2>2
<1> HIDE DEF ks
<1>2. ks \in Text /\ Len(ks) > Len(ls) /\ Len(ks) \in Nat
  BY <1>0, <1>1 DEF Text
<1>3. \A i \in 1..Len(ks) : i \in 1..Len(ls) \/ i = Len(ks) \/ ks[i] = Blank
  BY <1>0, <1>1
<1>4. \A i \in 1..Len(ls) : i \in 1..Len(ks) /\ i # Len(ks)
  BY <1>0, <1>2
<1>5. ASSUME NEW r \in Rooms PROVE PlacesOf(ks, r) = IF r = room THEN {Len(ks)} ELSE PlacesOf(ls, r)
  <2>1. CASE r = room
    <3>1. \A i \in 1..Len(ls) : ~Names(ls[i], room)
      BY DEF HasName
    <3>2. Len(ks) \in 1..Len(ks) /\ Names(ks[Len(ks)], room)
      BY <1>0, <1>1, <1>2
    <3>3. \A i \in 1..Len(ks) : Names(ks[i], room) => i = Len(ks)
      BY <1>1, <1>3, <3>1
    <3>4. PlacesOf(ks, room) = {Len(ks)}
      BY <3>2, <3>3 DEF PlacesOf
    <3> QED BY <2>1, <3>4
  <2>2. CASE r # room
    <3>1. \A i \in 1..Len(ks) : Names(ks[i], r) => i \in 1..Len(ls)
      BY <1>1, <1>3, <2>2
    <3>2. PlacesOf(ks, r) = PlacesOf(ls, r)
      BY <1>1, <1>4, <3>1 DEF PlacesOf
    <3> QED BY <2>2, <3>2
  <2> QED BY <2>1, <2>2
<1>6. last # Blank /\ last.host \in Rooms
  BY DEF Names
<1>7. Foreign(ks) = Foreign(ls)
  <2>1. ForeignPlaces(ks) = ForeignPlaces(ls)
    BY <1>1, <1>3, <1>4, <1>6 DEF ForeignPlaces
  <2>2. \A i \in ForeignPlaces(ls) : ks[i] = ls[i]
    BY <1>1 DEF ForeignPlaces
  <2>3. IsFiniteSet(ForeignPlaces(ls)) /\ ForeignPlaces(ls) \in SUBSET Nat
    BY <1>0, PlacesFinite
  <2> QED BY <2>1, <2>2, <2>3, LinesAtAlike DEF Foreign
<1>8. Cardinality(BlankPlaces(ks)) <= Cardinality(BlankPlaces(ls)) + 1
  <2>1. BlankPlaces(ks) \subseteq BlankPlaces(ls) \cup {Len(ls) + 1}
    BY <1>0, <1>1, <1>6 DEF BlankPlaces
  <2>2. IsFiniteSet(BlankPlaces(ls)) /\ Cardinality(BlankPlaces(ls)) \in Nat
        /\ Cardinality(BlankPlaces(ks)) \in Nat
    BY <1>0, <1>2, PlacesFinite
  <2>3. IsFiniteSet(BlankPlaces(ls) \cup {Len(ls) + 1})
        /\ Cardinality(BlankPlaces(ls) \cup {Len(ls) + 1}) <= Cardinality(BlankPlaces(ls)) + 1
    <3> DEFINE n == Len(ls) + 1
    <3>1. IsFiniteSet(BlankPlaces(ls) \cup {n})
          /\ Cardinality(BlankPlaces(ls) \cup {n})
               = IF n \in BlankPlaces(ls) THEN Cardinality(BlankPlaces(ls)) ELSE Cardinality(BlankPlaces(ls)) + 1
      BY <2>2, FS_AddElement, Zenon
    <3> QED BY <2>2, <3>1
  <2>4. Cardinality(BlankPlaces(ks)) <= Cardinality(BlankPlaces(ls) \cup {Len(ls) + 1})
    BY <2>1, <2>3, FS_Subset
  <2>5. Cardinality(BlankPlaces(ls) \cup {Len(ls) + 1}) \in Nat
    BY <2>3, FS_CardinalityType
  <2> QED BY <2>2, <2>3, <2>4, <2>5
<1>9. ls[Len(ls)] = Blank => BlankPlaces(ks) = BlankPlaces(ls)
  BY <1>0, <1>1, <1>3, <1>4, <1>6 DEF BlankPlaces
<1> QED BY <1>1, <1>2, <1>5, <1>7, <1>8, <1>9 DEF ks

\* Taking a room's lines out keeps all others, in their order.
LEMMA TakenKeeps ==
    ASSUME NEW ls \in Text, NEW room \in Rooms
    PROVE  LET ks == LinesAt(ls, (1..Len(ls)) \ PlacesOf(ls, room))
           IN  /\ ks \in Seq(Lines)
               /\ PlacesOf(ks, room) = {}
               /\ \A r \in Rooms : r # room =>
                     /\ Cardinality(PlacesOf(ks, r)) = Cardinality(PlacesOf(ls, r))
                     /\ HasName(ls, r) => HasName(ks, r)
               /\ \A k \in 1..Len(ks) : \E i \in 1..Len(ls) : ks[k] = ls[i]
               /\ Foreign(ks) = Foreign(ls)
               /\ Cardinality(BlankPlaces(ks)) = Cardinality(BlankPlaces(ls))
               /\ ks = <<>> => ls[Len(ls)] # Blank
<1> DEFINE U == (1..Len(ls)) \ PlacesOf(ls, room)
           ks == LinesAt(ls, U)
<1> USE LinesFacts
<1>0. ls \in Seq(Lines) /\ Len(ls) \in Nat /\ Len(ls) >= 1
  BY DEF Text
<1>1. U \in SUBSET Nat /\ IsFiniteSet(U)
  <2>1. IsFiniteSet(1..Len(ls))
    BY <1>0, FS_Interval
  <2>2. U \in SUBSET (1..Len(ls))
    OBVIOUS
  <2> QED BY <1>0, <2>1, <2>2, FS_Subset
<1>2. \A i \in 1..Len(ls) : i \in U <=> ~Names(ls[i], room)
  BY DEF PlacesOf
<1>3. \A i \in U : i \in 1..Len(ls)
  OBVIOUS
<1> HIDE DEF U
<1>4. /\ Cardinality(U) \in Nat /\ DOMAIN ks = 1..Cardinality(U)
      /\ \A i \in U : Rank(U, i) \in 1..Cardinality(U) /\ ks[Rank(U, i)] = ls[i]
      /\ \A k \in 1..Cardinality(U) : \E i \in U : k = Rank(U, i) /\ ks[k] = ls[i]
  BY <1>1, LinesAtRank, Zenon
<1>5. ks \in Seq(Lines) /\ Len(ks) = Cardinality(U)
  <2>1. ks = [k \in 1..Cardinality(U) |-> ks[k]]
    BY DEF LinesAt
  <2>2. \A k \in 1..Cardinality(U) : ks[k] \in Lines
    BY <1>0, <1>3, <1>4
  <2> HIDE DEF ks
  <2>3. ks \in [1..Cardinality(U) -> Lines]
    BY <2>1, <2>2
  <2> QED BY <1>4, <2>3
<1> HIDE DEF ks
<1>6. PlacesOf(ks, room) = {}
  BY <1>2, <1>3, <1>4, <1>5 DEF PlacesOf
<1>7. ASSUME NEW r \in Rooms, r # room
      PROVE  /\ Cardinality(PlacesOf(ks, r)) = Cardinality(PlacesOf(ls, r))
             /\ HasName(ls, r) => HasName(ks, r)
  <2>1. PlacesOf(ls, r) \in SUBSET U
    BY <1>2, <1>7 DEF PlacesOf, Names
  <2>2. PlacesOf(ks, r) = {Rank(U, i) : i \in PlacesOf(ls, r)}
    BY <1>3, <1>4, <1>5, <2>1 DEF PlacesOf
  <2>3. Cardinality(PlacesOf(ks, r)) = Cardinality(PlacesOf(ls, r))
    BY <1>1, <2>1, <2>2, RanksOf
  <2>4. HasName(ls, r) => HasName(ks, r)
    BY <1>4, <1>5, <2>1 DEF HasName, PlacesOf
  <2> QED BY <2>3, <2>4
<1>8. Foreign(ks) = Foreign(ls)
  <2>1. ForeignPlaces(ls) \in SUBSET U
    BY <1>2 DEF ForeignPlaces, Names
  <2>2. ForeignPlaces(ks) = {Rank(U, i) : i \in ForeignPlaces(ls)}
    BY <1>3, <1>4, <1>5, <2>1 DEF ForeignPlaces
  <2>3. LinesAt(ks, {Rank(U, i) : i \in ForeignPlaces(ls)}) = LinesAt(ls, ForeignPlaces(ls))
    <3> DEFINE T == ForeignPlaces(ls)
    <3> HIDE DEF T
    <3>1. LinesAt(LinesAt(ls, U), {Rank(U, i) : i \in T}) = LinesAt(ls, T)
      <4>1. T \in SUBSET U
        BY <2>1 DEF T
      <4> QED BY <1>1, <4>1, LinesAtTwice
    <3> QED BY <3>1 DEF ks, T
  <2> QED BY <2>2, <2>3 DEF Foreign
<1>9. /\ Cardinality(BlankPlaces(ks)) = Cardinality(BlankPlaces(ls))
      /\ ks = <<>> => ls[Len(ls)] # Blank
  <2>1. BlankPlaces(ls) \in SUBSET U
    BY <1>2 DEF BlankPlaces
  <2>2. BlankPlaces(ks) = {Rank(U, i) : i \in BlankPlaces(ls)}
    BY <1>3, <1>4, <1>5, <2>1 DEF BlankPlaces
  <2>3. Cardinality(BlankPlaces(ks)) = Cardinality(BlankPlaces(ls))
    BY <1>1, <2>1, <2>2, RanksOf
  <2>4. ASSUME ls[Len(ls)] = Blank PROVE ks # <<>>
    <3>1. Len(ls) \in BlankPlaces(ls)
      BY <1>0, <2>4 DEF BlankPlaces
    <3>2. Rank(U, Len(ls)) \in 1..Len(ks)
      BY <1>4, <1>5, <2>1, <3>1
    <3> QED BY <3>2
  <2> QED BY <2>3, <2>4
<1>10. \A k \in 1..Len(ks) : \E i \in 1..Len(ls) : ks[k] = ls[i]
  BY <1>3, <1>4, <1>5
<1> QED BY <1>5, <1>6, <1>7, <1>8, <1>9, <1>10 DEF ks, U

-----------------------------------------------------------------------------
(* The invariant *)

\* What a text is after n operations that did not overlap, with first the
\* original text and e the addresses that they left the rooms with.
Latest(ls, e) ==
    \A r \in Rooms :
        /\ e[r] \in IPs => HasName(ls, r)
        /\ \A i \in 1..Len(ls) : Names(ls[i], r) => e[r] = "unset" \/ ls[i] = Entry(r, e[r])

\* No room has more lines than it began with, or than one.
FewNames(first, ls) ==
    \A r \in Rooms :
        Cardinality(PlacesOf(ls, r)) <= Bound(Cardinality(PlacesOf(first, r)))

\* Each operation leaves one blank line more at most, and the last line may be one.
FewBlanks(first, ls, n) ==
    /\ Cardinality(BlankPlaces(ls)) <= Cardinality(BlankPlaces(first)) + n + 1
    /\ ls[Len(ls)] # Blank =>
           Cardinality(BlankPlaces(ls)) <= Cardinality(BlankPlaces(first)) + n

\* All of it: what the original lines have become after operations in turn.
Fine(first, ls, e, n) ==
    ls \in Text /\ Foreign(ls) = Foreign(first) /\ Latest(ls, e) /\ FewNames(first, ls) /\ FewBlanks(first, ls, n)

\* What the last operation on a room may have left it with.
Entries == [Rooms -> IPs \cup {"gone", "unset"}]

\* What an operation writes is fine if what it has made of the lines is.
LEMMA WrittenFine ==
    ASSUME NEW first \in Text, NEW ks \in Seq(Lines), NEW e, NEW n \in Nat,
           Foreign(ks) = Foreign(first), Latest(ks, e), FewNames(first, ks),
           Cardinality(BlankPlaces(ks)) <= Cardinality(BlankPlaces(first)) + n + 1,
           ks = <<>> => Cardinality(BlankPlaces(ks)) <= Cardinality(BlankPlaces(first)) + n
    PROVE  Fine(first, Written(ks), e, n + 1)
<1> DEFINE ms == Written(ks)
<1>1. /\ ms \in Text /\ ms[Len(ms)] = Blank
      /\ \A i \in 1..Len(ks) : ms[i] = ks[i]
      /\ \A i \in 1..Len(ms) : i > Len(ks) => ms[i] = Blank
  BY WrittenAdds, Zenon
<1>2. /\ \A r \in Rooms : PlacesOf(ms, r) = PlacesOf(ks, r)
      /\ \A r \in Rooms : HasName(ms, r) <=> HasName(ks, r)
      /\ Foreign(ms) = Foreign(ks)
      /\ Cardinality(BlankPlaces(ms)) <= Cardinality(BlankPlaces(ks)) + 2
      /\ ks # <<>> => Cardinality(BlankPlaces(ms)) <= Cardinality(BlankPlaces(ks)) + 1
  BY WrittenKeeps, Zenon
<1> HIDE DEF ms
<1>3. Latest(ms, e)
  <2>1. \A r \in Rooms, i \in 1..Len(ms) : Names(ms[i], r) => i \in 1..Len(ks) /\ ms[i] = ks[i]
    BY <1>1, LinesFacts DEF Text
  <2> QED BY <1>2, <2>1 DEF Latest
<1>4. FewNames(first, ms)
  BY <1>2 DEF FewNames
<1>5. FewBlanks(first, ms, n + 1)
  <2>1. Cardinality(BlankPlaces(ms)) \in Nat /\ Cardinality(BlankPlaces(ks)) \in Nat
        /\ Cardinality(BlankPlaces(first)) \in Nat
    BY <1>1, PlacesFinite DEF Text
  <2> QED BY <1>1, <1>2, <2>1 DEF FewBlanks
<1> QED BY <1>1, <1>2, <1>3, <1>4, <1>5 DEF ms, Fine

\* UpdateHost leaves a fine text fine.
LEMMA UpdatedFine ==
    ASSUME NEW first \in Text, NEW ls, NEW e \in Entries, NEW n \in Nat, Fine(first, ls, e, n),
           NEW room \in Rooms, NEW ip \in IPs
    PROVE  Fine(first, Updated(ls, room, ip), [e EXCEPT ![room] = ip], n + 1)
<1> DEFINE d == [e EXCEPT ![room] = ip]
<1>0. ls \in Text /\ ls \in Seq(Lines) /\ Len(ls) \in Nat
  BY DEF Fine, Text
<1>b. Cardinality(BlankPlaces(ls)) \in Nat /\ Cardinality(BlankPlaces(first)) \in Nat
  BY <1>0, PlacesFinite DEF Text
<1>d. d[room] = ip /\ \A r \in Rooms : r # room => d[r] = e[r]
  BY DEF Entries
<1> HIDE DEF d
<1>1. CASE HasName(ls, room)
  <2> DEFINE ks == Replaced(ls, room, ip)
  <2>1. /\ ks \in Text /\ Len(ks) = Len(ls)
        /\ \A r \in Rooms : PlacesOf(ks, r) = PlacesOf(ls, r)
        /\ \A r \in Rooms : HasName(ks, r) <=> HasName(ls, r)
        /\ \A i \in 1..Len(ls) : ks[i] = IF Names(ls[i], room) THEN Entry(room, ip) ELSE ls[i]
        /\ Foreign(ks) = Foreign(ls)
        /\ BlankPlaces(ks) = BlankPlaces(ls)
    BY <1>0, ReplacedKeeps, Zenon
  <2>2. Updated(ls, room, ip) = Written(ks)
    BY <1>1, Zenon DEF Updated
  <2> HIDE DEF ks
  <2>3. ASSUME NEW r \in Rooms
        PROVE  /\ d[r] \in IPs => HasName(ks, r)
               /\ \A i \in 1..Len(ks) : Names(ks[i], r) => d[r] = "unset" \/ ks[i] = Entry(r, d[r])
    <3>1. CASE r = room
      BY <1>1, <1>d, <2>1, <3>1, LinesFacts
    <3>2. CASE r # room
      BY <1>d, <2>1, <3>2, LinesFacts DEF Fine, Latest
    <3> QED BY <3>1, <3>2
  <2>4. Latest(ks, d)
    BY <2>3 DEF Latest
  <2>5. FewNames(first, ks)
    BY <2>1 DEF FewNames, Fine
  <2>6. Cardinality(BlankPlaces(ks)) <= Cardinality(BlankPlaces(first)) + n + 1
    BY <2>1 DEF FewBlanks, Fine
  <2>7. ks \in Seq(Lines) /\ ks # <<>> /\ Foreign(ks) = Foreign(first)
    BY <2>1 DEF Text, Fine
  <2>8. Fine(first, Written(ks), d, n + 1)
    BY <2>4, <2>5, <2>6, <2>7, WrittenFine
  <2> QED BY <2>2, <2>8 DEF d
<1>2. CASE ~HasName(ls, room)
  <2> DEFINE ks == Appended(ls, room, ip)
  <2>1. /\ ks \in Text /\ Len(ks) > Len(ls) /\ ks[Len(ks)] = Entry(room, ip)
        /\ \A i \in 1..Len(ls) : ks[i] = ls[i]
        /\ \A r \in Rooms : PlacesOf(ks, r) = IF r = room THEN {Len(ks)} ELSE PlacesOf(ls, r)
        /\ Foreign(ks) = Foreign(ls)
        /\ Cardinality(BlankPlaces(ks)) <= Cardinality(BlankPlaces(ls)) + 1
        /\ ls[Len(ls)] = Blank => BlankPlaces(ks) = BlankPlaces(ls)
    BY <1>0, <1>2, AppendedKeeps, Zenon
  <2>2. Updated(ls, room, ip) = Written(ks)
    BY <1>2, Zenon DEF Updated
  <2> HIDE DEF ks
  <2>3. ASSUME NEW r \in Rooms
        PROVE  /\ d[r] \in IPs => HasName(ks, r)
               /\ \A i \in 1..Len(ks) : Names(ks[i], r) => d[r] = "unset" \/ ks[i] = Entry(r, d[r])
    <3>1. CASE r = room
      <4>1. Len(ks) \in 1..Len(ks) /\ Names(ks[Len(ks)], room)
        BY <2>1, LinesFacts DEF Text
      <4>2. \A i \in 1..Len(ks) : Names(ks[i], room) => i = Len(ks)
        BY <2>1 DEF PlacesOf
      <4> QED BY <1>d, <2>1, <3>1, <4>1, <4>2 DEF HasName
    <3>2. CASE r # room
      <4>1. PlacesOf(ks, r) = PlacesOf(ls, r)
        BY <2>1, <3>2
      <4>2. \A i \in 1..Len(ks) : Names(ks[i], r) => i \in 1..Len(ls) /\ Names(ls[i], r) /\ ks[i] = ls[i]
        BY <2>1, <4>1 DEF PlacesOf
      <4>3. HasName(ls, r) => HasName(ks, r)
        BY <4>1 DEF PlacesOf, HasName
      <4> QED BY <1>d, <3>2, <4>2, <4>3 DEF Fine, Latest
    <3> QED BY <3>1, <3>2
  <2>4. Latest(ks, d)
    BY <2>3 DEF Latest
  <2>5. FewNames(first, ks)
    <3>1. Cardinality({Len(ks)}) = 1
      BY FS_Singleton
    <3>2. \A r \in Rooms : Bound(Cardinality(PlacesOf(first, r))) >= 1
      BY PlacesFinite DEF Bound, Text
    <3> QED BY <2>1, <3>1, <3>2 DEF FewNames, Fine
  <2>6. Cardinality(BlankPlaces(ks)) <= Cardinality(BlankPlaces(first)) + n + 1
    <3>1. Cardinality(BlankPlaces(ks)) \in Nat
      BY <2>1, PlacesFinite DEF Text
    <3> QED BY <1>b, <2>1, <3>1 DEF FewBlanks, Fine
  <2>7. ks \in Seq(Lines) /\ ks # <<>> /\ Foreign(ks) = Foreign(first)
    BY <2>1 DEF Text, Fine
  <2>8. Fine(first, Written(ks), d, n + 1)
    BY <2>4, <2>5, <2>6, <2>7, WrittenFine
  <2> QED BY <2>2, <2>8 DEF d
<1> QED BY <1>1, <1>2

\* RemoveHost leaves a fine text fine.
LEMMA RemovedFine ==
    ASSUME NEW first \in Text, NEW ls, NEW e \in Entries, NEW n \in Nat, Fine(first, ls, e, n),
           NEW room \in Rooms
    PROVE  Fine(first, Removed(ls, room), [e EXCEPT ![room] = "gone"], n + 1)
<1> DEFINE d == [e EXCEPT ![room] = "gone"]
<1>0. ls \in Text /\ Len(ls) \in Nat
  BY DEF Fine, Text
<1>g. "gone" \notin IPs
  BY HostsFileAssumption, Zenon
<1>b. Cardinality(BlankPlaces(ls)) \in Nat /\ Cardinality(BlankPlaces(first)) \in Nat
  BY <1>0, PlacesFinite DEF Text
<1>d. d[room] = "gone" /\ \A r \in Rooms : r # room => d[r] = e[r]
  BY DEF Entries
<1> HIDE DEF d
<1>1. CASE HasName(ls, room)
  <2> DEFINE ks == LinesAt(ls, (1..Len(ls)) \ PlacesOf(ls, room))
  <2>1. /\ ks \in Seq(Lines)
        /\ PlacesOf(ks, room) = {}
        /\ \A r \in Rooms : r # room =>
              /\ Cardinality(PlacesOf(ks, r)) = Cardinality(PlacesOf(ls, r))
              /\ HasName(ls, r) => HasName(ks, r)
        /\ \A k \in 1..Len(ks) : \E i \in 1..Len(ls) : ks[k] = ls[i]
        /\ Foreign(ks) = Foreign(ls)
        /\ Cardinality(BlankPlaces(ks)) = Cardinality(BlankPlaces(ls))
        /\ ks = <<>> => ls[Len(ls)] # Blank
    BY <1>0, TakenKeeps, Zenon
  <2>2. Removed(ls, room) = Written(ks)
    BY <1>1, Zenon DEF Removed
  <2> HIDE DEF ks
  <2>3. Latest(ks, d)
    <3>1. \A i \in 1..Len(ks) : ~Names(ks[i], room)
      BY <2>1 DEF PlacesOf
    <3> QED BY <1>g, <1>d, <2>1, <3>1 DEF Fine, Latest
  <2>4. FewNames(first, ks)
    <3>1. Cardinality(PlacesOf(ks, room)) = 0
      BY <2>1, FS_EmptySet
    <3>2. \A r \in Rooms : Bound(Cardinality(PlacesOf(first, r))) >= 0
      BY PlacesFinite DEF Bound, Text
    <3> QED BY <2>1, <3>1, <3>2 DEF FewNames, Fine
  <2>5. Fine(first, Written(ks), d, n + 1)
    <3>1. Cardinality(BlankPlaces(ks)) <= Cardinality(BlankPlaces(first)) + n + 1
      BY <2>1 DEF FewBlanks, Fine
    <3>2. ks = <<>> => Cardinality(BlankPlaces(ks)) <= Cardinality(BlankPlaces(first)) + n
      BY <2>1 DEF FewBlanks, Fine
    <3>3. Foreign(ks) = Foreign(first)
      BY <2>1 DEF Fine
    <3> QED BY <2>1, <2>3, <2>4, <3>1, <3>2, <3>3, WrittenFine
  <2> QED BY <2>2, <2>5 DEF d
<1>2. CASE ~HasName(ls, room)
  <2>1. Removed(ls, room) = ls
    BY <1>2, Zenon DEF Removed
  <2>2. Latest(ls, d)
    BY <1>g, <1>2, <1>d DEF Fine, Latest, HasName
  <2>3. FewBlanks(first, ls, n + 1)
    BY <1>b DEF Fine, FewBlanks
  <2> QED BY <2>1, <2>2, <2>3 DEF Fine, d
<1> QED BY <1>1, <1>2

\* An operation makes a fine text of a fine text.
LEMMA AppliedFine ==
    ASSUME NEW first \in Text, NEW ls, NEW e \in Entries, NEW n \in Nat, Fine(first, ls, e, n), NEW o \in Ops
    PROVE  Fine(first, Applied(ls, o), [e EXCEPT ![o.room] = o.ip], n + 1)
<1>1. o.room \in Rooms /\ (o.ip = "gone" \/ o.ip \in IPs)
  BY DEF Ops
<1>2. CASE o.ip = "gone"
  BY <1>1, <1>2, RemovedFine DEF Applied
<1>3. CASE o.ip # "gone"
  BY <1>1, <1>3, UpdatedFine DEF Applied
<1> QED BY <1>2, <1>3

\* The inductive invariant. Unless two operations have overlapped, what is in the file,
\* or what the one under way is about to put there, is fine.
HostsInv ==
    /\ original \in Text /\ ops \in Nat /\ entry \in Entries
    /\ pc \in [Procs -> {"idle", "truncate", "write"}]
    /\ DOMAIN op = Procs /\ DOMAIN new = Procs
    /\ \A p \in Procs : pc[p] # "idle" => op[p] \in Ops
    /\ ~overlap =>
          /\ \A p, q \in Procs : pc[p] # "idle" /\ pc[q] # "idle" => p = q
          /\ \A p \in Procs : pc[p] # "idle" =>
                Fine(original, new[p], [entry EXCEPT ![op[p].room] = op[p].ip], ops)
          /\ (\A p \in Procs : pc[p] # "write") => Fine(original, file, entry, ops)

\* A text that nothing was done to stays fine.
LEMMA FineLater ==
    ASSUME NEW first \in Text, NEW ls, NEW e, NEW n \in Nat, Fine(first, ls, e, n)
    PROVE  Fine(first, ls, e, n + 1)
<1>1. Cardinality(BlankPlaces(ls)) \in Nat /\ Cardinality(BlankPlaces(first)) \in Nat
  BY PlacesFinite DEF Text, Fine
<1> QED BY <1>1 DEF Fine, FewBlanks

\* The invariant is inductive.
LEMMA HostsInvInductive == HostsInv /\ [HostsNext]_hostsVars => HostsInv'
<1> SUFFICES ASSUME HostsInv, [HostsNext]_hostsVars PROVE HostsInv'
  OBVIOUS
<1> USE DEF HostsInv
<1>1. ASSUME NEW p \in Procs, NEW o \in Ops, ReadFile(p, o) PROVE HostsInv'
  <2> DEFINE d == [entry EXCEPT ![o.room] = o.ip]
  <2>1. /\ pc[p] = "idle" /\ ops' = ops + 1 /\ UNCHANGED <<file, original>>
        /\ op' = [op EXCEPT ![p] = o]
        /\ new' = [new EXCEPT ![p] = Applied(file, o)]
        /\ \/ /\ o.ip = "gone" /\ ~HasName(file, o.room)
              /\ pc' = [pc EXCEPT ![p] = "idle"] /\ entry' = d
           \/ pc' = [pc EXCEPT ![p] = "truncate"] /\ entry' = entry
    BY <1>1, Zenon DEF ReadFile, OpDone
  <2>2. ~overlap' => ~overlap /\ \A q \in Procs \ {p} : pc[q] = "idle"
    BY <1>1, Zenon DEF ReadFile, Alone
  <2>3. o.room \in Rooms /\ o.ip \in IPs \cup {"gone"}
    BY DEF Ops
  <2>4. entry' \in Entries
    BY <2>1, <2>3 DEF Entries
  <2>5. ASSUME ~overlap' PROVE Fine(original, file, entry, ops)
    <3>1. ~overlap /\ \A q \in Procs : pc[q] # "write"
      BY <2>1, <2>2, <2>5
    <3> QED BY <3>1
  <2>6. ASSUME ~overlap'
        PROVE  Fine(original, Applied(file, o), d, ops + 1) /\ Fine(original, file, entry, ops + 1)
    BY <2>5, <2>6, AppliedFine, FineLater
  <2>7. o.ip = "gone" /\ ~HasName(file, o.room) => Applied(file, o) = file
    BY Zenon DEF Applied, Removed
  <2>8. ASSUME ~overlap' PROVE Fine(original, file, entry', ops')
    <3>1. CASE entry' = d /\ o.ip = "gone" /\ ~HasName(file, o.room)
      BY <2>1, <2>6, <2>7, <2>8, <3>1
    <3>2. CASE entry' = entry
      BY <2>1, <2>6, <2>8, <3>2
    <3> QED BY <2>1, <3>1, <3>2
  <2> HIDE DEF d
  <2>9. ASSUME ~overlap' PROVE Fine(original', file', entry', ops')
    BY <2>1, <2>8, <2>9
  <2>10. ASSUME ~overlap', NEW q \in Procs, pc'[q] # "idle"
         PROVE  q = p /\ Fine(original', new'[q], [entry' EXCEPT ![op'[q].room] = op'[q].ip], ops')
    <3>1. q = p /\ pc' = [pc EXCEPT ![p] = "truncate"] /\ entry' = entry
      BY <2>1, <2>2, <2>10
    <3>2. new'[q] = Applied(file, o) /\ op'[q] = o
      BY <2>1, <3>1
    <3> QED BY <2>1, <2>6, <2>10, <3>1, <3>2 DEF d
  <2>11. \A q \in Procs : pc'[q] # "idle" => op'[q] \in Ops
    BY <2>1
  <2>12. /\ original' \in Text /\ ops' \in Nat
         /\ pc' \in [Procs -> {"idle", "truncate", "write"}]
         /\ DOMAIN op' = Procs /\ DOMAIN new' = Procs
    BY <2>1
  <2> QED BY <2>4, <2>9, <2>10, <2>11, <2>12
<1>2. ASSUME NEW p \in Procs, Truncate(p) PROVE HostsInv'
  BY <1>2 DEF Truncate
<1>3. ASSUME NEW p \in Procs, WriteFile(p) PROVE HostsInv'
  BY <1>3 DEF WriteFile, OpDone, Ops, Entries
<1>4. ASSUME NEW p \in Procs, Denied(p) PROVE HostsInv'
  BY <1>4 DEF Denied
<1>5. ASSUME NEW p \in Procs, Die(p) PROVE HostsInv'
  BY <1>5 DEF Die
<1>6. CASE UNCHANGED hostsVars
  BY <1>6 DEF hostsVars
<1> QED BY <1>1, <1>2, <1>3, <1>4, <1>5, <1>6 DEF HostsNext, HostsOver

\* It holds of the file as it was found.
LEMMA HostsInvInit == HostsInit => HostsInv
<1> SUFFICES ASSUME HostsInit PROVE HostsInv
  OBVIOUS
<1>1. file \in Text /\ original = file
  BY HostsFileAssumption DEF HostsInit, Text
<1>2. entry \in Entries /\ ops \in Nat /\ DOMAIN op = Procs /\ DOMAIN new = Procs
      /\ pc \in [Procs -> {"idle", "truncate", "write"}] /\ \A p \in Procs : pc[p] = "idle"
      /\ \A r \in Rooms : entry[r] = "unset"
  BY DEF HostsInit, Entries
<1>3. Latest(file, entry)
  <2>1. "unset" \notin IPs
    BY HostsFileAssumption, Zenon
  <2>2. \A r \in Rooms : entry[r] = "unset"
    BY DEF HostsInit
  <2> QED BY <2>1, <2>2, Zenon DEF Latest
<1>4. FewNames(original, file)
  BY <1>1, PlacesFinite DEF FewNames, Bound, Text
<1>5. FewBlanks(original, file, ops)
  <2>1. Cardinality(BlankPlaces(file)) \in Nat
    BY <1>1, PlacesFinite DEF Text
  <2> QED BY <1>1, <1>2, <2>1 DEF FewBlanks
<1>6. Fine(original, file, entry, ops)
  BY <1>1, <1>3, <1>4, <1>5 DEF Fine
<1>7. ops \in Nat /\ entry \in Entries /\ original \in Text
  BY <1>1, <1>2
<1>8. \A p \in Procs : pc[p] = "idle"
  BY <1>2
<1> QED BY <1>2, <1>6, <1>7, <1>8, Zenon DEF HostsInv

\* The invariant: the file is fine where it is quiet, and an operation that no other
\* has overlapped is about to make it so.
THEOREM HostsInvariant == HostsSpec => []HostsInv
BY HostsInvInit, HostsInvInductive, PTL DEF HostsSpec

\* The lines of other hosts survive any number of operations, on any file.
THEOREM OthersStay == HostsSpec => []OthersKept
<1>1. HostsInv => OthersKept
  BY Zenon DEF HostsInv, OthersKept, Quiet, Fine
<1> QED BY <1>1, HostsInvariant, PTL

\* A room's lines say what its last operation said, for any file and any rooms.
THEOREM LatestHolds == HostsSpec => []EntryIsLatest
<1>1. HostsInv => EntryIsLatest
  BY Zenon DEF HostsInv, EntryIsLatest, Quiet, Fine, Latest
<1> QED BY <1>1, HostsInvariant, PTL

\* Lines do not pile up, however many operations there are.
THEOREM LinesBounded == HostsSpec => []GrowthBounded
<1>1. HostsInv => GrowthBounded
  <2> SUFFICES ASSUME HostsInv, Quiet PROVE GrowthBounded
    BY DEF GrowthBounded
  <2>1. FewNames(original, file) /\ FewBlanks(original, file, ops)
    BY Zenon DEF HostsInv, Quiet, Fine
  <2> QED BY <2>1 DEF FewNames, FewBlanks, GrowthBounded
<1> QED BY <1>1, HostsInvariant, PTL

-----------------------------------------------------------------------------
(* The VPN script                                                            *)

\* Where the parts of a call are: vpn.start after the look for the pid file, and
\* vpn.stop.
Starting == {"clean", "launch", "verify", "drop"}
Stopping == {"kill", "wait", "force", "rm", "killall"}

\* The type invariant, without the bounds that the model puts on the calls.
VpnTypes ==
    /\ mode \in [VpnCalls -> {"none", "start", "stop", "restart"}]
    /\ vpc \in [VpnCalls -> {"idle", "look", "cat", "ps", "over"} \cup Starting \cup Stopping]
    /\ vseen \in [VpnCalls -> VpnPids \cup {NoPidFile}]
    /\ pidFile \in VpnPids \cup {NoPidFile}
    /\ proc \in [VpnPids -> {"free", "openvpn", "dying", "other"}]
    /\ stops \in 0..2

\* A call is only in the places of what it was called for.
ModesAgree ==
    \A k \in VpnCalls :
        /\ Under(k) => mode[k] # "none"
        /\ vpc[k] \in Starting => mode[k] = "start"
        /\ vpc[k] \in Stopping => mode[k] \in {"stop", "restart"}

\* The call that began last has been alone, and every call in turn has.
LoneIsAlone ==
    /\ \A k, j \in VpnCalls : lone /\ Under(k) /\ Under(j) => j = k
    /\ inTurn => lone

\* A stop that nothing came between, and stops = 1 or 2 of them in a row, leave no pid
\* file, if rm removes it; two leave no openvpn either, since the second finds none to
\* read and has killall end them all, if sudo lets it.
StopsEndAll ==
    LET quiet == \A k \in VpnCalls : ~Under(k) IN
    /\ \A k \in VpnCalls : lone /\ vpc[k] = "killall" => pidFile = NoPidFile
    /\ "rm" \notin refused =>
          /\ stops # 0 /\ quiet => pidFile = NoPidFile
          /\ \A k \in VpnCalls : stops # 0 /\ lone /\ Under(k) /\ mode[k] = "stop" =>
                 pidFile = NoPidFile /\ vpc[k] \in {"look", "killall"}
          /\ "kill" \notin refused /\ stops = 2 /\ quiet => OpenVpns = {}

\* A pid is another program's only if that is recorded.
OthersAreReused == \A p \in VpnPids : proc[p] = "other" => reused

\* Of calls in turn that were refused no kill: what runs is what the file names.
FileFollowed ==
    inTurn /\ "kill" \notin refused =>
        /\ Remaining \subseteq {pidFile}
        /\ \A k \in VpnCalls :
              /\ vpc[k] \in {"ps", "kill", "wait", "force"} => vseen[k] = pidFile
              /\ vpc[k] \in {"clean", "launch", "drop", "rm"} => Remaining = {}
        /\ pidFile # NoPidFile /\ proc[pidFile] = "dying" =>
              \E k \in VpnCalls : vpc[k] \in {"wait", "force"}
        /\ stops # 0 /\ (\A k \in VpnCalls : ~Under(k)) => Remaining = {}

\* What the last call said to be up still is, unless openvpn has ended by itself.
UpFollowed ==
    inTurn /\ "kill" \notin refused /\ upAfter =>
        /\ \A k \in VpnCalls : ~Under(k)
        /\ OpenVpns # {} \/ endedAlone \/ reused

\* The inductive invariant.
VpnInv == VpnTypes /\ ModesAgree /\ LoneIsAlone /\ StopsEndAll /\ OthersAreReused
          /\ FileFollowed /\ UpFollowed

-----------------------------------------------------------------------------
\* The variables keep their types.
LEMMA VpnTypesInductive ==
    ASSUME VpnTypes, [VpnNext]_vpnVars PROVE VpnTypes'
<1> USE DEF VpnTypes, Starting, Stopping
<1>1. ASSUME NEW k \in VpnCalls, NEW m \in {"start", "stop", "restart"}, CallVpn(k, m)
      PROVE  VpnTypes'
  BY <1>1 DEF CallVpn, VpnStep, vpnWorld
<1>2. ASSUME NEW k \in VpnCalls, LookForFile(k) PROVE VpnTypes'
  BY <1>2 DEF LookForFile, VpnStep, vpnWorld, vpnHistory
<1>3. ASSUME NEW k \in VpnCalls, Cat(k) PROVE VpnTypes'
  BY <1>3 DEF Cat, VpnStep, vpnWorld, vpnHistory
<1>4. ASSUME NEW k \in VpnCalls, PsStart(k) PROVE VpnTypes'
  BY <1>4 DEF PsStart, VpnStep, Exit, Alive, vpnWorld, vpnHistory
<1>5. ASSUME NEW k \in VpnCalls, Clean(k) PROVE VpnTypes'
  BY <1>5 DEF Clean, VpnStep, Remove, vpnHistory
<1>6. ASSUME NEW k \in VpnCalls, NoConfig(k) PROVE VpnTypes'
  BY <1>6 DEF NoConfig, Exit, vpnWorld
<1>7. ASSUME NEW k \in VpnCalls, LaunchVpn(k) PROVE VpnTypes'
  BY <1>7 DEF LaunchVpn, VpnStep, vpnHistory
<1>8. ASSUME NEW k \in VpnCalls, Verify(k) PROVE VpnTypes'
  BY <1>8 DEF Verify, VpnStep, Exit, Alive, vpnWorld, vpnHistory
<1>9. ASSUME NEW k \in VpnCalls, DropFile(k) PROVE VpnTypes'
  BY <1>9 DEF DropFile, Exit, Remove
<1>10. ASSUME NEW k \in VpnCalls, PsStop(k) PROVE VpnTypes'
  BY <1>10 DEF PsStop, VpnStep, Alive, vpnWorld, vpnHistory
<1>11. ASSUME NEW k \in VpnCalls, Kill(k) PROVE VpnTypes'
  BY <1>11 DEF Kill, VpnStep, Signalled, Sudo, vpnHistory
<1>12. ASSUME NEW k \in VpnCalls, WaitForEnd(k) PROVE VpnTypes'
  BY <1>12 DEF WaitForEnd, VpnStep, Alive, vpnWorld, vpnHistory
<1>13. ASSUME NEW k \in VpnCalls, ForceKill(k) PROVE VpnTypes'
  BY <1>13 DEF ForceKill, VpnStep, Sudo, vpnHistory
<1>14. ASSUME NEW k \in VpnCalls, RemovePidFile(k) PROVE VpnTypes'
  BY <1>14 DEF RemovePidFile, StopOver, Exit, Remove, vpnHistory
<1>15. ASSUME NEW k \in VpnCalls, KillAll(k) PROVE VpnTypes'
  BY <1>15 DEF KillAll, StopOver, Exit, vpnHistory, Signalled, Sudo
<1>16. ASSUME NEW p \in VpnPids, ProcessEnds(p) PROVE VpnTypes'
  BY <1>16 DEF ProcessEnds
<1>17. ASSUME NEW p \in VpnPids, OtherProcess(p) PROVE VpnTypes'
  BY <1>17 DEF OtherProcess, vpnHistory
<1>18. CASE UNCHANGED vpnVars
  BY <1>18 DEF vpnVars, vpnWorld, vpnHistory
<1> QED BY <1>1, <1>2, <1>3, <1>4, <1>5, <1>6, <1>7, <1>8, <1>9,
       <1>10, <1>11, <1>12, <1>13, <1>14, <1>15, <1>16, <1>17, <1>18 DEF VpnNext

\* A call is where its argument takes it.
LEMMA ModesInductive ==
    ASSUME VpnTypes, ModesAgree, [VpnNext]_vpnVars PROVE ModesAgree'
<1> USE DEF VpnTypes, ModesAgree, Starting, Stopping, Under
<1>1. ASSUME NEW k \in VpnCalls, NEW m \in {"start", "stop", "restart"}, CallVpn(k, m)
      PROVE  ModesAgree'
  BY <1>1 DEF CallVpn, VpnStep, vpnWorld
<1>2. ASSUME NEW k \in VpnCalls, LookForFile(k) PROVE ModesAgree'
  <2>1. PICK l \in {"cat", "launch", "killall"} :
           /\ vpc' = [vpc EXCEPT ![k] = l] /\ mode' = mode
           /\ l = "launch" => mode[k] = "start"
           /\ l = "killall" => mode[k] # "start" /\ vpc[k] = "look"
    BY <1>2 DEF LookForFile, VpnStep
  <2>2. mode[k] # "none"
    BY <1>2 DEF LookForFile, VpnStep
  <2> QED BY <2>1, <2>2
<1>3. ASSUME NEW k \in VpnCalls, Cat(k) PROVE ModesAgree'
  BY <1>3 DEF Cat, VpnStep, vpnWorld, vpnHistory
<1>4. ASSUME NEW k \in VpnCalls, PsStart(k) PROVE ModesAgree'
  BY <1>4 DEF PsStart, VpnStep, Exit, Alive, vpnWorld, vpnHistory
<1>5. ASSUME NEW k \in VpnCalls, Clean(k) PROVE ModesAgree'
  BY <1>5 DEF Clean, VpnStep, Remove, vpnHistory
<1>6. ASSUME NEW k \in VpnCalls, NoConfig(k) PROVE ModesAgree'
  BY <1>6 DEF NoConfig, Exit, vpnWorld
<1>7. ASSUME NEW k \in VpnCalls, LaunchVpn(k) PROVE ModesAgree'
  BY <1>7 DEF LaunchVpn, VpnStep, vpnHistory
<1>8. ASSUME NEW k \in VpnCalls, Verify(k) PROVE ModesAgree'
  BY <1>8 DEF Verify, VpnStep, Exit, Alive, vpnWorld, vpnHistory
<1>9. ASSUME NEW k \in VpnCalls, DropFile(k) PROVE ModesAgree'
  BY <1>9 DEF DropFile, Exit, Remove
<1>10. ASSUME NEW k \in VpnCalls, PsStop(k) PROVE ModesAgree'
  <2>1. PICK l \in {"kill", "rm"} : vpc' = [vpc EXCEPT ![k] = l] /\ mode' = mode
    BY <1>10 DEF PsStop, VpnStep
  <2>2. mode[k] # "start" /\ vpc[k] = "ps"
    BY <1>10 DEF PsStop, VpnStep
  <2> QED BY <2>1, <2>2
<1>11. ASSUME NEW k \in VpnCalls, Kill(k) PROVE ModesAgree'
  BY <1>11 DEF Kill, VpnStep, Signalled, Sudo, vpnHistory
<1>12. ASSUME NEW k \in VpnCalls, WaitForEnd(k) PROVE ModesAgree'
  BY <1>12 DEF WaitForEnd, VpnStep, Alive, vpnWorld, vpnHistory
<1>13. ASSUME NEW k \in VpnCalls, ForceKill(k) PROVE ModesAgree'
  BY <1>13 DEF ForceKill, VpnStep, Sudo, vpnHistory
<1>14. ASSUME NEW k \in VpnCalls, RemovePidFile(k) PROVE ModesAgree'
  BY <1>14 DEF RemovePidFile, StopOver, Exit, Remove, vpnHistory
<1>15. ASSUME NEW k \in VpnCalls, KillAll(k) PROVE ModesAgree'
  BY <1>15 DEF KillAll, StopOver, Exit, vpnHistory, Signalled, Sudo
<1>16. ASSUME NEW p \in VpnPids, ProcessEnds(p) PROVE ModesAgree'
  BY <1>16 DEF ProcessEnds
<1>17. ASSUME NEW p \in VpnPids, OtherProcess(p) PROVE ModesAgree'
  BY <1>17 DEF OtherProcess, vpnHistory
<1>18. CASE UNCHANGED vpnVars
  BY <1>18 DEF vpnVars, vpnWorld, vpnHistory
<1> QED BY <1>1, <1>2, <1>3, <1>4, <1>5, <1>6, <1>7, <1>8, <1>9,
       <1>10, <1>11, <1>12, <1>13, <1>14, <1>15, <1>16, <1>17, <1>18 DEF VpnNext

\* A call that overlaps another ends lone.
LEMMA LoneInductive ==
    ASSUME VpnTypes, LoneIsAlone, [VpnNext]_vpnVars PROVE LoneIsAlone'
<1> USE DEF VpnTypes, LoneIsAlone, Under
<1>1. ASSUME NEW k \in VpnCalls, NEW m \in {"start", "stop", "restart"}, CallVpn(k, m)
      PROVE  LoneIsAlone'
  BY <1>1 DEF CallVpn, VpnStep, vpnWorld
<1>2. ASSUME NEW k \in VpnCalls, LookForFile(k) PROVE LoneIsAlone'
  BY <1>2 DEF LookForFile, VpnStep, vpnWorld, vpnHistory
<1>3. ASSUME NEW k \in VpnCalls, Cat(k) PROVE LoneIsAlone'
  BY <1>3 DEF Cat, VpnStep, vpnWorld, vpnHistory
<1>4. ASSUME NEW k \in VpnCalls, PsStart(k) PROVE LoneIsAlone'
  BY <1>4 DEF PsStart, VpnStep, Exit, Alive, vpnWorld, vpnHistory
<1>5. ASSUME NEW k \in VpnCalls, Clean(k) PROVE LoneIsAlone'
  BY <1>5 DEF Clean, VpnStep, Remove, vpnHistory
<1>6. ASSUME NEW k \in VpnCalls, NoConfig(k) PROVE LoneIsAlone'
  BY <1>6 DEF NoConfig, Exit, vpnWorld
<1>7. ASSUME NEW k \in VpnCalls, LaunchVpn(k) PROVE LoneIsAlone'
  BY <1>7 DEF LaunchVpn, VpnStep, vpnHistory
<1>8. ASSUME NEW k \in VpnCalls, Verify(k) PROVE LoneIsAlone'
  BY <1>8 DEF Verify, VpnStep, Exit, Alive, vpnWorld, vpnHistory
<1>9. ASSUME NEW k \in VpnCalls, DropFile(k) PROVE LoneIsAlone'
  BY <1>9 DEF DropFile, Exit, Remove
<1>10. ASSUME NEW k \in VpnCalls, PsStop(k) PROVE LoneIsAlone'
  BY <1>10 DEF PsStop, VpnStep, Alive, vpnWorld, vpnHistory
<1>11. ASSUME NEW k \in VpnCalls, Kill(k) PROVE LoneIsAlone'
  BY <1>11 DEF Kill, VpnStep, Signalled, Sudo, vpnHistory
<1>12. ASSUME NEW k \in VpnCalls, WaitForEnd(k) PROVE LoneIsAlone'
  BY <1>12 DEF WaitForEnd, VpnStep, Alive, vpnWorld, vpnHistory
<1>13. ASSUME NEW k \in VpnCalls, ForceKill(k) PROVE LoneIsAlone'
  BY <1>13 DEF ForceKill, VpnStep, Sudo, vpnHistory
<1>14. ASSUME NEW k \in VpnCalls, RemovePidFile(k) PROVE LoneIsAlone'
  BY <1>14 DEF RemovePidFile, StopOver, Exit, Remove, vpnHistory
<1>15. ASSUME NEW k \in VpnCalls, KillAll(k) PROVE LoneIsAlone'
  BY <1>15 DEF KillAll, StopOver, Exit, vpnHistory, Signalled, Sudo
<1>16. ASSUME NEW p \in VpnPids, ProcessEnds(p) PROVE LoneIsAlone'
  BY <1>16 DEF ProcessEnds
<1>17. ASSUME NEW p \in VpnPids, OtherProcess(p) PROVE LoneIsAlone'
  BY <1>17 DEF OtherProcess, vpnHistory
<1>18. CASE UNCHANGED vpnVars
  BY <1>18 DEF vpnVars, vpnWorld, vpnHistory
<1> QED BY <1>1, <1>2, <1>3, <1>4, <1>5, <1>6, <1>7, <1>8, <1>9,
       <1>10, <1>11, <1>12, <1>13, <1>14, <1>15, <1>16, <1>17, <1>18 DEF VpnNext

\* A lone stop removes the pid file, and the next one ends what is left.
LEMMA StopsInductive ==
    ASSUME VpnTypes, ModesAgree, LoneIsAlone, StopsEndAll, [VpnNext]_vpnVars PROVE StopsEndAll'
<1> USE DEF VpnTypes, ModesAgree, LoneIsAlone, StopsEndAll, Starting, Stopping, Under, OpenVpns
<1>1. ASSUME NEW k \in VpnCalls, NEW m \in {"start", "stop", "restart"}, CallVpn(k, m)
      PROVE  StopsEndAll'
  BY <1>1 DEF CallVpn, VpnStep, vpnWorld
<1>2. ASSUME NEW k \in VpnCalls, LookForFile(k) PROVE StopsEndAll'
  BY <1>2 DEF LookForFile, VpnStep, vpnWorld, vpnHistory
<1>3. ASSUME NEW k \in VpnCalls, Cat(k) PROVE StopsEndAll'
  BY <1>3 DEF Cat, VpnStep, vpnWorld, vpnHistory
<1>4. ASSUME NEW k \in VpnCalls, PsStart(k) PROVE StopsEndAll'
  BY <1>4 DEF PsStart, VpnStep, Exit, Alive, vpnWorld, vpnHistory
<1>5. ASSUME NEW k \in VpnCalls, Clean(k) PROVE StopsEndAll'
  BY <1>5 DEF Clean, VpnStep, Remove, vpnHistory
<1>6. ASSUME NEW k \in VpnCalls, NoConfig(k) PROVE StopsEndAll'
  BY <1>6 DEF NoConfig, Exit, vpnWorld
<1>7. ASSUME NEW k \in VpnCalls, LaunchVpn(k) PROVE StopsEndAll'
  BY <1>7 DEF LaunchVpn, VpnStep, vpnHistory
<1>8. ASSUME NEW k \in VpnCalls, Verify(k) PROVE StopsEndAll'
  BY <1>8 DEF Verify, VpnStep, Exit, Alive, vpnWorld, vpnHistory
<1>9. ASSUME NEW k \in VpnCalls, DropFile(k) PROVE StopsEndAll'
  BY <1>9 DEF DropFile, Exit, Remove
<1>10. ASSUME NEW k \in VpnCalls, PsStop(k) PROVE StopsEndAll'
  BY <1>10 DEF PsStop, VpnStep, Alive, vpnWorld, vpnHistory
<1>11. ASSUME NEW k \in VpnCalls, Kill(k) PROVE StopsEndAll'
  BY <1>11 DEF Kill, VpnStep, Signalled, Sudo, vpnHistory
<1>12. ASSUME NEW k \in VpnCalls, WaitForEnd(k) PROVE StopsEndAll'
  BY <1>12 DEF WaitForEnd, VpnStep, Alive, vpnWorld, vpnHistory
<1>13. ASSUME NEW k \in VpnCalls, ForceKill(k) PROVE StopsEndAll'
  BY <1>13 DEF ForceKill, VpnStep, Sudo, vpnHistory
<1>14. ASSUME NEW k \in VpnCalls, RemovePidFile(k) PROVE StopsEndAll'
  BY <1>14 DEF RemovePidFile, StopOver, Exit, Remove, vpnHistory
<1>15. ASSUME NEW k \in VpnCalls, KillAll(k) PROVE StopsEndAll'
  BY <1>15 DEF KillAll, StopOver, Exit, vpnHistory, Signalled, Sudo
<1>16. ASSUME NEW p \in VpnPids, ProcessEnds(p) PROVE StopsEndAll'
  BY <1>16 DEF ProcessEnds
<1>17. ASSUME NEW p \in VpnPids, OtherProcess(p) PROVE StopsEndAll'
  BY <1>17 DEF OtherProcess, vpnHistory
<1>18. CASE UNCHANGED vpnVars
  BY <1>18 DEF vpnVars, vpnWorld, vpnHistory
<1> QED BY <1>1, <1>2, <1>3, <1>4, <1>5, <1>6, <1>7, <1>8, <1>9,
       <1>10, <1>11, <1>12, <1>13, <1>14, <1>15, <1>16, <1>17, <1>18 DEF VpnNext

\* A pid in other hands was taken after its openvpn had ended.
LEMMA ReusedInductive ==
    ASSUME VpnTypes, OthersAreReused, [VpnNext]_vpnVars PROVE OthersAreReused'
<1> USE DEF VpnTypes, OthersAreReused
<1>1. ASSUME NEW k \in VpnCalls, NEW m \in {"start", "stop", "restart"}, CallVpn(k, m)
      PROVE  OthersAreReused'
  BY <1>1 DEF CallVpn, VpnStep, vpnWorld
<1>2. ASSUME NEW k \in VpnCalls, LookForFile(k) PROVE OthersAreReused'
  BY <1>2 DEF LookForFile, VpnStep, vpnWorld, vpnHistory
<1>3. ASSUME NEW k \in VpnCalls, Cat(k) PROVE OthersAreReused'
  BY <1>3 DEF Cat, VpnStep, vpnWorld, vpnHistory
<1>4. ASSUME NEW k \in VpnCalls, PsStart(k) PROVE OthersAreReused'
  BY <1>4 DEF PsStart, VpnStep, Exit, Alive, vpnWorld, vpnHistory
<1>5. ASSUME NEW k \in VpnCalls, Clean(k) PROVE OthersAreReused'
  BY <1>5 DEF Clean, VpnStep, Remove, vpnHistory
<1>6. ASSUME NEW k \in VpnCalls, NoConfig(k) PROVE OthersAreReused'
  BY <1>6 DEF NoConfig, Exit, vpnWorld
<1>7. ASSUME NEW k \in VpnCalls, LaunchVpn(k) PROVE OthersAreReused'
  BY <1>7 DEF LaunchVpn, VpnStep, vpnHistory
<1>8. ASSUME NEW k \in VpnCalls, Verify(k) PROVE OthersAreReused'
  BY <1>8 DEF Verify, VpnStep, Exit, Alive, vpnWorld, vpnHistory
<1>9. ASSUME NEW k \in VpnCalls, DropFile(k) PROVE OthersAreReused'
  BY <1>9 DEF DropFile, Exit, Remove
<1>10. ASSUME NEW k \in VpnCalls, PsStop(k) PROVE OthersAreReused'
  BY <1>10 DEF PsStop, VpnStep, Alive, vpnWorld, vpnHistory
<1>11. ASSUME NEW k \in VpnCalls, Kill(k) PROVE OthersAreReused'
  BY <1>11 DEF Kill, VpnStep, Signalled, Sudo, vpnHistory
<1>12. ASSUME NEW k \in VpnCalls, WaitForEnd(k) PROVE OthersAreReused'
  BY <1>12 DEF WaitForEnd, VpnStep, Alive, vpnWorld, vpnHistory
<1>13. ASSUME NEW k \in VpnCalls, ForceKill(k) PROVE OthersAreReused'
  BY <1>13 DEF ForceKill, VpnStep, Sudo, vpnHistory
<1>14. ASSUME NEW k \in VpnCalls, RemovePidFile(k) PROVE OthersAreReused'
  BY <1>14 DEF RemovePidFile, StopOver, Exit, Remove, vpnHistory
<1>15. ASSUME NEW k \in VpnCalls, KillAll(k) PROVE OthersAreReused'
  BY <1>15 DEF KillAll, StopOver, Exit, vpnHistory, Signalled, Sudo
<1>16. ASSUME NEW p \in VpnPids, ProcessEnds(p) PROVE OthersAreReused'
  BY <1>16 DEF ProcessEnds
<1>17. ASSUME NEW p \in VpnPids, OtherProcess(p) PROVE OthersAreReused'
  BY <1>17 DEF OtherProcess, vpnHistory
<1>18. CASE UNCHANGED vpnVars
  BY <1>18 DEF vpnVars, vpnWorld, vpnHistory
<1> QED BY <1>1, <1>2, <1>3, <1>4, <1>5, <1>6, <1>7, <1>8, <1>9,
       <1>10, <1>11, <1>12, <1>13, <1>14, <1>15, <1>16, <1>17, <1>18 DEF VpnNext

\* Calls in turn follow the one openvpn by the pid file.
LEMMA FileInductive ==
    ASSUME VpnTypes, ModesAgree, LoneIsAlone, StopsEndAll, FileFollowed, [VpnNext]_vpnVars
    PROVE  FileFollowed'
<1> USE VpnAssumption
    DEF VpnTypes, ModesAgree, LoneIsAlone, StopsEndAll, FileFollowed, Starting, Stopping, Under,
        Remaining
<1>1. ASSUME NEW k \in VpnCalls, NEW m \in {"start", "stop", "restart"}, CallVpn(k, m)
      PROVE  FileFollowed'
  <2>1. inTurn' => inTurn
    BY <1>1, Zenon DEF CallVpn
  <2>2. UNCHANGED <<proc, pidFile, vseen, refused>> /\ vpc' = [vpc EXCEPT ![k] = "look"]
    BY <1>1 DEF CallVpn, VpnStep, vpnWorld
  <2>3. vpc[k] = "idle"
    BY <1>1 DEF CallVpn, VpnStep
  <2>4. ~\A j \in VpnCalls : ~Under(j)'
    BY <2>2
  <2>5. ASSUME inTurn', "kill" \notin refused PROVE inTurn /\ Remaining \subseteq {pidFile}
    BY <2>1, <2>5
  <2> QED BY <2>1, <2>2, <2>3, <2>4, <2>5
<1>2. ASSUME NEW k \in VpnCalls, LookForFile(k) PROVE FileFollowed'
  BY <1>2 DEF LookForFile, VpnStep, vpnWorld, vpnHistory
<1>3. ASSUME NEW k \in VpnCalls, Cat(k) PROVE FileFollowed'
  BY <1>3 DEF Cat, VpnStep, vpnWorld, vpnHistory
<1>4. ASSUME NEW k \in VpnCalls, PsStart(k) PROVE FileFollowed'
  <2>1. CASE Alive(vseen[k])
    <3>1. /\ vpc[k] = "ps" /\ vpc' = [vpc EXCEPT ![k] = "over"]
          /\ vseen' = [vseen EXCEPT ![k] = NoPidFile] /\ stops' = 0
          /\ UNCHANGED <<inTurn, pidFile, proc, refused>>
      BY <1>4, <2>1 DEF PsStart, Exit, vpnWorld
    <3> QED BY <3>1
  <2>2. CASE ~Alive(vseen[k])
    <3>1. /\ vpc[k] = "ps" /\ vpc' = [vpc EXCEPT ![k] = "clean"]
          /\ UNCHANGED <<inTurn, vseen, pidFile, proc, refused, stops>>
      BY <1>4, <2>2 DEF PsStart, VpnStep, vpnWorld, vpnHistory
    <3>2. inTurn /\ "kill" \notin refused => Remaining = {}
      BY <2>2, <3>1 DEF Alive
    <3> QED BY <3>1, <3>2
  <2> QED BY <2>1, <2>2
<1>5. ASSUME NEW k \in VpnCalls, Clean(k) PROVE FileFollowed'
  BY <1>5 DEF Clean, VpnStep, Remove, vpnHistory
<1>6. ASSUME NEW k \in VpnCalls, NoConfig(k) PROVE FileFollowed'
  BY <1>6 DEF NoConfig, Exit, vpnWorld
<1>7. ASSUME NEW k \in VpnCalls, LaunchVpn(k) PROVE FileFollowed'
  BY <1>7 DEF LaunchVpn, VpnStep, vpnHistory
<1>8. ASSUME NEW k \in VpnCalls, Verify(k) PROVE FileFollowed'
  <2>1. vpc[k] = "verify" /\ mode[k] = "start" /\ UNCHANGED <<inTurn, pidFile, proc, refused>>
    BY <1>8 DEF Verify, VpnStep, Exit, vpnWorld, vpnHistory
  <2>2. CASE pidFile # NoPidFile /\ ~Alive(pidFile)
    <3>1. vpc' = [vpc EXCEPT ![k] = "drop"] /\ UNCHANGED <<vseen, stops>>
      BY <1>8, <2>2 DEF Verify, VpnStep, vpnHistory
    <3>2. inTurn /\ "kill" \notin refused => Remaining = {}
      BY <2>2 DEF Alive
    <3> QED BY <2>1, <3>1, <3>2
  <2>3. CASE ~(pidFile # NoPidFile /\ ~Alive(pidFile))
    <3>1. /\ vpc' = [vpc EXCEPT ![k] = "over"] /\ stops' = 0
          /\ vseen' = [vseen EXCEPT ![k] = NoPidFile]
      BY <1>8, <2>1, <2>3 DEF Verify, Exit
    <3> QED BY <2>1, <3>1
  <2> QED BY <2>2, <2>3
<1>9. ASSUME NEW k \in VpnCalls, DropFile(k) PROVE FileFollowed'
  BY <1>9 DEF DropFile, Exit, Remove
<1>10. ASSUME NEW k \in VpnCalls, PsStop(k) PROVE FileFollowed'
  BY <1>10 DEF PsStop, VpnStep, Alive, vpnWorld, vpnHistory
<1>11. ASSUME NEW k \in VpnCalls, Kill(k) PROVE FileFollowed'
  BY <1>11 DEF Kill, VpnStep, Signalled, Sudo, vpnHistory
<1>12. ASSUME NEW k \in VpnCalls, WaitForEnd(k) PROVE FileFollowed'
  BY <1>12 DEF WaitForEnd, VpnStep, Alive, vpnWorld, vpnHistory
<1>13. ASSUME NEW k \in VpnCalls, ForceKill(k) PROVE FileFollowed'
  BY <1>13 DEF ForceKill, VpnStep, Sudo, vpnHistory
<1>14. ASSUME NEW k \in VpnCalls, RemovePidFile(k) PROVE FileFollowed'
  <2>1. PICK l \in {"look", "over"} :
           /\ vpc[k] = "rm" /\ vpc' = [vpc EXCEPT ![k] = l]
           /\ UNCHANGED <<inTurn, proc>>
           /\ vseen' = vseen \/ vseen' = [vseen EXCEPT ![k] = NoPidFile]
    BY <1>14 DEF RemovePidFile, StopOver, Exit, vpnHistory
  <2>2. "kill" \notin refused' => "kill" \notin refused
    BY <1>14 DEF RemovePidFile, Remove
  <2>3. ASSUME inTurn, "kill" \notin refused PROVE Remaining = {} /\ \A j \in VpnCalls : Under(j) => j = k
    BY <2>1, <2>3
  <2>4. pidFile' \in VpnPids \cup {NoPidFile}
    BY <1>14 DEF RemovePidFile, Remove
  <2> QED BY <2>1, <2>2, <2>3, <2>4
<1>15. ASSUME NEW k \in VpnCalls, KillAll(k) PROVE FileFollowed'
  <2>1. PICK l \in {"look", "over"} :
           /\ vpc[k] = "killall" /\ vpc' = [vpc EXCEPT ![k] = l]
           /\ UNCHANGED <<inTurn, pidFile>>
           /\ vseen' = vseen \/ vseen' = [vseen EXCEPT ![k] = NoPidFile]
    BY <1>15 DEF KillAll, StopOver, Exit, vpnHistory
  <2>2. "kill" \notin refused' => "kill" \notin refused
    BY <1>15 DEF KillAll, Sudo
  <2>3. ASSUME inTurn, "kill" \notin refused
        PROVE  pidFile = NoPidFile /\ Remaining = {} /\ \A j \in VpnCalls : Under(j) => j = k
    BY <2>1, <2>3
  <2>4. proc' = proc \/ proc' = Signalled({p \in VpnPids : proc[p] = "openvpn"})
    BY <1>15 DEF KillAll, Sudo
  <2>5. Remaining = {} => Remaining' = {}
    BY <2>4 DEF Signalled
  <2> QED BY <2>1, <2>2, <2>3, <2>5
<1>16. ASSUME NEW p \in VpnPids, ProcessEnds(p) PROVE FileFollowed'
  BY <1>16 DEF ProcessEnds
<1>17. ASSUME NEW p \in VpnPids, OtherProcess(p) PROVE FileFollowed'
  BY <1>17 DEF OtherProcess, vpnHistory
<1>18. CASE UNCHANGED vpnVars
  BY <1>18 DEF vpnVars, vpnWorld, vpnHistory
<1> QED BY <1>1, <1>2, <1>3, <1>4, <1>5, <1>6, <1>7, <1>8, <1>9,
       <1>10, <1>11, <1>12, <1>13, <1>14, <1>15, <1>16, <1>17, <1>18 DEF VpnNext

\* A call in turn that exits with 0 while the pid file names a process has seen it.
LEMMA StartedUp ==
    ASSUME VpnTypes, LoneIsAlone, OthersAreReused, FileFollowed, UNCHANGED vpnWorld,
           NEW k \in VpnCalls, vpc[k] \in {"ps", "verify"}, NEW ok, Exit(k, ok),
           inTurn /\ "kill" \notin refused => Alive(pidFile)
    PROVE  UpFollowed'
<1> SUFFICES ASSUME inTurn', "kill" \notin refused'
             PROVE  (\A j \in VpnCalls : ~Under(j)') /\ (OpenVpns' # {} \/ reused')
  BY DEF UpFollowed
<1>1. inTurn /\ "kill" \notin refused /\ vpc' = [vpc EXCEPT ![k] = "over"] /\ proc' = proc
  BY DEF Exit, vpnWorld
<1>2. \A j \in VpnCalls : j # k => ~Under(j)
  BY <1>1 DEF LoneIsAlone, Under
<1>3. \A j \in VpnCalls : ~Under(j)'
  BY <1>1, <1>2 DEF Under, VpnTypes
<1>4. pidFile \in VpnPids /\ proc[pidFile] \in {"openvpn", "dying", "other"}
  BY <1>1 DEF Alive, VpnTypes
<1>5. proc[pidFile] # "dying"
  <2>1. pidFile # NoPidFile
    BY <1>4, VpnAssumption
  <2>2. \A j \in VpnCalls : vpc[j] \notin {"wait", "force"}
    BY <1>2 DEF Under
  <2> QED BY <1>1, <2>1, <2>2 DEF FileFollowed
<1>6. CASE proc[pidFile] = "openvpn"
  BY <1>1, <1>3, <1>4, <1>6 DEF OpenVpns
<1>7. CASE proc[pidFile] = "other"
  <2>1. reused
    BY <1>4, <1>7 DEF OthersAreReused
  <2>2. reused'
    BY <2>1, Zenon DEF vpnWorld
  <2> QED BY <1>3, <2>2
<1> QED BY <1>4, <1>5, <1>6, <1>7

\* A call that fails says nothing about a VPN that is up.
LEMMA FailedNotUp ==
    ASSUME NEW k \in VpnCalls, Exit(k, FALSE) PROVE UpFollowed'
BY Zenon DEF Exit, UpFollowed

\* After a start that exited with 0 there is an openvpn until it ends.
LEMMA UpInductive ==
    ASSUME VpnTypes, ModesAgree, LoneIsAlone, OthersAreReused, FileFollowed, UpFollowed, [VpnNext]_vpnVars
    PROVE  UpFollowed'
<1> USE VpnAssumption
    DEF VpnTypes, ModesAgree, LoneIsAlone, OthersAreReused, FileFollowed, UpFollowed, Starting,
        Stopping, Under, OpenVpns
<1>1. ASSUME NEW k \in VpnCalls, NEW m \in {"start", "stop", "restart"}, CallVpn(k, m)
      PROVE  UpFollowed'
  BY <1>1 DEF CallVpn, VpnStep, vpnWorld
<1>2. ASSUME NEW k \in VpnCalls, LookForFile(k) PROVE UpFollowed'
  BY <1>2 DEF LookForFile, VpnStep, vpnWorld, vpnHistory
<1>3. ASSUME NEW k \in VpnCalls, Cat(k) PROVE UpFollowed'
  BY <1>3 DEF Cat, VpnStep, vpnWorld, vpnHistory
<1>4. ASSUME NEW k \in VpnCalls, PsStart(k) PROVE UpFollowed'
  <2>1. CASE Alive(vseen[k])
    <3>1. vpc[k] = "ps" /\ Exit(k, TRUE) /\ UNCHANGED vpnWorld
      BY <1>4, <2>1 DEF PsStart
    <3>2. ASSUME inTurn, "kill" \notin refused PROVE Alive(pidFile)
      BY <2>1, <3>1, <3>2 DEF Alive
    <3> QED BY <3>1, <3>2, StartedUp
  <2>2. CASE ~Alive(vseen[k])
    BY <1>4, <2>2 DEF PsStart, VpnStep, vpnHistory, vpnWorld
  <2> QED BY <2>1, <2>2
<1>5. ASSUME NEW k \in VpnCalls, Clean(k) PROVE UpFollowed'
  BY <1>5 DEF Clean, VpnStep, Remove, vpnHistory
<1>6. ASSUME NEW k \in VpnCalls, NoConfig(k) PROVE UpFollowed'
  BY <1>6 DEF NoConfig, Exit, vpnWorld
<1>7. ASSUME NEW k \in VpnCalls, LaunchVpn(k) PROVE UpFollowed'
  BY <1>7 DEF LaunchVpn, VpnStep, vpnHistory
<1>8. ASSUME NEW k \in VpnCalls, Verify(k) PROVE UpFollowed'
  <2>1. CASE pidFile # NoPidFile /\ ~Alive(pidFile)
    BY <1>8, <2>1 DEF Verify, VpnStep, vpnHistory, vpnWorld
  <2>2. CASE Alive(pidFile)
    BY <1>8, <2>2, StartedUp DEF Verify, Alive
  <2>3. CASE pidFile = NoPidFile
    BY <1>8, <2>3, FailedNotUp DEF Verify, vpnWorld
  <2> QED BY <2>1, <2>2, <2>3 DEF Alive
<1>9. ASSUME NEW k \in VpnCalls, DropFile(k) PROVE UpFollowed'
  BY <1>9 DEF DropFile, Exit, Remove
<1>10. ASSUME NEW k \in VpnCalls, PsStop(k) PROVE UpFollowed'
  BY <1>10 DEF PsStop, VpnStep, Alive, vpnWorld, vpnHistory
<1>11. ASSUME NEW k \in VpnCalls, Kill(k) PROVE UpFollowed'
  BY <1>11 DEF Kill, VpnStep, Signalled, Sudo, vpnHistory
<1>12. ASSUME NEW k \in VpnCalls, WaitForEnd(k) PROVE UpFollowed'
  BY <1>12 DEF WaitForEnd, VpnStep, Alive, vpnWorld, vpnHistory
<1>13. ASSUME NEW k \in VpnCalls, ForceKill(k) PROVE UpFollowed'
  BY <1>13 DEF ForceKill, VpnStep, Sudo, vpnHistory
<1>14. ASSUME NEW k \in VpnCalls, RemovePidFile(k) PROVE UpFollowed'
  BY <1>14 DEF RemovePidFile, StopOver, Exit, Remove, vpnHistory
<1>15. ASSUME NEW k \in VpnCalls, KillAll(k) PROVE UpFollowed'
  BY <1>15 DEF KillAll, StopOver, Exit, vpnHistory, Signalled, Sudo
<1>16. ASSUME NEW p \in VpnPids, ProcessEnds(p) PROVE UpFollowed'
  BY <1>16 DEF ProcessEnds
<1>17. ASSUME NEW p \in VpnPids, OtherProcess(p) PROVE UpFollowed'
  BY <1>17 DEF OtherProcess, vpnHistory
<1>18. CASE UNCHANGED vpnVars
  BY <1>18 DEF vpnVars, vpnWorld, vpnHistory
<1> QED BY <1>1, <1>2, <1>3, <1>4, <1>5, <1>6, <1>7, <1>8, <1>9,
       <1>10, <1>11, <1>12, <1>13, <1>14, <1>15, <1>16, <1>17, <1>18 DEF VpnNext

-----------------------------------------------------------------------------
\* The invariant: the pid file, and where a call in turn stands, tell what runs.
THEOREM VpnInvariant == VpnSpec => []VpnInv
<1>1. VpnInit => VpnInv
  BY DEF VpnInit, VpnInv, VpnTypes, ModesAgree, LoneIsAlone, StopsEndAll, OthersAreReused,
     FileFollowed, UpFollowed, Starting, Stopping, Under, OpenVpns, Remaining
<1>2. VpnInv /\ [VpnNext]_vpnVars => VpnInv'
  BY VpnTypesInductive, ModesInductive, LoneInductive, StopsInductive, ReusedInductive,
     FileInductive, UpInductive DEF VpnInv
<1> QED BY <1>1, <1>2, PTL DEF VpnSpec

\* The statement about calls in turn and about two stops in a row, for any
\* number of calls.
THEOREM CallsFollowVpn == VpnSpec => []VpnFollows
<1>1. VpnInv => VpnFollows
  <2> SUFFICES ASSUME VpnInv PROVE VpnFollows
    OBVIOUS
  <2> SUFFICES ASSUME "kill" \notin refused
               PROVE  /\ inTurn => OpenVpns \subseteq {pidFile}
                      /\ (\A k \in VpnCalls : ~Under(k)) /\ stops # 0 /\ inTurn => Remaining = {}
                      /\ (\A k \in VpnCalls : ~Under(k)) /\ stops = 2 /\ "rm" \notin refused => OpenVpns = {}
                      /\ upAfter /\ inTurn => OpenVpns # {} \/ endedAlone \/ reused
    BY Zenon DEF VpnFollows
  <2>1. inTurn => OpenVpns \subseteq {pidFile}
    BY DEF VpnInv, FileFollowed, OpenVpns, Remaining
  <2>2. (\A k \in VpnCalls : ~Under(k)) /\ stops # 0 /\ inTurn => Remaining = {}
    BY Zenon DEF VpnInv, FileFollowed
  <2>3. ASSUME \A k \in VpnCalls : ~Under(k), stops = 2, "rm" \notin refused PROVE OpenVpns = {}
    BY <2>3 DEF VpnInv, StopsEndAll
  <2>4. upAfter /\ inTurn => OpenVpns # {} \/ endedAlone \/ reused
    BY Zenon DEF VpnInv, UpFollowed
  <2> QED BY <2>1, <2>2, <2>3, <2>4, Zenon
<1> QED BY <1>1, VpnInvariant, PTL

=============================================================================
