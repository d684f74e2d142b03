------------------------- MODULE RegistryFileProofs -------------------------
(***************************************************************************)
(* Theorems about RegistryFile for any number of programs, calls, changes  *)
(* by other programs and power losses: an acknowledged export stays, what  *)
(* the name denotes is whole, and an import reads one image, none too old. *)
(***************************************************************************)
EXTENDS RegistryFile, SequenceTheorems, TLAPS

Logged == {log[i] : i \in DOMAIN log}

Writing == {"check", "create", "write", "fsync", "recheck", "rename"}

Tidying == {"write", "fsync", "recheck", "rename", "unlink"}

(* Until it is renamed, an export's file is the program's own, and as far
   written as the program is. *)
OwnFile(p) ==
  /\ prog[p].pc \in {"check", "create"} => content[Mine(p)] = <<>>
  /\ prog[p].pc = "write" => content[Mine(p)] \in {<<>>, <<Mine(p)>>}
  /\ prog[p].pc = "fsync" => content[Mine(p)] = <<Mine(p), Mine(p)>>
  /\ prog[p].pc \in {"recheck", "rename"} =>
       content[Mine(p)] = <<Mine(p), Mine(p)>> /\ Mine(p) \in durable
  /\ prog[p].pc \in Writing => Mine(p) \in Exports /\ Mine(p) \notin Logged

(* A reader holds a file that the name denoted when it began, or since. *)
Fresher(p) ==
  /\ prog[p].since <= acknowledged
  /\ prog[p].pc = "sync" => prog[p].index \in 1..Len(log) /\ Mine(p) \in Exports
  /\ prog[p].pc = "unlink" => Mine(p) \in Exports
  /\ prog[p].pc \in {"fstat", "read", "probe"} =>
       /\ prog[p].index \in 1..Len(log) /\ log[prog[p].index] \in Inodes
       /\ prog[p].since <= prog[p].index
  /\ prog[p].pc \notin {"read", "probe", "done"} => prog[p].got = <<>>
  /\ prog[p].pc = "done" /\ prog[p].status = "OK" /\ prog[p].got # <<>> =>
       Whole(prog[p].got) /\ prog[p].since <= prog[p].index

(* The files of calls that are still to come. *)
Unborn ==
  \A e \in Exports : e[2] > prog[e[1]].call => content[e] = <<>> /\ e \notin Logged

(* Everything the name denoted since the last power loss is whole. *)
AllWhole ==
  \A f \in Logged : f \in Exports \ tampered => content[f] = <<f, f>> /\ f \in durable

(* A temporary name belongs to the call that is about to give it up. *)
Leftovers ==
  crashes = 0 => \A f \in temps \ stuck :
    /\ prog[f[1]].pc \in Tidying
    /\ prog[f[1]].call = f[2]

IInv ==
  /\ TypeOK
  /\ acknowledged <= flushed
  /\ Unborn /\ AllWhole /\ Leftovers
  /\ \A p \in Programs : OwnFile(p) /\ Fresher(p)

----------------------------------------------------------------------------
(* Contents and programs. *)

Halves == Inodes \cup {Junk}

LEMMA ContentsAre ==
  ASSUME NEW c
  PROVE  c \in Contents <=> c \in Seq(Halves) /\ Len(c) \in 0..2
<1>1. ASSUME c \in Contents PROVE c \in Seq(Halves) /\ Len(c) \in 0..2
  <2>1. PICK n \in 0..2 : c \in [1..n -> Halves]
    BY <1>1 DEF Contents, Halves
  <2>2. n \in Nat /\ c \in Seq(Halves) /\ Len(c) = n
    BY <2>1
  <2>3. QED
    BY <2>2
<1>2. ASSUME c \in Seq(Halves), Len(c) \in 0..2 PROVE c \in Contents
  <2>1. c \in [1..Len(c) -> Halves]
    BY <1>2
  <2> HIDE DEF Halves
  <2>2. c \in UNION {[1..n -> Halves] : n \in 0..2}
    BY <1>2, <2>1
  <2>3. QED
    BY <2>2 DEF Contents, Halves
<1>3. QED
  BY <1>1, <1>2

(* Empty contents, one more half, and what a power loss leaves of one. *)
LEMMA ContentsMade ==
  /\ <<>> \in Contents
  /\ \A h \in Halves : <<h>> \in Contents /\ \A g \in Halves : <<g, h>> \in Contents
  /\ \A c \in Contents, h \in Halves : Len(c) < 2 => Append(c, h) \in Contents
  /\ \A c \in Contents, k \in 0..2 : k < Len(c) => SubSeq(c, 1, k) \in Contents
<1>1. <<>> \in Contents
  <2>1. <<>> \in Seq(Halves) /\ Len(<<>>) \in 0..2
    OBVIOUS
  <2>2. QED
    BY <2>1, ContentsAre
<1>2. ASSUME NEW h \in Halves, NEW g \in Halves
      PROVE  <<h>> \in Contents /\ <<g, h>> \in Contents
  <2>1. <<h>> \in Seq(Halves) /\ Len(<<h>>) \in 0..2
    OBVIOUS
  <2>2. <<g, h>> \in Seq(Halves) /\ Len(<<g, h>>) \in 0..2
    OBVIOUS
  <2>3. <<h>> \in Contents
    BY <2>1, ContentsAre
  <2>4. <<g, h>> \in Contents
    BY <2>2, ContentsAre
  <2>5. QED
    BY <2>3, <2>4
<1>3. ASSUME NEW c \in Contents, NEW h \in Halves, Len(c) < 2
      PROVE  Append(c, h) \in Contents
  <2>1. c \in Seq(Halves) /\ Len(c) \in 0..2
    BY ContentsAre
  <2>2. Append(c, h) \in Seq(Halves) /\ Len(Append(c, h)) = Len(c) + 1
    BY <2>1
  <2>3. Len(Append(c, h)) \in 0..2
    BY <1>3, <2>1, <2>2
  <2>4. QED
    BY <2>2, <2>3, ContentsAre
<1>4. ASSUME NEW c \in Contents, NEW k \in 0..2, k < Len(c)
      PROVE  SubSeq(c, 1, k) \in Contents
  <2>1. c \in Seq(Halves) /\ Len(c) \in 0..2
    BY ContentsAre
  <2>2. \A i \in 1..k : c[i] \in Halves
    BY <1>4, <2>1
  <2>3. SubSeq(c, 1, k) \in Seq(Halves) /\ Len(SubSeq(c, 1, k)) \in 0..2
    <3>1. 1 \in Int /\ k \in Int
      OBVIOUS
    <3>2. /\ SubSeq(c, 1, k) \in Seq(Halves)
          /\ Len(SubSeq(c, 1, k)) = IF 1 <= k THEN k - 1 + 1 ELSE 0
      BY <2>2, <3>1, SubSeqProperties
    <3>3. QED
      BY <3>2
  <2>4. QED
    BY <2>3, ContentsAre
<1>5. QED
  BY <1>1, <1>2, <1>3, <1>4

(* The others' programs stay, and p's has got as far as label. *)
Others(p) == \A q \in Programs : q # p => prog'[q] = prog[q]

Stepped(p, label) ==
  /\ prog' \in [Programs -> Locals]
  /\ Others(p)
  /\ prog'[p].pc = label
  /\ prog'[p].call = prog[p].call /\ prog'[p].since = prog[p].since

(* Goto changes the place only. *)
LEMMA GotoFields ==
  ASSUME prog \in [Programs -> Locals], NEW p \in Programs, NEW label \in Labels, Goto(p, label)
  PROVE  /\ Stepped(p, label)
         /\ prog'[p].status = prog[p].status /\ prog'[p].index = prog[p].index
         /\ prog'[p].got = prog[p].got
<1>1. prog'[p] = [prog[p] EXCEPT !.pc = label] /\ Others(p)
  BY DEF Goto, Others
<1>2. prog[p] \in Locals
  OBVIOUS
<1>3. [prog[p] EXCEPT !.pc = label] \in Locals
  BY <1>2 DEF Locals
<1>4. prog' \in [Programs -> Locals]
  BY <1>3 DEF Goto
<1>5. QED
  BY <1>1, <1>2, <1>4 DEF Stepped, Locals

(* An answer does, and sets the status. *)
LEMMA ReturnFields ==
  ASSUME prog \in [Programs -> Locals], NEW p \in Programs, NEW status \in Status, Return(p, status)
  PROVE  /\ Stepped(p, "done")
         /\ prog'[p].status = status /\ prog'[p].index = prog[p].index
         /\ prog'[p].got = prog[p].got
<1> DEFINE s == [prog[p] EXCEPT !.pc = "done"]
<1>1. "done" \in Labels /\ prog[p] \in Locals
  BY DEF Labels
<1>2. /\ s \in Locals /\ s.pc = "done" /\ s.call = prog[p].call /\ s.since = prog[p].since
      /\ s.index = prog[p].index /\ s.got = prog[p].got
  BY <1>1 DEF Locals
<1>3. prog' = [prog EXCEPT ![p] = [s EXCEPT !.status = status]]
  BY DEF Return
<1> HIDE DEF s
<1>4. /\ [s EXCEPT !.status = status] \in Locals
      /\ [s EXCEPT !.status = status].pc = "done"
      /\ [s EXCEPT !.status = status].status = status
      /\ [s EXCEPT !.status = status].call = s.call
      /\ [s EXCEPT !.status = status].since = s.since
      /\ [s EXCEPT !.status = status].index = s.index
      /\ [s EXCEPT !.status = status].got = s.got
  BY <1>2 DEF Locals
<1>5. QED
  BY <1>2, <1>3, <1>4 DEF Stepped, Others

(* A rename, or an open, notes where in the log the file is. *)
LEMMA IndexFields ==
  ASSUME prog \in [Programs -> Locals], NEW p \in Programs, NEW label \in Labels, NEW n \in Nat,
         prog' = [prog EXCEPT ![p].pc = label, ![p].index = n]
  PROVE  /\ Stepped(p, label)
         /\ prog'[p].index = n /\ prog'[p].got = prog[p].got
<1> DEFINE s == [prog[p] EXCEPT !.pc = label]
<1>1. prog[p] \in Locals
  OBVIOUS
<1>2. /\ s \in Locals /\ s.pc = label /\ s.call = prog[p].call /\ s.since = prog[p].since
      /\ s.got = prog[p].got
  BY <1>1 DEF Locals
<1>3. prog' = [prog EXCEPT ![p] = [s EXCEPT !.index = n]]
  OBVIOUS
<1> HIDE DEF s
<1>4. /\ [s EXCEPT !.index = n] \in Locals
      /\ [s EXCEPT !.index = n].pc = label
      /\ [s EXCEPT !.index = n].index = n
      /\ [s EXCEPT !.index = n].call = s.call
      /\ [s EXCEPT !.index = n].since = s.since
      /\ [s EXCEPT !.index = n].got = s.got
  BY <1>2 DEF Locals
<1>5. QED
  BY <1>2, <1>3, <1>4 DEF Stepped, Others

(* fstat notes the size. *)
LEMMA SizeFields ==
  ASSUME prog \in [Programs -> Locals], NEW p \in Programs, NEW label \in Labels, NEW n \in 0..2,
         prog' = [prog EXCEPT ![p].pc = label, ![p].size = n]
  PROVE  /\ Stepped(p, label)
         /\ prog'[p].index = prog[p].index /\ prog'[p].got = prog[p].got
<1> DEFINE s == [prog[p] EXCEPT !.pc = label]
<1>1. prog[p] \in Locals
  OBVIOUS
<1>2. /\ s \in Locals /\ s.pc = label /\ s.call = prog[p].call /\ s.since = prog[p].since
      /\ s.index = prog[p].index /\ s.got = prog[p].got
  BY <1>1 DEF Locals
<1>3. prog' = [prog EXCEPT ![p] = [s EXCEPT !.size = n]]
  OBVIOUS
<1> HIDE DEF s
<1>4. /\ [s EXCEPT !.size = n] \in Locals
      /\ [s EXCEPT !.size = n].pc = label
      /\ [s EXCEPT !.size = n].index = s.index
      /\ [s EXCEPT !.size = n].call = s.call
      /\ [s EXCEPT !.size = n].since = s.since
      /\ [s EXCEPT !.size = n].got = s.got
  BY <1>2 DEF Locals
<1>5. QED
  BY <1>2, <1>3, <1>4 DEF Stepped, Others

(* A read adds a half to what was got. *)
LEMMA GotFields ==
  ASSUME prog \in [Programs -> Locals], NEW p \in Programs, NEW label \in Labels,
         NEW h, Append(prog[p].got, h) \in Contents,
         prog' = [prog EXCEPT ![p].got = Append(@, h), ![p].pc = label]
  PROVE  /\ Stepped(p, label)
         /\ prog'[p].index = prog[p].index
<1> DEFINE g == Append(prog[p].got, h)
           s == [prog[p] EXCEPT !.got = g]
<1>1. prog[p] \in Locals
  OBVIOUS
<1>2. prog' = [prog EXCEPT ![p] = [s EXCEPT !.pc = label]]
  OBVIOUS
<1>3. g \in Contents
  OBVIOUS
<1> HIDE DEF g
<1>4. /\ s \in Locals /\ s.call = prog[p].call /\ s.since = prog[p].since
      /\ s.index = prog[p].index
  BY <1>1, <1>3 DEF Locals
<1> HIDE DEF s
<1>5. /\ [s EXCEPT !.pc = label] \in Locals
      /\ [s EXCEPT !.pc = label].pc = label
      /\ [s EXCEPT !.pc = label].index = s.index
      /\ [s EXCEPT !.pc = label].call = s.call
      /\ [s EXCEPT !.pc = label].since = s.since
  BY <1>4 DEF Locals
<1>6. QED
  BY <1>2, <1>4, <1>5 DEF Stepped, Others

(* A new call starts with nothing but its number and what is acknowledged. *)
LEMMA StartFields ==
  ASSUME TypeOK, NEW p \in Programs, NEW label \in Labels, Start(p, label)
  PROVE  /\ prog' \in [Programs -> Locals] /\ Others(p)
         /\ prog'[p].pc = label /\ prog'[p].call = prog[p].call + 1
         /\ prog'[p].call \in 1..MaxCalls
         /\ prog'[p].since = acknowledged /\ prog'[p].got = <<>>
<1> DEFINE s == [pc |-> label, call |-> prog[p].call + 1, status |-> "none", index |-> 0,
                 size |-> 0, got |-> <<>>, since |-> acknowledged]
<1>1. [Fresh EXCEPT !.pc = label, !.call = prog[p].call + 1, !.since = acknowledged] = s
  <2> DEFINE f1 == [Fresh EXCEPT !.pc = label]
             f2 == [f1 EXCEPT !.call = prog[p].call + 1]
  <2>1. f1 = [pc |-> label, call |-> 0, status |-> "none", index |-> 0,
              size |-> 0, got |-> <<>>, since |-> 0]
    BY DEF Fresh
  <2> HIDE DEF f1
  <2>2. f2 = [pc |-> label, call |-> prog[p].call + 1, status |-> "none", index |-> 0,
              size |-> 0, got |-> <<>>, since |-> 0]
    BY <2>1
  <2> HIDE DEF f2
  <2>3. [f2 EXCEPT !.since = acknowledged] = s
    BY <2>2
  <2>4. QED
    BY <2>3 DEF f2, f1
<1>2. prog' = [prog EXCEPT ![p] = s]
  BY <1>1, Zenon DEF Start
<1>3. prog[p].call \in 0..MaxCalls /\ prog[p].call < MaxCalls /\ MaxCalls \in Nat
  BY FileAssumption DEF TypeOK, Locals, Start
<1>4. acknowledged \in Nat /\ prog \in [Programs -> Locals]
  BY DEF TypeOK
<1>5. s \in Locals
  BY <1>3, <1>4, ContentsMade DEF Locals, Status
<1>6. s.pc = label /\ s.call = prog[p].call + 1 /\ s.since = acknowledged /\ s.got = <<>>
  OBVIOUS
<1> HIDE DEF s
<1>7. QED
  BY <1>2, <1>3, <1>4, <1>5, <1>6 DEF Others

----------------------------------------------------------------------------
(* What is left of the invariant when one program takes a step. *)

(* A program writes into its own file only, and adds to the log by rename. *)
Effect(p) ==
  /\ Others(p) /\ prog[p].call <= prog'[p].call
  /\ acknowledged <= acknowledged' /\ acknowledged' <= flushed'
  /\ tampered' = tampered /\ crashes' = crashes
  /\ \A f \in Inodes : f # Mine(p) \/ prog[p].pc \notin Writing =>
       content'[f] = content[f] /\ (f \in durable => f \in durable')
  /\ \/ log' = log
     \/ /\ prog[p].pc = "rename" /\ log' = Append(log, Mine(p))
        /\ UNCHANGED <<content, durable>>

LEMMA Typed ==
  ASSUME TypeOK
  PROVE  /\ acknowledged \in Nat /\ Len(log) \in Nat /\ DOMAIN log = 1..Len(log)
         /\ \A q \in Programs :
              /\ prog[q] \in Locals /\ prog[q].call \in 0..MaxCalls /\ prog[q].call \in Nat
              /\ prog[q].pc \in Labels /\ prog[q].index \in Nat /\ prog[q].since \in Nat
              /\ prog[q].got \in Contents
         /\ \A f \in Inodes : content[f] \in Contents
<1>1. acknowledged \in Nat /\ Len(log) \in Nat /\ DOMAIN log = 1..Len(log)
  BY DEF TypeOK
<1>2. \A q \in Programs : prog[q] \in Locals
  BY DEF TypeOK
<1>3. MaxCalls \in Nat
  BY FileAssumption
<1>4. ASSUME NEW s \in Locals
      PROVE  /\ s.call \in 0..MaxCalls /\ s.call \in Nat
             /\ s.pc \in Labels /\ s.index \in Nat /\ s.since \in Nat
             /\ s.got \in Contents
  BY <1>3 DEF Locals
<1>5. QED
  BY <1>1, <1>2, <1>4 DEF TypeOK

(* What a rename adds to the log. *)
LEMMA LogAppended ==
  ASSUME TypeOK, NEW it, log' = Append(log, it)
  PROVE  /\ Len(log') = Len(log) + 1 /\ DOMAIN log' = 1..Len(log) + 1
         /\ log'[Len(log) + 1] = it
         /\ \A i \in 1..Len(log) : log'[i] = log[i]
         /\ Logged' = Logged \cup {it}
<1>1. log \in Seq(Inodes \cup {Absent, Special}) /\ Len(log) \in Nat /\ DOMAIN log = 1..Len(log)
  BY DEF TypeOK
<1>2. /\ Len(log') = Len(log) + 1 /\ DOMAIN log' = 1..Len(log) + 1
      /\ log'[Len(log) + 1] = it
      /\ \A i \in 1..Len(log) : log'[i] = log[i]
  BY <1>1
<1>3. 1..Len(log) + 1 = 1..Len(log) \cup {Len(log) + 1}
  BY <1>1
<1>4. Logged' = Logged \cup {it}
  BY <1>1, <1>2, <1>3 DEF Logged
<1>5. QED
  BY <1>2, <1>4

(* The files of two programs are never one. *)
LEMMA MineDiffer ==
  ASSUME NEW p \in Programs, NEW q \in Programs, q # p
  PROVE  Mine(q) # Mine(p)
BY DEF Mine

LEMMA OthersKeep ==
  ASSUME IInv, NEW p \in Programs, TypeOK', Effect(p), NEW q \in Programs, q # p
  PROVE  OwnFile(q)' /\ Fresher(q)'
<1>1. prog'[q] = prog[q] /\ Mine(q)' = Mine(q) /\ Mine(q) # Mine(p)
  BY MineDiffer DEF Effect, Others, Mine
<1>2. OwnFile(q) /\ Fresher(q) /\ TypeOK
  BY DEF IInv
<1>3. /\ Mine(q) \in Inodes =>
           content'[Mine(q)] = content[Mine(q)] /\ (Mine(q) \in durable => Mine(q) \in durable')
      /\ Exports \subseteq Inodes
  BY <1>1 DEF Effect, Inodes
<1>4. /\ Mine(q) \notin Logged => Mine(q) \notin Logged'
      /\ Len(log) <= Len(log') /\ Len(log) \in Nat /\ Len(log') \in Nat
      /\ \A i \in 1..Len(log) : log'[i] = log[i]
  <2>1. CASE log' = log
    BY <1>2, <2>1, Typed DEF Logged
  <2>2. CASE log' = Append(log, Mine(p))
    BY <1>1, <1>2, <2>2, LogAppended, Typed
  <2>3. QED
    BY <2>1, <2>2 DEF Effect
<1>5. OwnFile(q)'
  BY <1>1, <1>2, <1>3, <1>4 DEF OwnFile, Writing
<1>6. acknowledged <= acknowledged' /\ acknowledged \in Nat /\ acknowledged' \in Nat
      /\ prog[q].since \in Nat /\ prog[q].index \in Nat
  BY <1>2, Typed DEF Effect, TypeOK
<1>7. Fresher(q)'
  BY <1>1, <1>2, <1>4, <1>6 DEF Fresher
<1>8. QED
  BY <1>5, <1>7

LEMMA EffectKeeps ==
  ASSUME IInv, NEW p \in Programs, TypeOK', Effect(p),
         OwnFile(p)', Fresher(p)', Leftovers'
  PROVE  IInv'
<1>1. \A q \in Programs : OwnFile(q)' /\ Fresher(q)'
  BY OthersKeep
<1>2. TypeOK /\ Unborn /\ AllWhole /\ OwnFile(p) /\ Exports \subseteq Inodes
  BY DEF IInv, Inodes
<1>3. Logged' = Logged \/ (prog[p].pc = "rename" /\ Logged' = Logged \cup {Mine(p)}
                           /\ UNCHANGED <<content, durable>>)
  <2>1. CASE log' = log
    BY <2>1 DEF Logged
  <2>2. CASE prog[p].pc = "rename" /\ log' = Append(log, Mine(p)) /\ UNCHANGED <<content, durable>>
    BY <1>2, <2>2, LogAppended
  <2>3. QED
    BY <2>1, <2>2 DEF Effect
<1>4. Unborn'
  <2>1. SUFFICES ASSUME NEW e \in Exports, e[2] > prog'[e[1]].call
                 PROVE  content'[e] = <<>> /\ e \notin Logged'
    BY DEF Unborn
  <2>2. e[1] \in Programs /\ e[2] \in Nat /\ e = <<e[1], e[2]>>
    BY DEF Exports
  <2>3. e[2] > prog[e[1]].call /\ e # Mine(p)
    <3>1. CASE e[1] # p
      <4>1. prog'[e[1]] = prog[e[1]]
        BY <2>2, <3>1 DEF Effect, Others
      <4>2. e # Mine(p)
        BY <3>1 DEF Mine
      <4>3. QED
        BY <2>1, <4>1, <4>2
    <3>2. CASE e[1] = p
      <4>1. prog[p].call <= prog'[p].call /\ prog[p].call \in Nat /\ prog'[p].call \in Nat
        BY <1>2, Typed DEF Effect, TypeOK, Locals
      <4>2. QED
        BY <2>1, <2>2, <3>2, <4>1 DEF Mine
    <3>3. QED
      BY <3>1, <3>2
  <2>4. content[e] = <<>> /\ e \notin Logged
    BY <1>2, <2>3 DEF Unborn
  <2>5. content'[e] = content[e]
    BY <1>2, <2>3 DEF Effect
  <2>6. QED
    BY <1>3, <2>3, <2>4, <2>5
<1>5. AllWhole'
  <2>1. SUFFICES ASSUME NEW f \in Logged', f \in Exports \ tampered'
                 PROVE  content'[f] = <<f, f>> /\ f \in durable'
    BY DEF AllWhole
  <2>2. f \in Exports \ tampered /\ f \in Inodes
    BY <1>2, <2>1 DEF Effect
  <2>3. CASE f \in Logged
    <3>1. content[f] = <<f, f>> /\ f \in durable
      BY <1>2, <2>2, <2>3 DEF AllWhole
    <3>2. f # Mine(p) \/ prog[p].pc \notin Writing
      BY <1>2, <2>3 DEF OwnFile
    <3>3. QED
      BY <2>2, <3>1, <3>2 DEF Effect
  <2>4. CASE f \notin Logged
    <3>1. f = Mine(p) /\ prog[p].pc = "rename" /\ UNCHANGED <<content, durable>>
      BY <1>3, <2>1, <2>4
    <3>2. QED
      BY <1>2, <3>1 DEF OwnFile
  <2>5. QED
    BY <2>3, <2>4
<1>6. QED
  BY <1>1, <1>4, <1>5 DEF IInv, Effect

(* A temporary name is given up by the call it belongs to. *)
LEMMA LeftoversStep ==
  ASSUME IInv, NEW p \in Programs, Others(p), crashes' = crashes,
         \A f \in temps' \ stuck' : f \in temps \ stuck \/ f = Mine(p),
         crashes = 0 /\ Mine(p) \in temps' \ stuck' =>
           prog'[p].pc \in Tidying /\ prog'[p].call = prog[p].call
  PROVE  Leftovers'
<1>1. SUFFICES ASSUME crashes = 0, NEW f \in temps' \ stuck'
               PROVE  prog'[f[1]].pc \in Tidying /\ prog'[f[1]].call = f[2]
  BY DEF Leftovers
<1>2. CASE f = Mine(p)
  BY <1>1, <1>2 DEF Mine
<1>3. CASE f # Mine(p)
  <2>1. f \in temps \ stuck /\ f \in Exports
    BY <1>1, <1>3 DEF IInv, TypeOK
  <2>2. prog[f[1]].pc \in Tidying /\ prog[f[1]].call = f[2]
    BY <1>1, <2>1 DEF IInv, Leftovers
  <2>3. f[1] \in Programs /\ f = <<f[1], f[2]>>
    BY <2>1 DEF Exports
  <2>4. f[1] # p
    BY <1>3, <2>2, <2>3 DEF Mine
  <2>5. QED
    BY <2>2, <2>3, <2>4 DEF Others
<1>4. QED
  BY <1>2, <1>3

----------------------------------------------------------------------------
(* Steps that change only what the program knows. *)

LEMMA QuietStep ==
  ASSUME IInv, NEW p \in Programs, NEW label \in Labels, Stepped(p, label),
         UNCHANGED <<files, acknowledged, env>>,
         OwnFile(p)', Fresher(p)', prog[p].pc \in Tidying => label \in Tidying
  PROVE  IInv'
<1>1. TypeOK /\ Leftovers /\ acknowledged <= flushed
  BY DEF IInv
<1>2. /\ content' = content /\ durable' = durable /\ temps' = temps /\ log' = log
      /\ flushed' = flushed /\ acknowledged' = acknowledged /\ tampered' = tampered
      /\ stuck' = stuck /\ changes' = changes /\ crashes' = crashes
  BY DEF files, env
<1>3. TypeOK'
  BY <1>1, <1>2 DEF TypeOK, Stepped
<1>4. prog[p].call \in Nat
  BY <1>1, Typed
<1>5. Effect(p)
  BY <1>1, <1>2, <1>4, <1>3 DEF Effect, Stepped, TypeOK
<1>6. Leftovers'
  <2>1. Mine(p) \in temps \ stuck /\ crashes = 0 => prog[p].pc \in Tidying
    BY <1>1 DEF Leftovers, Mine
  <2>2. QED
    BY <1>2, <2>1, LeftoversStep DEF Stepped
<1>7. QED
  BY <1>3, <1>5, <1>6, EffectKeeps

(* What IInv says of one program, and of its file. *)
LEMMA OfOne ==
  ASSUME IInv, NEW p \in Programs
  PROVE  /\ OwnFile(p) /\ Fresher(p)
         /\ prog \in [Programs -> Locals] /\ TypeOK
BY DEF IInv, TypeOK

(* An error is answered: nothing is claimed of what was read. *)
LEMMA FailKeeps ==
  ASSUME IInv, NEW p \in Programs, NEW status \in Status \ {"OK"}, Return(p, status),
         prog[p].pc \notin Tidying, UNCHANGED <<files, acknowledged, env>>
  PROVE  IInv'
<1>1. "done" \in Labels /\ status \in Status
  BY DEF Labels
<1>2. Stepped(p, "done") /\ prog'[p].status = status
  BY <1>1, OfOne, ReturnFields
<1>3. OwnFile(p)'
  BY <1>2 DEF OwnFile, Stepped, Writing
<1>4. Fresher(p)'
  BY <1>2, OfOne DEF Fresher, Stepped
<1>5. QED
  BY <1>1, <1>2, <1>3, <1>4, QuietStep

LEMMA CheckKeeps ==
  ASSUME IInv, NEW p \in Programs, Check(p)
  PROVE  IInv'
<1>1. prog[p].pc = "check" /\ UNCHANGED <<files, acknowledged, env>>
  BY DEF Check, At
<1>2. CASE Goto(p, "create")
  <2>1. "create" \in Labels
    BY DEF Labels
  <2>2. Stepped(p, "create") /\ prog'[p].got = prog[p].got
    BY <1>2, <2>1, OfOne, GotoFields
  <2>3. Mine(p)' = Mine(p) /\ Logged' = Logged /\ content' = content
    BY <1>1, <2>2 DEF Stepped, Mine, Logged, files
  <2>4. OwnFile(p)'
    BY <1>1, <2>2, <2>3, OfOne DEF OwnFile, Stepped, Writing
  <2>5. Fresher(p)'
    BY <1>1, <2>2, OfOne DEF Fresher, Stepped
  <2>6. QED
    BY <1>1, <2>1, <2>2, <2>4, <2>5, QuietStep DEF Tidying
<1>3. CASE Return(p, "IO_ERROR")
  BY <1>1, <1>3, FailKeeps DEF Tidying, Status
<1>4. QED
  BY <1>2, <1>3 DEF Check

LEMMA RecheckKeeps ==
  ASSUME IInv, NEW p \in Programs, Recheck(p)
  PROVE  IInv'
<1>1. PICK label \in {"rename", "unlink"} : Goto(p, label)
  BY DEF Recheck
<1>2. prog[p].pc = "recheck" /\ UNCHANGED <<files, acknowledged, env>>
  BY DEF Recheck, At
<1>3. label \in Labels
  BY DEF Labels
<1>4. Stepped(p, label) /\ prog'[p].got = prog[p].got
  BY <1>1, <1>3, OfOne, GotoFields
<1>5. /\ Mine(p)' = Mine(p) /\ Logged' = Logged /\ content' = content
      /\ durable' = durable /\ acknowledged' = acknowledged
  BY <1>2, <1>4 DEF Stepped, Mine, Logged, files
<1>6. OwnFile(p)'
  BY <1>2, <1>4, <1>5, OfOne DEF OwnFile, Stepped, Writing
<1>7. Fresher(p)'
  BY <1>2, <1>4, <1>5, OfOne DEF Fresher, Stepped, OwnFile, Writing
<1>8. QED
  BY <1>2, <1>3, <1>4, <1>6, <1>7, QuietStep DEF Tidying

LEMMA LstatKeeps ==
  ASSUME IInv, NEW p \in Programs, Lstat(p)
  PROVE  IInv'
<1>1. prog[p].pc = "lstat" /\ UNCHANGED <<files, acknowledged, env>>
  BY DEF Lstat, At
<1>2. CASE Goto(p, "open")
  <2>1. "open" \in Labels
    BY DEF Labels
  <2>2. Stepped(p, "open") /\ prog'[p].got = prog[p].got
    BY <1>2, <2>1, OfOne, GotoFields
  <2>3. OwnFile(p)'
    BY <2>2 DEF OwnFile, Stepped, Writing
  <2>4. Fresher(p)'
    BY <1>1, <2>2, OfOne DEF Fresher, Stepped
  <2>5. QED
    BY <1>1, <2>1, <2>2, <2>3, <2>4, QuietStep DEF Tidying
<1>3. CASE Return(p, "IO_ERROR")
  BY <1>1, <1>3, FailKeeps DEF Tidying, Status
<1>4. QED
  BY <1>2, <1>3 DEF Lstat

LEMMA OpenKeeps ==
  ASSUME IInv, NEW p \in Programs, Open(p)
  PROVE  IInv'
<1>1. prog[p].pc = "open" /\ UNCHANGED <<files, acknowledged, env>>
  BY DEF Open, At
<1>2. CASE Regular /\ prog' = [prog EXCEPT ![p].pc = "fstat", ![p].index = Len(log)]
  <2>1. "fstat" \in Labels /\ Len(log) \in Nat
    BY OfOne, Typed DEF Labels
  <2>2. Stepped(p, "fstat") /\ prog'[p].got = prog[p].got /\ prog'[p].index = Len(log)
    BY <1>2, <2>1, OfOne, IndexFields
  <2>3. OwnFile(p)'
    BY <2>2 DEF OwnFile, Stepped, Writing
  <2>4. Fresher(p)'
    <3>1. /\ acknowledged \in Nat /\ flushed \in 1..Len(log) /\ acknowledged <= flushed
          /\ prog[p].since \in Nat
      BY OfOne, Typed DEF IInv, TypeOK
    <3>2. prog[p].since <= Len(log) /\ Len(log) \in 1..Len(log)
      BY <2>1, <3>1, OfOne DEF Fresher
    <3>3. log' = log /\ log[Len(log)] \in Inodes /\ acknowledged' = acknowledged
      BY <1>1, <1>2 DEF Regular, Current, files
    <3>4. prog[p].got = <<>> /\ prog[p].since <= acknowledged
      BY <1>1, OfOne DEF Fresher
    <3>5. QED
      BY <2>2, <3>2, <3>3, <3>4 DEF Fresher, Stepped
  <2>5. QED
    BY <1>1, <2>1, <2>2, <2>3, <2>4, QuietStep DEF Tidying
<1>3. CASE Return(p, "IO_ERROR")
  BY <1>1, <1>3, FailKeeps DEF Tidying, Status
<1>4. QED
  BY <1>2, <1>3 DEF Open

LEMMA FstatKeeps ==
  ASSUME IInv, NEW p \in Programs, Fstat(p)
  PROVE  IInv'
<1>1. prog[p].pc = "fstat" /\ UNCHANGED <<files, acknowledged, env>>
  BY DEF Fstat, At
<1>2. CASE prog' = [prog EXCEPT ![p].pc = "read", ![p].size = Len(content[Held(p)])]
  <2>1. "read" \in Labels
    BY DEF Labels
  <2>2. Len(content[Held(p)]) \in 0..2
    BY <1>1, OfOne, Typed, ContentsAre DEF Fresher, Held
  <2>3. Stepped(p, "read") /\ prog'[p].got = prog[p].got /\ prog'[p].index = prog[p].index
    BY <1>2, <2>1, <2>2, OfOne, SizeFields
  <2>4. OwnFile(p)'
    BY <2>3 DEF OwnFile, Stepped, Writing
  <2>5. log' = log /\ acknowledged' = acknowledged
    BY <1>1 DEF files
  <2>6. Fresher(p)'
    BY <1>1, <2>3, <2>5, OfOne DEF Fresher, Stepped
  <2>7. QED
    BY <1>1, <2>1, <2>3, <2>4, <2>6, QuietStep DEF Tidying
<1>3. CASE \E status \in {"INVALID_FORMAT", "ALLOCATION_FAILED"} : Return(p, status)
  BY <1>1, <1>3, FailKeeps DEF Tidying, Status
<1>4. QED
  BY <1>2, <1>3 DEF Fstat

LEMMA ReadKeeps ==
  ASSUME IInv, NEW p \in Programs, Read(p)
  PROVE  IInv'
<1> DEFINE next == Len(prog[p].got) + 1
<1>1. prog[p].pc = "read" /\ UNCHANGED <<files, acknowledged, env>>
  BY DEF Read, At
<1>2. CASE /\ next <= Len(content[Held(p)])
           /\ prog' = [prog EXCEPT ![p].got = Append(@, content[Held(p)][next]),
                         ![p].pc = IF next = prog[p].size THEN "probe" ELSE "read"]
  <2>1. PICK label \in {"probe", "read"} :
          prog' = [prog EXCEPT ![p].got = Append(@, content[Held(p)][next]), ![p].pc = label]
    BY <1>2
  <2>2. label \in Labels
    BY DEF Labels
  <2>3. /\ content[Held(p)] \in Seq(Halves) /\ Len(content[Held(p)]) \in 0..2
        /\ prog[p].got \in Contents /\ Len(prog[p].got) \in 0..2
    BY <1>1, OfOne, Typed, ContentsAre DEF Fresher, Held
  <2>4. content[Held(p)][next] \in Halves /\ Len(prog[p].got) < 2
    <3> DEFINE c == content[Held(p)]
    <3>1. c \in Seq(Halves) /\ Len(c) \in 0..2 /\ Len(prog[p].got) \in 0..2 /\ next <= Len(c)
      BY <1>2, <2>3
    <3> DEFINE n == Len(prog[p].got)
    <3> HIDE DEF c, Halves
    <3>2. next \in 1..Len(c) /\ n < 2
      <4>1. n + 1 <= Len(c) /\ n \in 0..2 /\ Len(c) \in 0..2
        BY <3>1
      <4>2. ASSUME NEW k \in 0..2, NEW m \in 0..2, k + 1 <= m
            PROVE  k + 1 \in 1..m /\ k < 2
        BY <4>2
      <4>3. QED
        BY <4>1, <4>2
    <3>3. c[next] \in Halves
      BY <3>1, <3>2
    <3>4. QED
      BY <3>2, <3>3 DEF c
  <2>5. Append(prog[p].got, content[Held(p)][next]) \in Contents
    BY <2>3, <2>4, ContentsMade
  <2>6. Stepped(p, label) /\ prog'[p].index = prog[p].index
    BY <2>1, <2>2, <2>5, OfOne, GotFields
  <2>7. OwnFile(p)'
    BY <2>6 DEF OwnFile, Stepped, Writing
  <2>8. log' = log /\ acknowledged' = acknowledged
    BY <1>1 DEF files
  <2>9. Fresher(p)'
    BY <1>1, <2>6, <2>8, OfOne DEF Fresher, Stepped
  <2>10. QED
    BY <1>1, <2>2, <2>6, <2>7, <2>9, QuietStep DEF Tidying
<1>3. CASE Return(p, "IO_ERROR")
  BY <1>1, <1>3, FailKeeps DEF Tidying, Status
<1>4. QED
  BY <1>2, <1>3 DEF Read

LEMMA ProbeKeeps ==
  ASSUME IInv, NEW p \in Programs, Probe(p)
  PROVE  IInv'
<1>1. prog[p].pc = "probe" /\ UNCHANGED <<files, acknowledged, env>>
  BY DEF Probe, At
<1>2. CASE Whole(prog[p].got) /\ Return(p, "OK")
  <2>1. "OK" \in Status /\ "done" \in Labels
    BY DEF Labels, Status
  <2>2. /\ Stepped(p, "done") /\ prog'[p].got = prog[p].got
        /\ prog'[p].index = prog[p].index
    BY <1>2, <2>1, OfOne, ReturnFields
  <2>3. OwnFile(p)'
    BY <2>2 DEF OwnFile, Stepped, Writing
  <2>4. acknowledged' = acknowledged
    BY <1>1
  <2>5. Fresher(p)'
    BY <1>1, <1>2, <2>2, <2>4, OfOne DEF Fresher, Stepped
  <2>6. QED
    BY <1>1, <2>1, <2>2, <2>3, <2>5, QuietStep DEF Tidying
<1>3. CASE \E status \in {"IO_ERROR", "DIGEST_MISMATCH"} : Return(p, status)
  BY <1>1, <1>3, FailKeeps DEF Tidying, Status
<1>4. QED
  BY <1>2, <1>3 DEF Probe

----------------------------------------------------------------------------
(* Steps that change the program's file, its name or the log. *)

LEMMA StartKeeps ==
  ASSUME IInv, NEW p \in Programs, NEW label \in {"check", "lstat"}, Start(p, label)
  PROVE  IInv'
<1>1. TypeOK /\ Leftovers /\ Unborn /\ acknowledged <= flushed /\ label \in Labels
  BY DEF IInv, Labels
<1>2. /\ prog' \in [Programs -> Locals] /\ Others(p)
      /\ prog'[p].pc = label /\ prog'[p].call = prog[p].call + 1
      /\ prog'[p].call \in 1..MaxCalls
      /\ prog'[p].since = acknowledged /\ prog'[p].got = <<>>
  BY <1>1, StartFields
<1>3. /\ content' = content /\ durable' = durable /\ temps' = temps /\ log' = log
      /\ flushed' = flushed /\ acknowledged' = acknowledged /\ tampered' = tampered
      /\ stuck' = stuck /\ changes' = changes /\ crashes' = crashes
  BY DEF Start, files, env
<1>4. TypeOK'
  BY <1>1, <1>2, <1>3 DEF TypeOK
<1>5. prog[p].call \in Nat /\ acknowledged \in Nat /\ flushed \in Nat
  BY <1>1, Typed DEF TypeOK
<1>6. Effect(p)
  BY <1>1, <1>2, <1>3, <1>5 DEF Effect
<1>7. OwnFile(p)'
  <2> DEFINE e == <<p, prog[p].call + 1>>
  <2>1. Mine(p)' = e /\ e \in Exports
    BY <1>2 DEF Mine, Exports
  <2>2. content[e] = <<>> /\ e \notin Logged
    <3>1. e[1] = p /\ e[2] > prog[p].call
      BY <1>5
    <3>2. QED
      BY <1>1, <2>1, <3>1 DEF Unborn
  <2>3. content'[e] = <<>> /\ e \notin Logged'
    BY <1>3, <2>2 DEF Logged
  <2> HIDE DEF e
  <2>4. QED
    BY <1>2, <2>1, <2>3 DEF OwnFile
<1>8. Fresher(p)'
  BY <1>2, <1>3, <1>5 DEF Fresher
<1>9. Leftovers'
  <2>1. Mine(p) \in temps \ stuck /\ crashes = 0 => prog[p].pc \in Tidying
    BY <1>1 DEF Leftovers, Mine
  <2>2. prog[p].pc \notin Tidying
    BY DEF Start, Tidying
  <2>3. QED
    BY <1>2, <1>3, <2>1, <2>2, LeftoversStep
<1>10. QED
  BY <1>4, <1>6, <1>7, <1>8, <1>9, EffectKeeps

(* A step of the export that leaves the log and what is known of it. *)
LEMMA FileStep ==
  ASSUME IInv, NEW p \in Programs, NEW label \in Labels, Stepped(p, label),
         content' \in [Inodes -> Contents], durable' \subseteq Inodes, temps' \subseteq Exports,
         stuck' \subseteq Exports,
         \A f \in Inodes : f # Mine(p) \/ prog[p].pc \notin Writing =>
           content'[f] = content[f] /\ (f \in durable => f \in durable'),
         UNCHANGED <<log, flushed, acknowledged, tampered, changes, crashes>>,
         OwnFile(p)', Fresher(p)', \A f \in temps' \ stuck' : f \in temps \ stuck \/ f = Mine(p),
         Mine(p) \in temps' \ stuck' => label \in Tidying
  PROVE  IInv'
<1>1. TypeOK /\ Leftovers /\ acknowledged <= flushed
  BY DEF IInv
<1>2. TypeOK'
  BY <1>1 DEF TypeOK, Stepped
<1>3. prog[p].call \in Nat /\ acknowledged \in Nat
  BY <1>1, Typed
<1>4. Effect(p)
  BY <1>1, <1>3 DEF Effect, Stepped
<1>5. Leftovers'
  BY LeftoversStep DEF Stepped
<1>6. QED
  BY <1>2, <1>4, <1>5, EffectKeeps

LEMMA CreateKeeps ==
  ASSUME IInv, NEW p \in Programs, Create(p)
  PROVE  IInv'
<1>1. prog[p].pc = "create" /\ UNCHANGED <<content, durable, log, flushed, acknowledged, env>>
  BY DEF Create, At
<1>2. CASE temps' = temps \cup {Mine(p)} /\ Goto(p, "write")
  <2>1. "write" \in Labels
    BY DEF Labels
  <2>2. Stepped(p, "write") /\ prog'[p].got = prog[p].got
    BY <1>2, <2>1, OfOne, GotoFields
  <2>3. Mine(p)' = Mine(p) /\ Logged' = Logged
    BY <1>1, <2>2 DEF Stepped, Mine, Logged
  <2>4. OwnFile(p)'
    BY <1>1, <2>2, <2>3, OfOne DEF OwnFile, Stepped, Writing
  <2>5. Fresher(p)'
    BY <1>1, <2>2, OfOne DEF Fresher, Stepped
  <2>6. temps' \subseteq Exports
    BY <1>1, <1>2, OfOne DEF TypeOK, OwnFile, Writing
  <2>7. QED
    BY <1>1, <1>2, <2>1, <2>2, <2>4, <2>5, <2>6, OfOne, FileStep DEF TypeOK, Tidying, env
<1>3. CASE Return(p, "IO_ERROR") /\ UNCHANGED temps
  BY <1>1, <1>3, FailKeeps DEF Tidying, Status, files
<1>4. QED
  BY <1>2, <1>3 DEF Create

LEMMA TwoHalves ==
  ASSUME NEW f
  PROVE  Append(<<f>>, f) = <<f, f>> /\ Len(<<f>>) = 1
<1> DEFINE s == Append(<<f>>, f)
<1>1. <<f>> \in Seq({f}) /\ Len(<<f>>) = 1 /\ <<f>>[1] = f
  OBVIOUS
<1>2. <<f, f>> \in Seq({f}) /\ Len(<<f, f>>) = 2 /\ \A i \in 1..2 : <<f, f>>[i] = f
  OBVIOUS
<1>3. s \in Seq({f}) /\ Len(s) = 2 /\ \A i \in 1..2 : s[i] = f
  BY <1>1, AppendProperties
<1> HIDE DEF s
<1>4. \A i \in 1..Len(s) : s[i] = <<f, f>>[i]
  BY <1>2, <1>3
<1>5. s = <<f, f>>
  BY <1>2, <1>3, <1>4, SeqEqual
<1>6. QED
  BY <1>1, <1>5 DEF s

LEMMA WriteKeeps ==
  ASSUME IInv, NEW p \in Programs, Write(p)
  PROVE  IInv'
<1>1. prog[p].pc = "write" /\ UNCHANGED <<temps, log, flushed, acknowledged, env>>
  BY DEF Write, At
<1>2. /\ content[Mine(p)] \in {<<>>, <<Mine(p)>>} /\ Mine(p) \in Exports /\ Mine(p) \in Inodes
      /\ Mine(p) \notin Logged /\ Mine(p) \in Halves
  BY <1>1, OfOne DEF OwnFile, Writing, Inodes, Halves
<1>3. CASE /\ content' = [content EXCEPT ![Mine(p)] = Append(@, Mine(p))]
           /\ durable' = durable \ {Mine(p)}
           /\ Goto(p, IF Len(content[Mine(p)]) = 1 THEN "fsync" ELSE "write")
  <2> DEFINE label == IF Len(content[Mine(p)]) = 1 THEN "fsync" ELSE "write"
  <2>1. label \in Labels /\ label \in Tidying
    BY DEF Labels, Tidying
  <2>2. Stepped(p, label) /\ prog'[p].got = prog[p].got
    BY <1>3, <2>1, OfOne, GotoFields
  <2>3. /\ content' \in [Inodes -> Contents]
        /\ \A f \in Inodes : f # Mine(p) => content'[f] = content[f] /\ (f \in durable => f \in durable')
        /\ content'[Mine(p)] = IF label = "fsync" THEN <<Mine(p), Mine(p)>> ELSE <<Mine(p)>>
    <3>1. content \in [Inodes -> Contents]
      BY OfOne DEF TypeOK
    <3>2. <<Mine(p)>> \in Contents /\ <<Mine(p), Mine(p)>> \in Contents
      BY <1>2, ContentsMade
    <3>3. CASE content[Mine(p)] = <<>>
      <4>1. label = "write" /\ content' = [content EXCEPT ![Mine(p)] = <<Mine(p)>>]
        BY <1>3, <3>3
      <4>2. QED
        BY <1>2, <1>3, <3>1, <3>2, <4>1
    <3>4. CASE content[Mine(p)] = <<Mine(p)>>
      <4>1. label = "fsync" /\ content' = [content EXCEPT ![Mine(p)] = <<Mine(p), Mine(p)>>]
        BY <1>3, <3>4, TwoHalves
      <4>2. QED
        BY <1>2, <1>3, <3>1, <3>2, <4>1
    <3>5. QED
      BY <1>2, <3>3, <3>4
  <2>4. Mine(p)' = Mine(p) /\ Logged' = Logged
    BY <1>1, <2>2 DEF Stepped, Mine, Logged
  <2>5. label \in {"write", "fsync"}
    OBVIOUS
  <2> HIDE DEF label
  <2>6. OwnFile(p)'
    BY <1>2, <2>2, <2>3, <2>4, <2>5 DEF OwnFile, Stepped
  <2>7. Fresher(p)'
    BY <1>1, <2>2, <2>5, OfOne DEF Fresher, Stepped
  <2>8. durable' \subseteq Inodes /\ temps' \subseteq Exports /\ stuck' \subseteq Exports
    BY <1>1, <1>3, OfOne DEF TypeOK, env
  <2>9. QED
    BY <1>1, <2>1, <2>2, <2>3, <2>6, <2>7, <2>8, FileStep DEF env, Writing
<1>4. CASE Goto(p, "unlink") /\ UNCHANGED <<content, durable>>
  <2>1. "unlink" \in Labels
    BY DEF Labels
  <2>2. Stepped(p, "unlink") /\ prog'[p].got = prog[p].got
    BY <1>4, <2>1, OfOne, GotoFields
  <2>3. OwnFile(p)'
    BY <2>2 DEF OwnFile, Stepped, Writing
  <2>4. Mine(p)' = Mine(p)
    BY <2>2 DEF Stepped, Mine
  <2>5. Fresher(p)'
    BY <1>1, <1>2, <2>2, <2>4, OfOne DEF Fresher, Stepped
  <2>6. QED
    BY <1>1, <1>4, <2>1, <2>2, <2>3, <2>5, QuietStep DEF Tidying, files
<1>5. QED
  BY <1>3, <1>4 DEF Write

LEMMA FsyncKeeps ==
  ASSUME IInv, NEW p \in Programs, Fsync(p)
  PROVE  IInv'
<1>1. /\ prog[p].pc = "fsync"
      /\ UNCHANGED <<content, temps, log, flushed, acknowledged, env>>
  BY DEF Fsync, At
<1>2. /\ content[Mine(p)] = <<Mine(p), Mine(p)>> /\ Mine(p) \in Exports /\ Mine(p) \in Inodes
      /\ Mine(p) \notin Logged /\ content \in [Inodes -> Contents] /\ durable \subseteq Inodes
      /\ temps \subseteq Exports /\ stuck \subseteq Exports
  BY <1>1, OfOne DEF OwnFile, Writing, Inodes, TypeOK
<1>3. PICK label \in {"recheck", "unlink"} :
        /\ Goto(p, label) /\ durable \subseteq durable' /\ durable' \subseteq durable \cup {Mine(p)}
        /\ label = "recheck" => Mine(p) \in durable'
  BY DEF Fsync
<1>4. label \in Labels
  BY DEF Labels
<1>5. Stepped(p, label) /\ prog'[p].got = prog[p].got
  BY <1>3, <1>4, OfOne, GotoFields
<1>6. Mine(p)' = Mine(p) /\ Logged' = Logged
  BY <1>1, <1>5 DEF Stepped, Mine, Logged
<1>7. OwnFile(p)'
  BY <1>1, <1>2, <1>3, <1>5, <1>6 DEF OwnFile, Stepped
<1>8. Fresher(p)'
  BY <1>1, <1>2, <1>5, <1>6, OfOne DEF Fresher, Stepped
<1>9. durable' \subseteq Inodes
  BY <1>2, <1>3
<1>10. QED
  BY <1>1, <1>2, <1>3, <1>4, <1>5, <1>7, <1>8, <1>9, FileStep DEF env, Tidying

LEMMA UnlinkKeeps ==
  ASSUME IInv, NEW p \in Programs, Unlink(p)
  PROVE  IInv'
<1>1. /\ prog[p].pc = "unlink" /\ Return(p, "IO_ERROR")
      /\ UNCHANGED <<content, durable, log, flushed, acknowledged, tampered, changes, crashes>>
  BY DEF Unlink, At
<1>2. /\ Mine(p) \in Exports /\ content \in [Inodes -> Contents] /\ durable \subseteq Inodes
      /\ temps \subseteq Exports /\ stuck \subseteq Exports
  BY <1>1, OfOne DEF Fresher, TypeOK
<1>3. "done" \in Labels /\ "IO_ERROR" \in Status
  BY DEF Labels, Status
<1>4. Stepped(p, "done") /\ prog'[p].got = prog[p].got /\ prog'[p].status = "IO_ERROR"
  BY <1>1, <1>3, OfOne, ReturnFields
<1>5. OwnFile(p)'
  BY <1>4 DEF OwnFile, Stepped, Writing
<1>6. Fresher(p)'
  BY <1>1, <1>4, OfOne DEF Fresher, Stepped
<1>7. /\ temps' \subseteq Exports /\ stuck' \subseteq Exports
      /\ \A f \in temps' \ stuck' : f \in temps \ stuck
      /\ Mine(p) \notin temps' \ stuck'
  <2>1. CASE temps' = temps \ {Mine(p)} /\ UNCHANGED stuck
    BY <1>2, <2>1
  <2>2. CASE UNCHANGED temps /\ stuck' = stuck \cup {Mine(p)}
    BY <1>2, <2>2
  <2>3. QED
    BY <2>1, <2>2 DEF Unlink
<1>8. QED
  BY <1>1, <1>2, <1>3, <1>4, <1>5, <1>6, <1>7, FileStep

LEMMA RenameKeeps ==
  ASSUME IInv, NEW p \in Programs, Rename(p)
  PROVE  IInv'
<1>1. prog[p].pc = "rename" /\ UNCHANGED <<content, durable, flushed, acknowledged, env>>
  BY DEF Rename, At
<1>2. /\ TypeOK /\ acknowledged <= flushed /\ Mine(p) \in Exports /\ Mine(p) \in Inodes
      /\ prog[p].got = <<>> /\ prog[p].since <= acknowledged
  BY <1>1, OfOne DEF OwnFile, Fresher, Writing, Inodes, IInv
<1>3. CASE /\ log' = Append(log, Mine(p))
           /\ temps' = temps \ {Mine(p)}
           /\ prog' = [prog EXCEPT ![p].pc = "sync", ![p].index = Len(log) + 1]
  <2>1. "sync" \in Labels /\ Len(log) \in Nat /\ Len(log) + 1 \in Nat
    BY <1>2, Typed DEF Labels
  <2>2. Stepped(p, "sync") /\ prog'[p].got = prog[p].got /\ prog'[p].index = Len(log) + 1
    BY <1>3, <2>1, OfOne, IndexFields
  <2>3. Len(log') = Len(log) + 1
    BY <1>2, <1>3, LogAppended
  <2>4. TypeOK'
    <3>1. log \in Seq(Inodes \cup {Absent, Special}) /\ Mine(p) \in Inodes \cup {Absent, Special}
      BY <1>2 DEF TypeOK
    <3>2. log' \in Seq(Inodes \cup {Absent, Special})
      BY <1>3, <3>1
    <3>3. flushed' \in 1..Len(log') /\ acknowledged' \in 0..Len(log')
      BY <1>1, <1>2, <2>1, <2>3 DEF TypeOK
    <3>4. QED
      BY <1>1, <1>2, <1>3, <2>2, <3>2, <3>3 DEF TypeOK, Stepped, env
  <2>5. OwnFile(p)'
    BY <2>2 DEF OwnFile, Stepped, Writing
  <2>6. Fresher(p)'
    <3>1. Len(log) + 1 \in 1..Len(log')
      BY <2>1, <2>3
    <3>2. Mine(p)' = Mine(p)
      BY <2>2 DEF Mine, Stepped
    <3>3. QED
      BY <1>1, <1>2, <2>2, <3>1, <3>2 DEF Fresher, Stepped
  <2>7. prog[p].call \in Nat /\ acknowledged \in Nat
    BY <1>2, Typed
  <2>8. Effect(p)
    BY <1>1, <1>2, <1>3, <2>2, <2>7 DEF Effect, Stepped, env
  <2>9. Leftovers'
    BY <1>1, <1>3, <2>2, LeftoversStep DEF env, Stepped
  <2>10. QED
    BY <2>4, <2>5, <2>6, <2>8, <2>9, EffectKeeps
<1>4. CASE Goto(p, "unlink") /\ UNCHANGED <<log, temps>>
  <2>1. "unlink" \in Labels
    BY DEF Labels
  <2>2. Stepped(p, "unlink") /\ prog'[p].got = prog[p].got
    BY <1>4, <2>1, OfOne, GotoFields
  <2>3. OwnFile(p)'
    BY <2>2 DEF OwnFile, Stepped, Writing
  <2>4. Mine(p)' = Mine(p)
    BY <2>2 DEF Stepped, Mine
  <2>5. Fresher(p)'
    BY <1>1, <1>2, <2>2, <2>4 DEF Fresher, Stepped
  <2>6. QED
    BY <1>1, <1>4, <2>1, <2>2, <2>3, <2>5, QuietStep DEF Tidying, files
<1>5. QED
  BY <1>3, <1>4 DEF Rename

LEMMA SyncKeeps ==
  ASSUME IInv, NEW p \in Programs, Sync(p)
  PROVE  IInv'
<1>1. prog[p].pc = "sync" /\ UNCHANGED <<content, durable, temps, log, env>>
  BY DEF Sync, At
<1>2. /\ TypeOK /\ acknowledged <= flushed /\ prog[p].index \in 1..Len(log)
      /\ prog[p].got = <<>> /\ prog[p].since <= acknowledged
      /\ prog[p].since \in Nat /\ prog[p].call \in Nat /\ acknowledged \in Nat
      /\ Len(log) \in Nat /\ flushed \in 1..Len(log)
  BY <1>1, OfOne, Typed DEF Fresher, IInv, TypeOK
<1>3. PICK status \in {"OK", "IO_ERROR"} : Return(p, status)
  BY DEF Sync
<1>4. "done" \in Labels /\ status \in Status
  BY DEF Labels, Status
<1>5. Stepped(p, "done") /\ prog'[p].got = prog[p].got
  BY <1>3, <1>4, OfOne, ReturnFields
<1>6. /\ flushed' \in {flushed, Len(log)} /\ acknowledged' \in Nat
      /\ acknowledged <= acknowledged' /\ acknowledged' <= flushed'
  <2>1. CASE /\ flushed' = Len(log)
             /\ acknowledged' = IF prog[p].index > acknowledged THEN prog[p].index
                                ELSE acknowledged
    BY <1>2, <2>1
  <2>2. CASE flushed' \in {flushed, Len(log)} /\ UNCHANGED acknowledged
    BY <1>2, <2>2
  <2>3. QED
    BY <2>1, <2>2 DEF Sync
<1>7. TypeOK'
  <2>1. flushed' \in 1..Len(log) /\ acknowledged' \in 0..Len(log)
    BY <1>2, <1>6
  <2>2. QED
    BY <1>1, <1>2, <1>5, <2>1 DEF TypeOK, Stepped, env
<1>8. OwnFile(p)'
  BY <1>5 DEF OwnFile, Stepped, Writing
<1>9. Fresher(p)'
  BY <1>2, <1>5, <1>6 DEF Fresher, Stepped
<1>10. Effect(p)
  BY <1>1, <1>2, <1>5, <1>6 DEF Effect, Stepped, env
<1>11. Leftovers'
  <2>1. Mine(p) \in temps \ stuck /\ crashes = 0 => prog[p].pc \in Tidying
    BY DEF IInv, Leftovers, Mine
  <2>2. prog[p].pc \notin Tidying
    BY <1>1 DEF Tidying
  <2>3. QED
    BY <1>1, <1>5, <2>1, <2>2, LeftoversStep DEF env, Stepped
<1>12. QED
  BY <1>7, <1>8, <1>9, <1>10, <1>11, EffectKeeps

LEMMA StepKeeps ==
  ASSUME IInv, NEW p \in Programs, Step(p)
  PROVE  IInv'
BY StartKeeps, CheckKeeps, CreateKeeps, WriteKeeps, FsyncKeeps, RecheckKeeps, RenameKeeps,
   UnlinkKeeps, SyncKeeps, LstatKeeps, OpenKeeps, FstatKeeps, ReadKeeps, ProbeKeeps DEF Step

----------------------------------------------------------------------------
(* Steps of no program: other programs' changes, and power losses. *)

(* Another program writes into a file the name denotes: no export's before
   it was renamed, and only those written into are spoiled. *)
LEMMA WrittenInto ==
  ASSUME IInv, Regular, tampered' = tampered \cup {Current},
         NEW halves \in Contents, content' = [content EXCEPT ![Current] = halves],
         durable' = durable \ {Current}, changes' \in 0..MaxDisturb,
         UNCHANGED <<log, temps, flushed, prog, acknowledged, stuck, crashes>>
  PROVE  IInv'
<1>1. TypeOK /\ acknowledged <= flushed /\ Unborn /\ AllWhole /\ Leftovers
  BY DEF IInv
<1>2. Current \in Logged /\ Current \in Inodes /\ Logged' = Logged
  BY <1>1 DEF Regular, Current, Logged, TypeOK
<1>3. \A f \in Inodes : f # Current =>
        content'[f] = content[f] /\ (f \in durable => f \in durable')
  BY <1>1 DEF TypeOK
<1>4. Exports \subseteq Inodes
  BY DEF Inodes
<1>5. content' \in [Inodes -> Contents]
  BY <1>1 DEF TypeOK
<1>6. TypeOK'
  BY <1>1, <1>2, <1>5 DEF TypeOK
<1>7. Unborn'
  BY <1>1, <1>2, <1>3, <1>4 DEF Unborn
<1>8. AllWhole'
  BY <1>1, <1>2, <1>3, <1>4 DEF AllWhole
<1>9. Leftovers'
  BY <1>1 DEF Leftovers
<1>10. ASSUME NEW q \in Programs PROVE OwnFile(q)' /\ Fresher(q)'
  <2>1. OwnFile(q) /\ Fresher(q) /\ Mine(q)' = Mine(q)
    BY OfOne DEF Mine
  <2>2. OwnFile(q)'
    BY <1>2, <1>3, <1>4, <2>1 DEF OwnFile, Writing
  <2>3. Fresher(q)'
    BY <2>1 DEF Fresher
  <2>4. QED
    BY <2>2, <2>3
<1>11. QED
  BY <1>1, <1>6, <1>7, <1>8, <1>9, <1>10 DEF IInv

(* Another program replaces or removes the file: what it puts there is no
   export's. *)
LEMMA Replaced ==
  ASSUME IInv, NEW it \in {Absent, Special, Foreign}, log' = Append(log, it),
         changes' \in 0..MaxDisturb,
         UNCHANGED <<content, durable, tampered, temps, flushed, prog, acknowledged, stuck, crashes>>
  PROVE  IInv'
<1>1. TypeOK /\ acknowledged <= flushed /\ Unborn /\ AllWhole /\ Leftovers
  BY DEF IInv
<1>2. /\ Len(log') = Len(log) + 1 /\ Logged' = Logged \cup {it}
      /\ \A i \in 1..Len(log) : log'[i] = log[i]
  BY <1>1, LogAppended
<1>3. it \notin Exports /\ it \in Inodes \cup {Absent, Special}
  BY FileAssumption DEF Inodes, Foreign, Exports
<1>4. TypeOK'
  <2>1. log \in Seq(Inodes \cup {Absent, Special}) /\ Len(log) \in Nat
    BY <1>1 DEF TypeOK
  <2>2. log' \in Seq(Inodes \cup {Absent, Special})
    BY <1>3, <2>1
  <2>3. flushed' \in 1..Len(log') /\ acknowledged' \in 0..Len(log')
    BY <1>1, <1>2, <2>1 DEF TypeOK
  <2>4. QED
    BY <1>1, <2>2, <2>3 DEF TypeOK
<1>5. Unborn'
  BY <1>1, <1>2, <1>3 DEF Unborn
<1>6. AllWhole'
  BY <1>1, <1>2, <1>3 DEF AllWhole
<1>7. Leftovers'
  BY <1>1 DEF Leftovers
<1>8. ASSUME NEW q \in Programs PROVE OwnFile(q)' /\ Fresher(q)'
  <2>1. OwnFile(q) /\ Fresher(q) /\ Mine(q)' = Mine(q) /\ Len(log) \in Nat
    BY <1>1, OfOne, Typed DEF Mine
  <2>2. OwnFile(q)'
    BY <1>2, <1>3, <2>1 DEF OwnFile, Writing
  <2>3. Fresher(q)'
    BY <1>2, <2>1 DEF Fresher
  <2>4. QED
    BY <2>2, <2>3
<1>9. QED
  BY <1>1, <1>4, <1>5, <1>6, <1>7, <1>8 DEF IInv

LEMMA DisturbKeeps ==
  ASSUME IInv, Disturb
  PROVE  IInv'
<1>1. changes' \in 0..MaxDisturb /\ UNCHANGED <<temps, flushed, prog, acknowledged, stuck, crashes>>
  BY FileAssumption DEF Disturb, IInv, TypeOK
<1>2. CASE /\ Regular
           /\ tampered' = tampered \cup {Current}
           /\ \E halves \in {<<>>, <<Junk>>, <<Junk, Junk>>, <<Junk, Old>>} :
                content' = [content EXCEPT ![Current] = halves]
           /\ durable' = durable \ {Current}
           /\ UNCHANGED log
  <2>1. Junk \in Halves /\ Old \in Halves
    BY DEF Halves, Inodes
  <2>2. /\ <<>> \in Contents /\ <<Junk>> \in Contents /\ <<Junk, Junk>> \in Contents
        /\ <<Junk, Old>> \in Contents
    BY <2>1, ContentsMade
  <2>3. PICK halves \in Contents : content' = [content EXCEPT ![Current] = halves]
    BY <1>2, <2>2
  <2>4. QED
    BY <1>1, <1>2, <2>3, WrittenInto
<1>3. CASE /\ \E it \in {Absent, Special, Foreign} : log' = Append(log, it)
           /\ UNCHANGED <<content, durable, tampered>>
  BY <1>1, <1>3, Replaced
<1>4. QED
  BY <1>2, <1>3 DEF Disturb

(* Power loss keeps what is on storage: the name denotes one of the files it
   denoted since the last flush, and no file on storage has changed. *)
LEMMA CrashKeeps ==
  ASSUME IInv, Crash
  PROVE  IInv'
<1>1. TypeOK /\ acknowledged <= flushed /\ Unborn /\ AllWhole
  BY DEF IInv
<1>2. /\ crashes' = crashes + 1 /\ crashes' \in 0..MaxCrashes /\ crashes' # 0
      /\ UNCHANGED <<temps, acknowledged, tampered, stuck, changes>>
  <2>1. /\ crashes < MaxCrashes /\ crashes' = crashes + 1
        /\ UNCHANGED <<temps, acknowledged, tampered, stuck, changes>>
    BY DEF Crash
  <2>2. crashes \in 0..MaxCrashes /\ MaxCrashes \in Nat
    BY <1>1, FileAssumption DEF TypeOK
  <2>3. QED
    BY <2>1, <2>2
<1>3. PICK i \in flushed..Len(log) : log' = SubSeq(log, 1, i) /\ flushed' = i
  BY DEF Crash
<1>4. PICK kept \in [Unsafe -> 0..2] :
        content' = [f \in Inodes |->
          IF f \in Unsafe /\ kept[f] < Len(content[f])
          THEN SubSeq(content[f], 1, kept[f]) ELSE content[f]]
  BY DEF Crash
<1>5. /\ log \in Seq(Inodes \cup {Absent, Special}) /\ Len(log) \in Nat /\ DOMAIN log = 1..Len(log)
      /\ i \in 1..Len(log) /\ acknowledged \in Nat /\ acknowledged <= i
  BY <1>1, Typed DEF TypeOK
<1>6. /\ log' \in Seq(Inodes \cup {Absent, Special}) /\ Len(log') = i
      /\ \A j \in 1..i : log'[j] = log[j]
  BY <1>3, <1>5
<1>7. Logged' \subseteq Logged
  BY <1>5, <1>6 DEF Logged
<1>8. \A f \in Inodes : content'[f] \in Contents
  <2>1. ASSUME NEW f \in Unsafe, kept[f] < Len(content[f]) PROVE SubSeq(content[f], 1, kept[f]) \in Contents
    <3>1. content[f] \in Contents /\ kept[f] \in 0..2
      BY <1>1, Typed DEF Unsafe
    <3>2. QED
      BY <2>1, <3>1, ContentsMade
  <2>2. \A f \in Inodes : content[f] \in Contents
    BY <1>1, Typed
  <2>3. QED
    BY <1>4, <2>1, <2>2
<1>9. \A f \in Inodes : f \in durable \/ content[f] = <<>> => content'[f] = content[f]
  BY <1>4 DEF Unsafe
<1>10. durable \subseteq durable' /\ durable' \subseteq Inodes
  BY <1>1 DEF Crash, Unsafe, TypeOK
<1>11. ASSUME NEW q \in Programs
       PROVE  /\ prog'[q] \in Locals /\ prog'[q].call = prog[q].call
              /\ \/ prog[q].pc \in {"idle", "done"} /\ prog'[q] = prog[q]
                 \/ prog'[q].pc = "crashed" /\ prog'[q].got = <<>> /\ prog'[q].since = 0
  <2> DEFINE s == [Fresh EXCEPT !.pc = "crashed", !.call = prog[q].call]
  <2>1. prog'[q] = IF prog[q].pc \in {"idle", "done"} THEN prog[q] ELSE s
    BY DEF Crash
  <2>2. s = [pc |-> "crashed", call |-> prog[q].call, status |-> "none", index |-> 0,
             size |-> 0, got |-> <<>>, since |-> 0]
    <3> DEFINE f1 == [Fresh EXCEPT !.pc = "crashed"]
    <3>1. f1 = [pc |-> "crashed", call |-> 0, status |-> "none", index |-> 0,
                size |-> 0, got |-> <<>>, since |-> 0]
      BY DEF Fresh
    <3> HIDE DEF f1
    <3>2. [f1 EXCEPT !.call = prog[q].call] =
            [pc |-> "crashed", call |-> prog[q].call, status |-> "none", index |-> 0,
             size |-> 0, got |-> <<>>, since |-> 0]
      BY <3>1
    <3>3. QED
      BY <3>2 DEF f1
  <2>3. prog[q] \in Locals /\ prog[q].call \in 0..MaxCalls
    BY <1>1, Typed
  <2>4. s \in Locals
    <3>1. "crashed" \in Labels /\ "none" \in Status /\ <<>> \in Contents /\ 0 \in 0..2
      BY ContentsMade DEF Labels, Status
    <3> HIDE DEF s
    <3>2. QED
      BY <2>2, <2>3, <3>1 DEF Locals
  <2>5. /\ s.pc = "crashed" /\ s.call = prog[q].call /\ s.got = <<>> /\ s.since = 0
    BY <2>2
  <2> HIDE DEF s
  <2>6. QED
    BY <2>1, <2>3, <2>4, <2>5
<1>12. prog' \in [Programs -> Locals]
  <2>1. prog' = [q \in Programs |-> prog'[q]]
    BY DEF Crash
  <2>2. QED
    BY <1>11, <2>1
<1>13. content' \in [Inodes -> Contents]
  <2>1. content' = [f \in Inodes |-> content'[f]]
    BY <1>4
  <2>2. QED
    BY <1>8, <2>1
<1>14. TypeOK'
  <2>1. flushed' \in 1..Len(log') /\ acknowledged' \in 0..Len(log')
    BY <1>2, <1>3, <1>5, <1>6
  <2>2. QED
    BY <1>1, <1>2, <1>6, <1>10, <1>12, <1>13, <2>1 DEF TypeOK
<1>15. Unborn'
  BY <1>1, <1>7, <1>9, <1>11 DEF Unborn, Exports, Inodes
<1>16. AllWhole'
  BY <1>1, <1>2, <1>7, <1>9, <1>10 DEF AllWhole, Inodes
<1>17. Leftovers'
  BY <1>2 DEF Leftovers
<1>18. ASSUME NEW q \in Programs PROVE OwnFile(q)' /\ Fresher(q)'
  <2>1. OwnFile(q)'
    BY <1>11 DEF OwnFile, Writing
  <2>2. Fresher(q)'
    <3>1. Fresher(q) /\ acknowledged' = acknowledged /\ 0 <= acknowledged
      BY <1>2, <1>5, OfOne
    <3>2. QED
      BY <1>11, <3>1 DEF Fresher
  <2>3. QED
    BY <2>1, <2>2
<1>19. QED
  BY <1>2, <1>3, <1>5, <1>14, <1>15, <1>16, <1>17, <1>18 DEF IInv

----------------------------------------------------------------------------
(* The theorems. *)

LEMMA InitIInv ==
  ASSUME Init
  PROVE  IInv
<1>1. /\ prog = [p \in Programs |-> Fresh] /\ acknowledged = 0 /\ flushed = 1 /\ tampered = {}
      /\ stuck = {} /\ changes = 0 /\ crashes = 0 /\ temps = {} /\ durable = {Old, Foreign}
      /\ log \in {<<Old>>, <<Absent>>}
  BY DEF Init
<1>2. Old \in Halves /\ Junk \in Halves /\ Old \in Inodes /\ Foreign \in Inodes
  BY DEF Halves, Inodes
<1>3. <<>> \in Contents /\ <<Old, Old>> \in Contents /\ <<Junk>> \in Contents
  BY <1>2, ContentsMade
<1>4. content \in [Inodes -> Contents]
  BY <1>3 DEF Init
<1>5. Fresh \in Locals
  BY <1>3, FileAssumption DEF Fresh, Locals, Labels, Status
<1>6. log \in Seq(Inodes \cup {Absent, Special}) /\ Len(log) = 1 /\ log[1] \in {Old, Absent}
  <2>1. PICK it \in {Old, Absent} : log = <<it>>
    BY <1>1
  <2>2. it \in Inodes \cup {Absent, Special}
    BY <1>2
  <2>3. <<it>> \in Seq(Inodes \cup {Absent, Special}) /\ Len(<<it>>) = 1 /\ <<it>>[1] = it
    BY <2>2
  <2>4. QED
    BY <2>1, <2>3
<1>7. TypeOK
  BY <1>1, <1>2, <1>4, <1>5, <1>6, FileAssumption DEF TypeOK
<1>8. Old \notin Exports /\ Absent \notin Exports /\ Foreign \notin Exports
  BY FileAssumption DEF Old, Foreign, Exports, Inodes
<1>9. Logged \cap Exports = {}
  BY <1>6, <1>8 DEF Logged
<1>10. Unborn
  BY <1>8, <1>9 DEF Unborn, Init, Inodes
<1>11. AllWhole
  BY <1>9 DEF AllWhole
<1>12. Leftovers
  BY <1>1 DEF Leftovers
<1>13. \A p \in Programs : OwnFile(p) /\ Fresher(p)
  <2>1. Fresh.pc = "idle" /\ Fresh.got = <<>> /\ Fresh.since = 0
    BY DEF Fresh
  <2>2. QED
    BY <1>1, <2>1 DEF OwnFile, Fresher, Writing
<1>14. QED
  BY <1>1, <1>7, <1>10, <1>11, <1>12, <1>13 DEF IInv

LEMMA NextIInv ==
  ASSUME IInv, [Next]_vars
  PROVE  IInv'
<1>1. CASE Next
  BY <1>1, StepKeeps, DisturbKeeps, CrashKeeps DEF Next
<1>2. CASE UNCHANGED vars
  <2>1. /\ content' = content /\ durable' = durable /\ temps' = temps /\ log' = log
        /\ flushed' = flushed /\ prog' = prog /\ acknowledged' = acknowledged
        /\ tampered' = tampered /\ stuck' = stuck /\ changes' = changes /\ crashes' = crashes
    BY <1>2 DEF vars, files, env
  <2>2. TypeOK' /\ (acknowledged <= flushed)'
    BY <2>1 DEF IInv, TypeOK
  <2>3. Logged' = Logged
    BY <2>1 DEF Logged
  <2>4. Unborn' /\ AllWhole' /\ Leftovers'
    BY <2>1, <2>3 DEF IInv, Unborn, AllWhole, Leftovers
  <2>5. ASSUME NEW q \in Programs PROVE OwnFile(q)' /\ Fresher(q)'
    <3>1. OwnFile(q) /\ Fresher(q) /\ Mine(q)' = Mine(q)
      BY <2>1, OfOne DEF Mine
    <3>2. QED
      BY <2>1, <2>3, <3>1 DEF OwnFile, Fresher
  <2>6. QED
    BY <2>2, <2>4, <2>5 DEF IInv
<1>3. QED
  BY <1>1, <1>2

(* What the temporary files, the log and the programs are in every state. *)
THEOREM FileInvariant == Spec => []IInv
<1>1. Init => IInv
  BY InitIInv
<1>2. IInv /\ [Next]_vars => IInv'
  BY NextIInv
<1>3. QED
  BY <1>1, <1>2, PTL DEF Spec

(* No power loss takes back an export that was answered OK: registry_atomic_
   write flushes the file before it renames it, and the directory before it
   answers.  Whatever is named is whole, and no temporary name outlives its
   call. *)
THEOREM AcknowledgedStaysHolds == Spec => []AcknowledgedStays
<1>1. IInv => AcknowledgedStays
  <2>1. SUFFICES ASSUME IInv PROVE AcknowledgedStays
    OBVIOUS
  <2>2. TypeOK /\ acknowledged <= flushed /\ AllWhole /\ Leftovers
    BY <2>1 DEF IInv
  <2>3. NamedIsWhole
    <3>1. SUFFICES ASSUME NEW i \in flushed..Len(log), log[i] \in Exports \ tampered
                   PROVE  content[log[i]] = <<log[i], log[i]>> /\ log[i] \in durable
      BY <2>2 DEF NamedIsWhole
    <3>2. flushed \in 1..Len(log) /\ DOMAIN log = 1..Len(log) /\ Len(log) \in Nat
      BY <2>2, Typed DEF TypeOK
    <3>3. log[i] \in Logged
      BY <3>2 DEF Logged
    <3>4. QED
      BY <2>2, <3>1, <3>3 DEF AllWhole
  <2>4. \A f \in temps \ stuck :
          crashes = 0 => prog[f[1]].pc \notin {"idle", "done"} /\ prog[f[1]].call = f[2]
    BY <2>2 DEF Leftovers, Tidying
  <2>5. QED
    BY <2>2, <2>3, <2>4 DEF AcknowledgedStays
<1>2. QED
  BY <1>1, FileInvariant, PTL

(* An import that succeeds delivers one whole image, no older than the latest
   export acknowledged before it: registry_read_file reads one file that the
   name denoted since then, and the digest rejects what an edit mixed up. *)
THEOREM ImportsFreshImageHolds == Spec => []ImportsFreshImage
<1>1. IInv => ImportsFreshImage
  <2>1. SUFFICES ASSUME IInv, NEW p \in Programs,
                        At(p, "done"), prog[p].status = "OK", prog[p].got # <<>>
                 PROVE  /\ prog[p].got[1] = prog[p].got[2] /\ prog[p].got[1] # Junk
                        /\ prog[p].index >= prog[p].since
    BY DEF ImportsFreshImage
  <2>2. Whole(prog[p].got) /\ prog[p].since <= prog[p].index
    BY <2>1, OfOne DEF Fresher, At
  <2>3. prog[p].since \in Nat /\ prog[p].index \in Nat
    BY <2>1, OfOne, Typed
  <2>4. QED
    BY <2>2, <2>3 DEF Whole
<1>2. QED
  BY <1>1, FileInvariant, PTL
=============================================================================
