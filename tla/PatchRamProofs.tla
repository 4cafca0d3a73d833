--------------------------- MODULE PatchRamProofs ---------------------------
(* Proofs about the Bluetooth firmware loader, for all command lines and     *)
(* files, any number of records, noise, lost commands and troubles.          *)
EXTENDS PatchRam, SequenceTheorems, TLAPS

\* The commands the program makes: a rate is one of the table's, and a record is
\* one that the file has.
KnownCmd ==
  {c \in [op : Ops, arg : Seq(Nat)] :
     /\ c.op = "baud" => Decoded(c.arg) \in baud_rates
     /\ c.op = "record" => c.arg[1] \in 1..Records}

Parts == {"all", "header", "body", "error"}
PlanStep == Ops \cup {"hci"}
Modes == {"rom", "loader", "patched", "crashed"}
Chips == [mode : Modes, up : BOOLEAN, rate : baud_rates, next : {0} \cup baud_rates,
          ram : SUBSET (1..Records), set : SUBSET Settings, two : BOOLEAN]
Opts  == [patch : BOOLEAN, rate : {0} \cup baud_rates,
          addr : {"none", "asked", "junk"}, lpm : BOOLEAN, sco : BOOLEAN,
          i2s : BOOLEAN, hci : BOOLEAN, early : BOOLEAN, no2 : BOOLEAN]

\* The steps that are left set no rate unless one was asked for, and one of them
\* is being done while the program waits for an answer.
MayBe(o, s) ==
  s \in Seq(PlanStep) /\ \A i \in 1..Len(s) : s[i] = "baud" => o.rate # 0
PlanInv ==
  /\ MayBe(opt, plan)
  /\ pc = "parse" => plan = <<>>
  /\ pc \in {"read", "disarm", "two"} => plan # <<>>

LineInv == cmds \in Seq(KnownCmd) /\ out \in Seq(Byte) /\ rx \in Seq(Byte)

TypeInv == TypeOK /\ PlanInv /\ LineInv

----------------------------------------------------------------------------
(* The operators.                                                          *)

\* A file that is read has one piece for every record and for the launch, and
\* the last piece may lack something.
LEMMA FileType ==
  ASSUME NEW f \in Files \cup {<<>>}
  PROVE  f \in Seq(Parts) /\ Len(f) \in 0..(Records + 1)
<1>r. Records \in Nat
  BY Assumptions
<1>i. \A i \in 1..(Records + 1) : Image[i] = "all"
  BY DEF Image
<1>1. \A n \in 0..(Records + 1) :
        SubSeq(Image, 1, n) \in Seq(Parts) /\ Len(SubSeq(Image, 1, n)) = n
  <2> TAKE n \in 0..(Records + 1)
  <2>1. \A i \in 1..n : Image[i] \in Parts
    BY <1>r, <1>i DEF Parts
  <2> QED
    BY <1>r, <2>1, SubSeqProperties
<1>2. \A n \in 0..Records, x \in {"header", "body", "error"} :
        Append(SubSeq(Image, 1, n), x) \in Seq(Parts)
        /\ Len(Append(SubSeq(Image, 1, n), x)) = n + 1
  <2> TAKE n \in 0..Records, x \in {"header", "body", "error"}
  <2> DEFINE s == SubSeq(Image, 1, n)
  <2>1. s \in Seq(Parts) /\ Len(s) = n
    BY <1>r, <1>1
  <2>2. x \in Parts
    BY DEF Parts
  <2>3. /\ Append(s, x) \in Seq(Parts)
        /\ Len(Append(s, x)) = Len(s) + 1
    BY <2>1, <2>2, AppendProperties
  <2> QED
    BY <2>1, <2>3
<1>3. CASE f = <<>>
  BY <1>r, <1>3, EmptySeq
<1>4. CASE f \in Cuts
  <2>1. CASE f \in {SubSeq(Image, 1, n) : n \in 0..(Records + 1)}
    BY <1>r, <1>1, <2>1
  <2>2. CASE f \in {Append(SubSeq(Image, 1, n), x) :
                      n \in 0..Records, x \in {"header", "body", "error"}}
    BY <1>r, <1>2, <2>2
  <2> QED
    BY <1>4, <2>1, <2>2 DEF Cuts
<1> QED
  BY <1>3, <1>4, Assumptions

\* BRCM_encode_baud_rate loses nothing.
LEMMA RateType ==
  ASSUME NEW r \in baud_rates
  PROVE  Encoded(r) \in Seq(Nat) /\ Decoded(Encoded(r)) = r
BY DEF baud_rates, Encoded, Decoded

\* What is left of a line's bytes, and what is taken of them.
LEMMA BytesType ==
  ASSUME NEW s \in Seq(Byte), NEW n \in Nat \ {0}
  PROVE  From(s, n) \in Seq(Byte)
<1>1. Len(s) \in Nat /\ \A i \in n..Len(s) : s[i] \in Byte
  BY LenProperties
<1> QED
  BY <1>1, SubSeqProperties DEF From

LEMMA AnswerType ==
  ASSUME TypeInv, NEW c \in KnownCmd, NEW status \in {0, 1}
  PROVE  Answer(c, status) \in Seq(Byte)
<1>1. c.op \in Ops
  BY DEF KnownCmd
<1>2. Opcode(c.op) \in Seq(Byte)
  <2> DEFINE First  == {<<3, 12>>, <<46, 252>>, <<76, 252>>, <<78, 252>>, <<24, 252>>,
                       <<1, 252>>}
             Second == {<<39, 252>>, <<28, 252>>, <<30, 252>>, <<109, 252>>, <<69, 252>>,
                       <<76, 4>>}
  <2>1. c.op \in {"reset", "minidriver", "record", "launch", "baud", "addr"}
          => Opcode(c.op) \in First
    BY DEF Opcode
  <2>2. c.op \in {"lpm", "sco", "pcm", "i2s", "clock", "bogus"} => Opcode(c.op) \in Second
    BY DEF Opcode
  <2>3. \A a, b \in Byte : <<a, b>> \in Seq(Byte)
    OBVIOUS
  <2>4. {3, 12, 46, 252, 76, 78, 24, 1, 39, 28, 30, 109, 69, 4} \subseteq Byte
    BY DEF Byte
  <2>5. First \subseteq Seq(Byte)
    BY <2>3, <2>4
  <2>6. Second \subseteq Seq(Byte)
    BY <2>3, <2>4
  <2> HIDE DEF First, Second
  <2> QED
    BY <1>1, <2>1, <2>2, <2>5, <2>6 DEF Ops, Simple
<1>3. <<4, 14, 4, 1>> \in Seq(Byte) /\ <<status>> \in Seq(Byte)
  BY DEF Byte
<1>4. If(c.op = "minidriver" /\ chip.two, <<0, 0>>) \in Seq(Byte)
  <2>1. <<0, 0>> \in Seq(Byte) /\ <<>> \in Seq(Byte)
    BY DEF Byte
  <2> QED
    BY <2>1 DEF If
<1>5. <<4, 14, 4, 1>> \o Opcode(c.op) \in Seq(Byte)
  BY <1>2, <1>3, ConcatProperties
<1>6. <<4, 14, 4, 1>> \o Opcode(c.op) \o <<status>> \in Seq(Byte)
  BY <1>3, <1>5, ConcatProperties
<1> QED
  BY <1>4, <1>6, ConcatProperties DEF Answer
\* What an argument means.
LEMMA ArgType ==
  ASSUME TypeInv, NEW i \in 1..Len(argv)
  PROVE  /\ Fault(argv[i]) \in 0..5
         /\ Fault(argv[i]) = 0 => With(argv[i], opt) \in Opts
<1>1. argv[i] \in [opt : Options, val : Nat]
  BY Assumptions, ElementOfSeq DEF TypeInv, TypeOK
<1>a. argv \in Argvs
  BY DEF TypeInv, TypeOK
<1>2. argv[i].opt = "patchram" => argv[i].val \in 0..5
  <2>1. argv[i].opt = "patchram" => argv[i].val \in {0, 3, 4, 5}
    BY <1>a, Assumptions, Zenon
  <2> QED
    BY <2>1
<1>3. Fault(argv[i]) \in 0..5
  BY <1>1, <1>2 DEF Fault, Options, Flags
<1>4. opt \in Opts
  BY DEF TypeInv, TypeOK, Opts
<1>5. argv[i].opt = "baudrate" /\ Fault(argv[i]) = 0 => argv[i].val \in baud_rates
  <2>1. ASSUME argv[i].opt = "baudrate"
        PROVE  Fault(argv[i]) = IF argv[i].val \in baud_rates THEN 0 ELSE 1
    BY <2>1 DEF Fault, Flags
  <2> QED
    BY <2>1
<1>6. Fault(argv[i]) = 0 => With(argv[i], opt) \in Opts
  <2> DEFINE a == argv[i]
  <2>1. CASE a.opt \in Flags
    BY <1>1, <1>4, <2>1 DEF With, Flags, Opts
  <2>2. CASE a.opt = "baudrate"
    BY <1>1, <1>4, <1>5, <2>2 DEF With, Flags, Opts
  <2>3. CASE a.opt \notin Flags /\ a.opt # "baudrate"
    BY <1>1, <1>4, <2>3 DEF With, Options, Flags, Opts
  <2> QED
    BY <2>1, <2>2, <2>3
<1> QED
  BY <1>3, <1>6

\* Steps may be put together, and left out.
LEMMA MayBeConcat ==
  ASSUME NEW o, NEW s, NEW t, MayBe(o, s), MayBe(o, t)
  PROVE  MayBe(o, s \o t)
BY ConcatProperties DEF MayBe

LEMMA MayBeIf ==
  ASSUME NEW o, NEW b \in BOOLEAN, NEW s, b => MayBe(o, s)
  PROVE  MayBe(o, If(b, s))
<1>1. MayBe(o, <<>>)
  BY EmptySeq DEF MayBe
<1> QED
  BY <1>1 DEF If

LEMMA MayBeOne ==
  ASSUME NEW o, NEW x \in PlanStep, x = "baud" => o.rate # 0
  PROVE  MayBe(o, <<x>>)
BY DEF MayBe

LEMMA MayBeTail ==
  ASSUME NEW o, NEW s, MayBe(o, s), s # <<>>
  PROVE  MayBe(o, Tail(s)) /\ Head(s) \in PlanStep /\ (Head(s) = "baud" => o.rate # 0)
BY HeadTailProperties, LenProperties DEF MayBe

\* The steps of main.
LEMMA StepsType == ASSUME NEW o \in Opts PROVE MayBe(o, Steps(o))
<1>1. {"reset", "clock", "minidriver", "record", "addr", "lpm", "sco", "pcm", "i2s",
       "hci", "baud"} \subseteq PlanStep
  BY DEF PlanStep, Ops, Simple
<1>2. \A x \in {"reset", "clock", "minidriver", "record", "addr", "lpm", "sco", "pcm",
               "i2s", "hci"} : MayBe(o, <<x>>)
  BY <1>1, MayBeOne
<1>3. o.rate # 0 => MayBe(o, <<"baud">>)
  BY <1>1, MayBeOne
<1>t. /\ o.rate \in Nat
      /\ o.early \in BOOLEAN /\ o.patch \in BOOLEAN /\ o.lpm \in BOOLEAN
      /\ o.sco \in BOOLEAN /\ o.i2s \in BOOLEAN /\ o.hci \in BOOLEAN
  BY DEF Opts, baud_rates
<1>4. o.rate # 0 => MayBe(o, Baud(o))
  <2> DEFINE fast == o.rate > 3000000
  <2>1. Baud(o) = If(fast, <<"clock">>) \o <<"baud">> /\ fast \in BOOLEAN
    BY SMT DEF Baud
  <2> HIDE DEF fast
  <2>2. MayBe(o, If(fast, <<"clock">>))
    BY <1>2, <2>1, MayBeIf
  <2> QED
    BY <1>3, <2>1, <2>2, MayBeConcat
<1>5. MayBe(o, If(o.early /\ o.rate # 0, Baud(o))) /\ MayBe(o, If(o.rate # 0, Baud(o)))
  BY <1>t, <1>4, MayBeIf
<1>6. MayBe(o, Download(o))
  <2>1. MayBe(o, <<"minidriver", "record", "reset">>)
    BY <1>1 DEF MayBe
  <2> QED
    BY <1>t, <2>1, MayBeIf DEF Download
<1>7. MayBe(o, Set(o))
  <2>1. MayBe(o, <<"sco", "pcm">>)
    BY <1>1 DEF MayBe
  <2>2. /\ MayBe(o, If(o.addr # "none", <<"addr">>)) /\ MayBe(o, If(o.lpm, <<"lpm">>))
        /\ MayBe(o, If(o.sco, <<"sco", "pcm">>)) /\ MayBe(o, If(o.i2s, <<"i2s">>))
    BY <1>t, <1>2, <2>1, MayBeIf
  <2>3. MayBe(o, If(o.addr # "none", <<"addr">>) \o If(o.lpm, <<"lpm">>))
    BY <2>2, MayBeConcat
  <2>4. MayBe(o, If(o.addr # "none", <<"addr">>) \o If(o.lpm, <<"lpm">>)
                 \o If(o.sco, <<"sco", "pcm">>))
    BY <2>2, <2>3, MayBeConcat
  <2> QED
    BY <2>2, <2>4, MayBeConcat DEF Set
<1>8. MayBe(o, <<"reset">>) /\ MayBe(o, If(o.hci, <<"hci">>))
  BY <1>t, <1>2, MayBeIf
<1> DEFINE s1 == <<"reset">> \o If(o.early /\ o.rate # 0, Baud(o))
           s2 == s1 \o Download(o)
           s3 == s2 \o If(o.rate # 0, Baud(o))
           s4 == s3 \o Set(o)
<1>9. MayBe(o, s1)
  BY <1>5, <1>8, MayBeConcat
<1>10. MayBe(o, s2)
  BY <1>6, <1>9, MayBeConcat
<1>11. MayBe(o, s3)
  BY <1>5, <1>10, MayBeConcat
<1>12. MayBe(o, s4)
  BY <1>7, <1>11, MayBeConcat
<1> QED
  BY <1>8, <1>12, MayBeConcat DEF Steps

----------------------------------------------------------------------------
(* Type correctness, a part of the state at a time.                        *)

LEMMA ArgsNext ==
  TypeInv /\ [Next]_vars =>
    /\ pc' \in {"parse", "send", "read", "disarm", "two", "asleep", "exited"}
    /\ argv' \in Argvs /\ argi' \in 1..(Len(argv') + 1)
    /\ file' \in Files \cup {<<>>} /\ opt' \in Opts /\ alarm' \in BOOLEAN
    /\ code' \in 0..5 /\ ldisc' \in {"tty", "noproto", "hci"}
<1> SUFFICES ASSUME TypeInv, [Next]_vars
    PROVE  /\ pc' \in {"parse", "send", "read", "disarm", "two", "asleep", "exited"}
           /\ argv' \in Argvs /\ argi' \in 1..(Len(argv') + 1)
           /\ file' \in Files \cup {<<>>} /\ opt' \in Opts /\ alarm' \in BOOLEAN
           /\ code' \in 0..5 /\ ldisc' \in {"tty", "noproto", "hci"}
  OBVIOUS
<1>t. /\ pc \in {"parse", "send", "read", "disarm", "two", "asleep", "exited"}
      /\ argv \in Argvs /\ argi \in 1..(Len(argv) + 1)
      /\ file \in Files \cup {<<>>} /\ opt \in Opts /\ alarm \in BOOLEAN
      /\ code \in 0..5 /\ ldisc \in {"tty", "noproto", "hci"}
  BY DEF TypeInv, TypeOK, Opts
<1>n. Len(argv) \in Nat
  BY <1>t, Assumptions, LenProperties
<1> USE <1>t, <1>n DEF args, work
<1>1. CASE UNCHANGED vars
  BY <1>1 DEF vars
<1>2. CASE ParseArg
  <2>1. argi \in 1..Len(argv)
    BY <1>2 DEF ParseArg
  <2> QED
    BY <1>2, <2>1, ArgType DEF ParseArg
<1>3. CASE OpenUart \/ NoUart \/ SendRecord \/ EndDownload \/ EnableHci \/ Exit
  BY <1>3 DEF OpenUart, NoUart, SendRecord, EndDownload, EnableHci, Exit
<1>8. ASSUME NEW op \in Simple, SendCmd(op)
      PROVE  pc' = "read" /\ UNCHANGED args /\ alarm' \in BOOLEAN
  <2>1. alarm' = (op = "reset")
    BY <1>8 DEF SendCmd
  <2>2. (op = "reset") \in BOOLEAN
    OBVIOUS
  <2>3. pc' = "read" /\ UNCHANGED args
    BY <1>8 DEF SendCmd
  <2> QED
    BY <2>1, <2>2, <2>3, Zenon
<1>4. CASE ReadPart \/ ReadLast \/ Disarm \/ ReadTwo
  BY <1>4 DEF ReadPart, ReadLast, Disarm, ReadTwo
<1>5. CASE Expire \/ ExpireLate
  BY <1>5 DEF Expire, ExpireLate, Again
<1>6. CASE Chip \/ Lose \/ Arrive
  BY <1>6 DEF Chip, Take, Refuse, Ignore, Boot, Lose, Arrive
<1>7. CASE Restart
  <2>1. Default \in Opts
    BY DEF Default, Opts
  <2>2. 1 \in 1..(Len(argv) + 1) /\ 0 \in 0..5
    OBVIOUS
  <2>3. /\ pc' = "parse" /\ argi' = 1 /\ opt' = Default /\ alarm' = FALSE /\ code' = 0
        /\ ldisc' = "tty" /\ argv' = argv /\ file' = file
    BY <1>7 DEF Restart
  <2> QED
    BY <2>1, <2>2, <2>3, Zenon
<1> QED
  BY <1>1, <1>2, <1>3, <1>4, <1>5, <1>6, <1>7, <1>8 DEF Next, Program

LEMMA PlanNext == TypeInv /\ [Next]_vars => PlanInv' /\ pos' \in 1..(Len(file') + 1)
<1> SUFFICES ASSUME TypeInv, [Next]_vars
             PROVE  PlanInv' /\ pos' \in 1..(Len(file') + 1)
  OBVIOUS
<1>t. PlanInv /\ pos \in 1..(Len(file) + 1) /\ Len(file) \in Nat
  BY FileType DEF TypeInv, TypeOK
<1>h. plan # <<>> => MayBe(opt, Tail(plan))
  BY <1>t, MayBeTail DEF PlanInv
<1>e. \A o : MayBe(o, <<>>)
  BY EmptySeq DEF MayBe
<1>1. CASE UNCHANGED vars
  BY <1>1, <1>t DEF vars, args, work, PlanInv
<1>2. CASE ParseArg \/ NoUart
  <2>1. pc = "parse" /\ pc' \in {"parse", "exited"} /\ plan' = plan /\ pos' = pos
        /\ file' = file
    BY <1>2 DEF ParseArg, NoUart, work
  <2>2. plan = <<>>
    BY <1>t, <2>1 DEF PlanInv
  <2> QED
    BY <1>t, <1>e, <2>1, <2>2 DEF PlanInv
<1>3. CASE OpenUart
  <2>1. opt \in Opts
    BY DEF TypeInv, TypeOK, Opts
  <2> QED
    BY <1>3, <1>t, <2>1, StepsType DEF OpenUart, args, PlanInv
<1>4. CASE (\E op \in Simple : SendCmd(op)) \/ SendRecord
  BY <1>4, <1>t DEF SendCmd, SendRecord, At, args, PlanInv
<1>5. CASE EndDownload
  BY <1>5, <1>t, <1>h DEF EndDownload, At, args, PlanInv
<1>6. CASE EnableHci \/ Exit
  BY <1>6, <1>t, <1>e DEF EnableHci, Exit, args, work, PlanInv
<1>7. CASE ReadPart
  BY <1>7, <1>t DEF ReadPart, args, PlanInv
<1>8. CASE ReadLast
  BY <1>8, <1>t, <1>h DEF ReadLast, args, PlanInv
<1>9. CASE Disarm \/ ReadTwo
  BY <1>9, <1>t, <1>h DEF Disarm, ReadTwo, args, PlanInv
<1>10. CASE Expire \/ ExpireLate
  BY <1>10, <1>t DEF Expire, ExpireLate, Again, args, work, PlanInv
<1>11. CASE Chip \/ Lose \/ Arrive
  BY <1>11, <1>t DEF Chip, Take, Refuse, Ignore, Boot, Lose, Arrive, args, work, PlanInv
<1>12. CASE Restart
  BY <1>12, <1>t, <1>e DEF Restart, PlanInv
<1> QED
  BY <1>1, <1>2, <1>3, <1>4, <1>5, <1>6, <1>7, <1>8, <1>9, <1>10, <1>11, <1>12
  DEF Next, Program
\* What the program has of an event and what it takes of the line.
LEMMA GotType ==
  ASSUME TypeInv, rx # <<>>
  PROVE  /\ Got \in Seq(Byte) /\ Count \in Nat /\ From(rx, Count + 1) \in Seq(Byte)
         /\ ~Complete => (Len(Got) >= 3 => Len(Got) < 3 + Got[3])
<1>y. Byte \subseteq Nat
  BY DEF Byte
<1>t. /\ buf \in Seq(Byte) /\ rx \in Seq(Byte) /\ Len(buf) \in Nat /\ Len(rx) \in Nat
      /\ Len(buf) >= 3 => Len(buf) < 3 + buf[3] /\ buf[3] \in Nat
  <2>1. buf \in Seq(Byte) /\ rx \in Seq(Byte)
        /\ (Len(buf) >= 3 => Len(buf) < 3 + buf[3])
    BY DEF TypeInv, TypeOK, LineInv
  <2>2. Len(buf) \in Nat /\ Len(rx) \in Nat
    BY <2>1, LenProperties
  <2>3. Len(buf) >= 3 => buf[3] \in Byte
    BY <2>1, <2>2, ElementOfSeq
  <2> QED
    BY <1>y, <2>1, <2>2, <2>3
<1>1. Needed \in Nat /\ Needed > Len(buf)
  BY <1>t DEF Needed
<1>2. Count \in Nat /\ Count <= Needed - Len(buf) /\ Count <= Len(rx)
  BY <1>t, <1>1 DEF Count, Least
<1>3. SubSeq(rx, 1, Count) \in Seq(Byte) /\ Len(SubSeq(rx, 1, Count)) = Count
  <2>1. \A i \in 1..Count : rx[i] \in Byte
    BY <1>t, <1>2, ElementOfSeq
  <2> QED
    BY <1>2, <2>1, SubSeqProperties
<1>4. /\ Got \in Seq(Byte) /\ Len(Got) = Len(buf) + Count
      /\ \A i \in 1..Len(buf) : Got[i] = buf[i]
  <2> DEFINE taken == SubSeq(rx, 1, Count)
  <2>1. Got = buf \o taken /\ taken \in Seq(Byte) /\ Len(taken) = Count
    BY <1>3 DEF Got
  <2>2. buf \in Seq(Byte) /\ Len(buf) \in Nat
    BY <1>t, LenProperties
  <2> HIDE DEF taken
  <2>3. /\ buf \o taken \in Seq(Byte) /\ Len(buf \o taken) = Len(buf) + Len(taken)
        /\ \A i \in 1..Len(buf) + Len(taken) :
             (buf \o taken)[i] = IF i <= Len(buf) THEN buf[i] ELSE taken[i - Len(buf)]
    BY <2>1, <2>2, ConcatProperties
  <2> QED
    BY <1>2, <2>1, <2>2, <2>3
<1>5. ~Complete => (Len(Got) >= 3 => Len(Got) < 3 + Got[3])
  <2> SUFFICES ASSUME ~Complete, Len(Got) >= 3 PROVE Len(Got) < 3 + Got[3]
    OBVIOUS
  <2>1. Len(Got) # 3 + Got[3]
    BY DEF Complete
  <2>2. Len(Got) \in Nat /\ Got[3] \in Nat
    <3>1. Len(Got) \in Nat
      BY <1>4, LenProperties
    <3>2. Got[3] \in Byte
      BY <1>4, <3>1, ElementOfSeq
    <3> QED
      BY <1>y, <3>1, <3>2
  <2>3. CASE Len(buf) < 3
    BY <1>t, <1>1, <1>2, <1>4, <2>1, <2>2, <2>3 DEF Needed
  <2>4. CASE Len(buf) >= 3
    <3>1. Needed = 3 + buf[3] /\ Got[3] = buf[3]
      BY <1>t, <1>4, <2>4 DEF Needed
    <3>2. Len(buf) \in Nat /\ buf[3] \in Nat
      BY <1>t, <2>2, <3>1, LenProperties
    <3>3. Count \in Nat /\ Count <= Needed - Len(buf) /\ Len(Got) = Len(buf) + Count
      BY <1>2, <1>4
    <3> QED
      BY <2>1, <2>2, <3>1, <3>2, <3>3
  <2> QED
    BY <1>t, <2>3, <2>4
<1> QED
  BY <1>t, <1>2, <1>4, <1>5, BytesType

\* The command for a step of the plan, and for a piece of the file.
LEMMA CommandType ==
  ASSUME TypeInv, NEW op \in Simple, At(op)
  PROVE  Command(op) \in KnownCmd
<1>1. op = "baud" => opt.rate \in baud_rates
  <2>1. plan # <<>> /\ Head(plan) = op
    BY DEF At
  <2>2. op = "baud" => opt.rate # 0
    BY <2>1, MayBeTail DEF TypeInv, PlanInv
  <2> QED
    BY <2>2 DEF TypeInv, TypeOK
<1>2. op \in Ops /\ op # "record"
  BY DEF Ops, Simple
<1>3. CASE op = "baud"
  <2>1. Command(op) = [op |-> "baud", arg |-> Encoded(opt.rate)]
    BY <1>3 DEF Command
  <2> QED
    BY <1>1, <1>2, <1>3, <2>1, RateType DEF KnownCmd
<1>4. CASE op = "addr"
  <2>1. Command(op) = [op |-> "addr", arg |-> <<IF opt.addr = "asked" THEN 1 ELSE 0>>]
    BY <1>4 DEF Command
  <2>2. <<IF opt.addr = "asked" THEN 1 ELSE 0>> \in Seq(Nat)
    OBVIOUS
  <2> QED
    <3>1. [op |-> "addr", arg |-> <<IF opt.addr = "asked" THEN 1 ELSE 0>>]
            \in [op : Ops, arg : Seq(Nat)]
      BY <1>2, <1>4, <2>2
    <3> QED
      BY <2>1, <3>1 DEF KnownCmd
<1>5. CASE op \notin {"baud", "addr"}
  <2>1. Command(op) = [op |-> op, arg |-> <<>>]
    BY <1>5 DEF Command
  <2> QED
    BY <1>2, <1>5, <2>1, EmptySeq DEF KnownCmd
<1> QED
  BY <1>3, <1>4, <1>5

LEMMA PieceType ==
  ASSUME TypeInv, NEW i \in 1..Len(file)
  PROVE  Piece(i) \in KnownCmd
<1>1. i \in 1..(Records + 1) /\ Records \in Nat /\ i \in Nat
  <2>1. file \in Files \cup {<<>>}
    BY DEF TypeInv, TypeOK
  <2>2. Len(file) \in 0..(Records + 1)
    BY <2>1, FileType
  <2> QED
    BY <2>2, Assumptions
<1>2. \A x \in {0, 1} : <<i, x>> \in Seq(Nat) /\ <<i, x>>[1] = i
  BY <1>1
<1>3. CASE file[i] \in {"all", "body"} /\ i <= Records
  <2>1. PICK x \in {0, 1} : Piece(i) = [op |-> "record", arg |-> <<i, x>>]
    BY <1>3 DEF Piece
  <2> QED
    BY <1>1, <1>2, <1>3, <2>1 DEF KnownCmd, Ops
<1>4. CASE file[i] \in {"all", "body"} /\ ~(i <= Records)
  <2>1. PICK x \in {0, 1} : Piece(i) = [op |-> "launch", arg |-> <<i, x>>]
    BY <1>4 DEF Piece
  <2> QED
    BY <1>2, <2>1 DEF KnownCmd, Ops
<1>5. CASE file[i] \notin {"all", "body"}
  BY <1>5, EmptySeq DEF Piece, KnownCmd, Ops
<1> QED
  BY <1>3, <1>4, <1>5

\* The line.
LEMMA LineNext ==
  TypeInv /\ [Next]_vars =>
    /\ LineInv' /\ rate' \in baud_rates
    /\ buf' \in Seq(Byte) /\ (Len(buf') >= 3 => Len(buf') < 3 + buf'[3])
<1> SUFFICES ASSUME TypeInv, [Next]_vars
             PROVE  /\ LineInv' /\ rate' \in baud_rates
                    /\ buf' \in Seq(Byte) /\ (Len(buf') >= 3 => Len(buf') < 3 + buf'[3])
  OBVIOUS
<1>t. /\ cmds \in Seq(KnownCmd) /\ out \in Seq(Byte) /\ rx \in Seq(Byte)
      /\ rate \in baud_rates
      /\ buf \in Seq(Byte) /\ (Len(buf) >= 3 => Len(buf) < 3 + buf[3])
  BY DEF TypeInv, TypeOK, LineInv
<1>b. Base \in baud_rates
  BY DEF Base, baud_rates
<1>e. /\ \A S : <<>> \in Seq(S)
      /\ Len(<<>>) >= 3 => Len(<<>>) < 3 + <<>>[3]
  BY EmptySeq
<1>c. cmds # <<>> => Head(cmds) \in KnownCmd /\ Tail(cmds) \in Seq(KnownCmd)
  BY <1>t, HeadTailProperties
<1>r. [op |-> "reset", arg |-> <<>>] \in KnownCmd
  BY <1>e DEF KnownCmd, Ops, Simple
<1> USE DEF LineInv, work, line
<1>1. CASE UNCHANGED vars
  BY <1>1, <1>t DEF vars
<1>2. CASE ParseArg \/ NoUart \/ Exit \/ Disarm \/ EnableHci \/ EndDownload
  BY <1>2, <1>t, <1>b DEF ParseArg, NoUart, Exit, Disarm, EnableHci, EndDownload
<1>3. CASE OpenUart
  BY <1>3, <1>t, <1>b, <1>e DEF OpenUart
<1>4. ASSUME NEW op \in Simple, SendCmd(op)
      PROVE  /\ LineInv' /\ rate' = rate /\ buf' = buf
  BY <1>4, <1>t, CommandType, AppendProperties DEF SendCmd
<1>5. CASE SendRecord
  <2>1. pos \in 1..Len(file)
    BY <1>5, FileType DEF SendRecord, TypeInv, TypeOK
  <2> QED
    BY <1>5, <1>t, <2>1, PieceType, AppendProperties DEF SendRecord
<1>6. CASE ReadPart
  BY <1>6, <1>t, GotType DEF ReadPart
<1>7. CASE ReadLast
  <2>1. Head(plan) = "baud" => opt.rate \in baud_rates
    BY <1>7, MayBeTail DEF ReadLast, TypeInv, PlanInv, TypeOK
  <2> QED
    BY <1>7, <1>t, <1>e, <2>1, GotType DEF ReadLast
<1>8. CASE ReadTwo
  <2>1. Least(2, Len(rx)) + 1 \in Nat \ {0}
    BY <1>t, LenProperties DEF Least
  <2> QED
    BY <1>8, <1>t, <2>1, BytesType DEF ReadTwo
<1>9. CASE Expire \/ ExpireLate
  <2>1. cmds' = Append(cmds, [op |-> "reset", arg |-> <<>>])
        /\ UNCHANGED <<rate, out, rx, buf>>
    BY <1>9 DEF Expire, ExpireLate, Again
  <2>2. cmds' \in Seq(KnownCmd)
    BY <1>t, <1>r, <2>1, AppendProperties
  <2> QED
    BY <1>t, <2>1, <2>2
<1>10. CASE Take
  BY <1>10, <1>t, <1>c, AnswerType DEF Take, Listens
<1>11. CASE Refuse
  BY <1>11, <1>t, <1>c, AnswerType DEF Refuse, Listens
<1>12. CASE Ignore \/ Boot \/ Lose
  BY <1>12, <1>t, <1>c DEF Ignore, Boot, Lose, Listens
<1>13. CASE Arrive
  <2>1. Head(out) \in Byte /\ Tail(out) \in Seq(Byte)
    BY <1>13, <1>t, HeadTailProperties DEF Arrive
  <2>2. PICK b \in Byte : rx' = Append(rx, b)
    BY <1>13, <2>1, Assumptions DEF Arrive
  <2>3. rx' \in Seq(Byte)
    BY <1>t, <2>2, AppendProperties
  <2> QED
    BY <1>13, <1>t, <2>1, <2>3 DEF Arrive
<1>14. CASE Restart
  BY <1>14, <1>t, <1>e DEF Restart
<1> QED
  BY <1>t, <1>1, <1>2, <1>3, <1>4, <1>5, <1>6, <1>7, <1>8, <1>9, <1>10, <1>11, <1>12,
     <1>13, <1>14
  DEF Next, Program, Chip
\* What a command makes of the chip.
LEMMA ExecutedType ==
  ASSUME chip \in Chips, NEW c \in KnownCmd, Able(c)
  PROVE  Executed(c) \in Chips
<1> USE DEF Chips, Modes
<1>1. c.op \in Ops /\ c.op # "bogus"
  BY DEF KnownCmd, Able
<1>2. Base \in {0} \cup baud_rates
  BY DEF Base, baud_rates
<1>3. CASE c.op = "reset"
  BY <1>3 DEF Executed
<1>4. CASE c.op = "minidriver"
  BY <1>4 DEF Executed
<1>5. CASE c.op = "record"
  <2>1. c.arg[1] \in 1..Records
    BY <1>5 DEF KnownCmd
  <2>2. Executed(c) = [chip EXCEPT !.ram = IF c.arg[2] = 1 THEN @ \cup {c.arg[1]} ELSE @]
    BY <1>5 DEF Executed
  <2> QED
    BY <2>1, <2>2
<1>6. CASE c.op = "launch"
  <2>1. Executed(c) \in {[chip EXCEPT !.mode = m, !.up = FALSE, !.next = Base, !.set = {}]
                           : m \in {"patched", "crashed"}}
    BY <1>6 DEF Executed
  <2> QED
    BY <1>2, <2>1
<1>7. CASE c.op = "baud"
  <2>1. Executed(c) = [chip EXCEPT !.next = Decoded(c.arg)] /\ Decoded(c.arg) \in baud_rates
    BY <1>7 DEF Executed, KnownCmd
  <2> QED
    BY <2>1
<1>8. CASE c.op = "addr"
  <2>1. Executed(c) \in {[chip EXCEPT !.set = @ \cup {x}] : x \in {"addr", "junk"}}
    BY <1>8 DEF Executed
  <2> QED
    BY <2>1 DEF Settings
<1>9. CASE c.op \in {"clock", "lpm", "sco", "pcm", "i2s"}
  <2>1. Executed(c) = [chip EXCEPT !.set = @ \cup {c.op}]
    BY <1>9 DEF Executed
  <2> QED
    BY <1>9, <2>1 DEF Settings
<1> QED
  BY <1>1, <1>3, <1>4, <1>5, <1>6, <1>7, <1>8, <1>9 DEF Ops, Simple

LEMMA ChipNext == TypeInv /\ [Next]_vars => chip' \in Chips
<1> SUFFICES ASSUME TypeInv, [Next]_vars PROVE chip' \in Chips
  OBVIOUS
<1>t. chip \in Chips /\ cmds \in Seq(KnownCmd)
  BY DEF TypeInv, TypeOK, LineInv, Chips, Modes
<1>1. CASE UNCHANGED chip
  BY <1>1, <1>t
<1>2. CASE Take
  BY <1>2, <1>t, HeadTailProperties, ExecutedType DEF Take, Listens
<1>3. CASE Boot
  <2>1. chip' = [chip EXCEPT !.up = TRUE]
    BY <1>3 DEF Boot
  <2> QED
    BY <1>t, <2>1 DEF Chips
<1>4. CASE Arrive
  <2>0. chip' = IF Len(out) = 1 /\ chip.next # 0
                THEN [chip EXCEPT !.rate = chip.next, !.next = 0] ELSE chip
    BY <1>4, Zenon DEF Arrive
  <2>2. CASE ~(Len(out) = 1 /\ chip.next # 0)
    <3>1. chip' = chip
      BY <2>0, <2>2
    <3> QED
      BY <1>t, <3>1
  <2>3. CASE Len(out) = 1 /\ chip.next # 0
    <3>1. chip' = [chip EXCEPT !.rate = chip.next, !.next = 0]
      BY <2>0, <2>3
    <3>2. chip.next \in baud_rates
      BY <1>t, <2>3 DEF Chips
    <3> QED
      BY <1>t, <3>1, <3>2 DEF Chips
  <2> QED
    BY <2>2, <2>3
<1> QED
  BY <1>1, <1>2, <1>3, <1>4
  DEF vars, Next, Program, Chip, ParseArg, OpenUart, NoUart, SendCmd, SendRecord,
      EndDownload, EnableHci, Exit, ReadPart, ReadLast, Disarm, ReadTwo, Expire,
      ExpireLate, Again, Refuse, Ignore, Lose, Restart

LEMMA PastNext ==
  TypeInv /\ [Next]_vars =>
    /\ odd' \subseteq {"rate", "stale", "ioctl", "short", "late", "refused", "noise"}
    /\ losses' \in 0..MaxLosses /\ troubles' \in 0..MaxTroubles
<1> SUFFICES ASSUME TypeInv, [Next]_vars
             PROVE  /\ odd' \subseteq {"rate", "stale", "ioctl", "short", "late",
                                       "refused", "noise"}
                    /\ losses' \in 0..MaxLosses /\ troubles' \in 0..MaxTroubles
  OBVIOUS
<1>t. /\ odd \subseteq {"rate", "stale", "ioctl", "short", "late", "refused", "noise"}
      /\ losses \in 0..MaxLosses /\ troubles \in 0..MaxTroubles
      /\ MaxLosses \in Nat /\ MaxTroubles \in Nat
  BY Assumptions DEF TypeInv, TypeOK
<1> USE <1>t DEF past
<1>1. CASE UNCHANGED vars
  BY <1>1 DEF vars
<1>2. CASE Program
  BY <1>2 DEF Program, ParseArg, OpenUart, NoUart, SendCmd, SendRecord, EndDownload,
              EnableHci, Exit, ReadPart, ReadLast, Disarm, ReadTwo
<1>3. CASE Expire
  <2>1. odd' = odd /\ troubles' = troubles /\ losses' = losses
    BY <1>3 DEF Expire, Again
  <2> QED
    BY <2>1
<1>6. CASE ExpireLate
  <2>1. odd' = odd \cup {"late"} /\ Trouble /\ losses' = losses
    BY <1>6 DEF ExpireLate, Again
  <2> QED
    BY <2>1 DEF Trouble
<1>4. CASE Chip \/ Lose
  BY <1>4 DEF Chip, Take, Refuse, Ignore, Boot, Lose, Trouble
<1>5. CASE Arrive \/ Restart
  BY <1>5 DEF Arrive, Restart, Trouble
<1> QED
  BY <1>1, <1>2, <1>3, <1>4, <1>5, <1>6 DEF Next

LEMMA TypeNext == TypeInv /\ [Next]_vars => TypeInv'
<1> SUFFICES ASSUME TypeInv, [Next]_vars PROVE TypeInv'
  OBVIOUS
<1>1. PlanInv' /\ LineInv' /\ plan' \in Seq(PlanStep)
  BY PlanNext, LineNext DEF PlanInv, MayBe
<1>2. cmds' \in Seq([op : Ops, arg : Seq(Nat)])
  <2>1. KnownCmd \subseteq [op : Ops, arg : Seq(Nat)]
    BY DEF KnownCmd
  <2> QED
    BY <1>1, <2>1, SeqMonotonic DEF LineInv
<1>3. TypeOK'
  BY <1>1, <1>2, ArgsNext, PlanNext, LineNext, ChipNext, PastNext
  DEF TypeOK, LineInv, PlanStep, Chips, Modes, Opts
<1> QED
  BY <1>1, <1>3 DEF TypeInv

LEMMA TypeInit == Init => TypeInv
<1> SUFFICES ASSUME Init PROVE TypeInv
  OBVIOUS
<1>e. /\ \A S : <<>> \in Seq(S)
      /\ Len(<<>>) = 0
  BY EmptySeq
<1>1. argv \in Argvs /\ Len(argv) \in Nat /\ file \in Files \cup {<<>>}
      /\ Len(file) \in Nat
  <2>1. argv \in Argvs /\ file \in Files \cup {<<>>}
    BY DEF Init
  <2> QED
    BY <2>1, Assumptions, LenProperties, FileType
<1>2. opt \in Opts
  BY DEF Init, Default, Opts
<1>3. PlanInv
  BY <1>e DEF Init, PlanInv, MayBe
<1>4. LineInv
  BY <1>e DEF Init, LineInv
<1>5. Base \in baud_rates
  BY DEF Base, baud_rates
<1>6. chip \in Chips
  BY <1>5 DEF Init, Chips, Modes
<1>7. losses \in 0..MaxLosses /\ troubles \in 0..MaxTroubles /\ odd = {}
  BY Assumptions DEF Init
<1>8. TypeOK
  <2>1. /\ pc = "parse" /\ argi \in 1..(Len(argv) + 1) /\ pos \in 1..(Len(file) + 1)
        /\ alarm \in BOOLEAN /\ code \in 0..5 /\ ldisc = "tty" /\ rate \in baud_rates
        /\ cmds \in Seq([op : Ops, arg : Seq(Nat)])
        /\ buf \in Seq(Byte) /\ Len(buf) = 0
    <3>1. pc = "parse" /\ argi = 1 /\ pos = 1 /\ code = 0 /\ ldisc = "tty"
          /\ rate = Base /\ cmds = <<>> /\ buf = <<>>
      BY DEF Init
    <3>2. alarm \in BOOLEAN
      BY DEF Init
    <3> QED
      BY <1>1, <1>5, <1>e, <3>1, <3>2
  <2>2. plan \in Seq(PlanStep)
    BY <1>3 DEF PlanInv, MayBe
  <2> QED
    BY <1>1, <1>2, <1>4, <1>6, <1>7, <2>1, <2>2
    DEF TypeOK, LineInv, PlanStep, Chips, Modes, Opts
<1> QED
  BY <1>3, <1>4, <1>8 DEF TypeInv

LEMMA TypeInductive == Spec => []TypeInv
BY TypeInit, TypeNext, PTL DEF Spec

\* Type correctness of the loader and the line, for all command lines and files:
\* the rate the program sets is one that validate_baudrate (l.261) knows, every
\* record it sends is one of the file, and it never has more of an event than
\* its third byte says (read_event, l.573).
THEOREM TypeCorrect == Spec => []TypeOK
<1>1. TypeInv => TypeOK
  BY DEF TypeInv
<1> QED
  BY TypeInductive, <1>1, PTL

----------------------------------------------------------------------------
(* In step.                                                                *)

\* The state in which LockStep has something to say, and the one in which the
\* program has not failed.
Regular == odd = {} /\ Matched /\ Whole
Running == pc # "parse" /\ ~(pc = "exited" /\ code # 0)

Has(s, x) == \E i \in 1..Len(s) : s[i] = x

\* What was asked for so far is what the arguments up to the present one say.
SoFar(x) == \E i \in 1..(argi - 1) : argv[i].opt = x
ArgInv ==
  /\ opt.patch <=> SoFar("patchram")
  /\ opt.no2 <=> SoFar("no2bytes")
  /\ pc # "exited" => code = 0
  /\ Running => argi = Len(argv) + 1
  /\ pc = "parse" => pos = 1 /\ buf = <<>>

\* The order of the steps that are left, as far as the two ends' rates and the
\* place in the file depend on it.
DownloadOrder(o, s) ==
  /\ \A i \in 1..Len(s) : s[i] \in {"minidriver", "record"} => o.patch
  /\ \A i \in 1..Len(s) : s[i] # "launch"
  /\ \A i, j \in 1..Len(s) : s[i] = "record" /\ s[j] = "record" => i = j
  /\ ~o.early => \A i, j \in 1..Len(s) : s[i] = "record" /\ s[j] = "baud" => i < j
DownloadInv ==
  /\ DownloadOrder(opt, plan)
  /\ (\E i \in 2..Len(plan) : plan[i] = "record") => pos = 1
  /\ pc = "read" /\ Head(plan) = "record" /\ Whole => pos > 1
  /\ ~opt.early /\ Has(plan, "record") => rate = Base

\* The program takes turns with the chip.
TurnInv ==
  /\ out = <<>> => chip.next = 0
  /\ cmds # <<>> => Len(cmds) = 1 /\ out = <<>> /\ rx = <<>>
  /\ cmds # <<>> \/ out # <<>> => rate = chip.rate

\* What the program waits for an answer to, the rate that the chip will then
\* have, and how many bytes it answers.
Doing == IF Head(plan) = "record" THEN Piece(pos - 1) ELSE Command(Head(plan))
Coming(c) == CASE c.op = "baud" -> Decoded(c.arg) [] c.op = "launch" -> Base
               [] c.op \notin {"baud", "launch"} -> rate
Length(c) == IF c.op = "minidriver" /\ chip.two THEN 9 ELSE 7

\* The answer, from the first byte that was read to the last that is to come.
Stream == buf \o (rx \o out)
Still  == cmds = <<>> /\ Stream = <<>>

Missed  == Still /\ rate = chip.rate
Waiting == cmds = <<Doing>> /\ Stream = <<>> /\ rate = chip.rate
Answering ==
  /\ cmds = <<>> /\ Len(Stream) = Length(Doing) /\ Stream[3] = 4
  /\ IF out = <<>> THEN chip.rate = Coming(Doing)
     ELSE /\ chip.rate = rate
          /\ chip.next = IF Doing.op \in {"baud", "launch"} THEN Coming(Doing) ELSE 0

\* The end of the download: the chip has started anew, and the program is about
\* to go back to the first rate itself.
Launched == plan # <<>> /\ Head(plan) = "record" /\ pos > Len(file)

StepInv ==
  /\ pc = "send" => /\ Still /\ ~alarm
                    /\ Launched \/ rate = chip.rate
                    /\ Launched => chip.rate = Base
  /\ pc = "read" => /\ alarm => Head(plan) = "reset"
                    /\ Missed \/ Waiting \/ Answering
  /\ pc = "disarm" => Missed /\ Head(plan) = "reset"
  /\ pc = "two" => /\ cmds = <<>> /\ buf = <<>> /\ Len(rx) + Len(out) = 2
                   /\ Head(plan) = "minidriver" /\ chip.next = 0 /\ rate = chip.rate /\ ~alarm
  /\ pc \in {"asleep", "exited"} /\ Running => Missed
  /\ pc = "parse" => ~alarm

LockInv == ArgInv /\ DownloadInv /\ (Regular => TurnInv /\ StepInv)

----------------------------------------------------------------------------
(* The order of the steps.                                                 *)

LEMMA TailIs ==
  ASSUME NEW s \in Seq(PlanStep), s # <<>>
  PROVE  /\ Tail(s) \in Seq(PlanStep) /\ Len(s) \in Nat \ {0} /\ Len(Tail(s)) = Len(s) - 1
         /\ Head(s) = s[1] /\ \A i \in 1..Len(Tail(s)) : Tail(s)[i] = s[i + 1]
BY HeadTailProperties, EmptySeq

LEMMA OrderTail ==
  ASSUME NEW o, NEW s \in Seq(PlanStep), s # <<>>
  PROVE  DownloadOrder(o, s) => DownloadOrder(o, Tail(s))
<1> DEFINE t == Tail(s)
           n == Len(s)
<1>1. n \in Nat \ {0} /\ Len(t) = n - 1 /\ \A i \in 1..n - 1 : i + 1 \in 1..n /\ t[i] = s[i + 1]
  BY TailIs
<1> HIDE DEF t, n
<1>2. ASSUME DownloadOrder(o, s) PROVE DownloadOrder(o, t)
  <2>1. \A i \in 1..Len(t) : t[i] \in {"minidriver", "record"} => o.patch
    BY <1>1, <1>2 DEF DownloadOrder, n
  <2>4. \A i \in 1..Len(t) : t[i] # "launch"
    BY <1>1, <1>2 DEF DownloadOrder, n
  <2>2. \A i, j \in 1..Len(t) : t[i] = "record" /\ t[j] = "record" => i = j
    <3> SUFFICES ASSUME NEW i \in 1..n - 1, NEW j \in 1..n - 1, t[i] = "record", t[j] = "record"
                 PROVE  i = j
      BY <1>1
    <3>1. i + 1 = j + 1
      BY <1>1, <1>2 DEF DownloadOrder, n
    <3> QED
      BY <1>1, <3>1
  <2>3. ~o.early => \A i, j \in 1..Len(t) : t[i] = "record" /\ t[j] = "baud" => i < j
    <3> SUFFICES ASSUME ~o.early, NEW i \in 1..n - 1, NEW j \in 1..n - 1,
                        t[i] = "record", t[j] = "baud"
                 PROVE  i < j
      BY <1>1
    <3>1. i + 1 < j + 1
      BY <1>1, <1>2 DEF DownloadOrder, n
    <3> QED
      BY <1>1, <3>1
  <2> QED
    BY <2>1, <2>2, <2>3, <2>4 DEF DownloadOrder
<1> QED
  BY <1>2 DEF t

\* The elements of two sequences of steps put together.
LEMMA ConcatIs ==
  ASSUME NEW s \in Seq(PlanStep), NEW t \in Seq(PlanStep)
  PROVE  /\ s \o t \in Seq(PlanStep) /\ Len(s) \in Nat /\ Len(t) \in Nat
         /\ Len(s \o t) = Len(s) + Len(t)
         /\ \A i \in 1..Len(s \o t) :
              \/ i \in 1..Len(s) /\ (s \o t)[i] = s[i]
              \/ i - Len(s) \in 1..Len(t) /\ (s \o t)[i] = t[i - Len(s)]
<1>1. /\ s \o t \in Seq(PlanStep) /\ Len(s) \in Nat /\ Len(t) \in Nat
      /\ Len(s \o t) = Len(s) + Len(t)
      /\ \A i \in 1..Len(s) + Len(t) :
           (s \o t)[i] = IF i <= Len(s) THEN s[i] ELSE t[i - Len(s)]
  BY ConcatProperties, LenProperties
<1> QED
  BY <1>1

\* A part of the steps without a record may come before the others or after them:
\* after the record the rate may be set, before it only if that was asked for.
LEMMA OrderConcat ==
  ASSUME NEW o, NEW s \in Seq(PlanStep), NEW t \in Seq(PlanStep),
         DownloadOrder(o, s), DownloadOrder(o, t),
         \/ ~Has(t, "record")
         \/ ~Has(s, "record") /\ (~o.early => ~Has(s, "baud"))
  PROVE  DownloadOrder(o, s \o t)
<1> DEFINE m == Len(s)
           u == s \o t
<1>1. m \in Nat /\ Len(t) \in Nat /\ Len(u) = m + Len(t)
      /\ \A i \in 1..Len(u) : \/ i \in 1..m /\ u[i] = s[i]
                              \/ i - m \in 1..Len(t) /\ u[i] = t[i - m]
  BY ConcatIs
<1> HIDE DEF m, u
<1>2. /\ \A i \in 1..m : s[i] \in {"minidriver", "record"} => o.patch
      /\ \A i \in 1..Len(t) : t[i] \in {"minidriver", "record"} => o.patch
  BY DEF DownloadOrder, m
<1>3. \A i \in 1..Len(u) : u[i] \in {"minidriver", "record"} => o.patch
  BY <1>1, <1>2
<1>8. \A i \in 1..Len(u) : u[i] # "launch"
  <2>1. /\ \A i \in 1..m : s[i] # "launch"
        /\ \A i \in 1..Len(t) : t[i] # "launch"
    BY DEF DownloadOrder, m
  <2> QED
    BY <1>1, <2>1
<1>4. /\ \A i, j \in 1..m : s[i] = "record" /\ s[j] = "record" => i = j
      /\ \A i, j \in 1..Len(t) : t[i] = "record" /\ t[j] = "record" => i = j
  BY DEF DownloadOrder, m
<1>5. (\A i \in 1..Len(t) : t[i] # "record") \/ (\A i \in 1..m : s[i] # "record")
  BY DEF Has, m
<1>6. \A i, j \in 1..Len(u) : u[i] = "record" /\ u[j] = "record" => i = j
  <2> SUFFICES ASSUME NEW i \in 1..Len(u), NEW j \in 1..Len(u),
                      u[i] = "record", u[j] = "record"
               PROVE  i = j
    OBVIOUS
  <2>1. i \in Int /\ j \in Int
    BY <1>1
  <2>2. CASE \A k \in 1..Len(t) : t[k] # "record"
    <3>1. i \in 1..m /\ s[i] = "record" /\ j \in 1..m /\ s[j] = "record"
      BY <1>1, <2>2
    <3> QED
      BY <1>4, <3>1
  <2>3. CASE \A k \in 1..m : s[k] # "record"
    <3>1. i - m \in 1..Len(t) /\ t[i - m] = "record" /\ j - m \in 1..Len(t) /\ t[j - m] = "record"
      BY <1>1, <2>3
    <3>2. i - m = j - m
      BY <1>4, <3>1
    <3> QED
      BY <1>1, <2>1, <3>2
  <2> QED
    BY <1>5, <2>2, <2>3
<1>7. ASSUME ~o.early
      PROVE  \A i, j \in 1..Len(u) : u[i] = "record" /\ u[j] = "baud" => i < j
  <2> SUFFICES ASSUME NEW i \in 1..Len(u), NEW j \in 1..Len(u), u[i] = "record", u[j] = "baud"
               PROVE  i < j
    OBVIOUS
  <2>1. i \in Int /\ j \in Int
    BY <1>1
  <2>2. /\ \A k, l \in 1..m : s[k] = "record" /\ s[l] = "baud" => k < l
        /\ \A k, l \in 1..Len(t) : t[k] = "record" /\ t[l] = "baud" => k < l
    BY <1>7 DEF DownloadOrder, m
  <2>3. CASE \A k \in 1..Len(t) : t[k] # "record"
    <3>1. i \in 1..m /\ s[i] = "record"
      BY <1>1, <2>3
    <3>2. CASE j \in 1..m /\ u[j] = s[j]
      BY <2>2, <3>1, <3>2
    <3>3. CASE j - m \in 1..Len(t)
      BY <1>1, <2>1, <3>1, <3>3
    <3> QED
      BY <1>1, <3>2, <3>3
  <2>4. CASE ~(\A k \in 1..Len(t) : t[k] # "record")
    <3>0. \A k \in 1..m : s[k] # "record" /\ s[k] # "baud"
      BY <1>7, <2>4 DEF Has, m
    <3>1. i - m \in 1..Len(t) /\ t[i - m] = "record" /\ j - m \in 1..Len(t) /\ t[j - m] = "baud"
      BY <1>1, <3>0
    <3>2. i - m < j - m
      BY <2>2, <3>1
    <3> QED
      BY <1>1, <2>1, <3>2
  <2> QED
    BY <2>3, <2>4
<1> QED
  BY <1>3, <1>6, <1>7, <1>8 DEF DownloadOrder, u

\* Steps that do not download.
Plain(s) ==
  s \in Seq(PlanStep) /\ \A x \in {"record", "minidriver", "launch"} : ~Has(s, x)

LEMMA PlainConcat ==
  ASSUME NEW s, NEW t, Plain(s), Plain(t)
  PROVE  Plain(s \o t)
BY ConcatIs DEF Plain, Has

LEMMA PlainIf ==
  ASSUME NEW b \in BOOLEAN, NEW s, Plain(s)
  PROVE  Plain(If(b, s))
<1>1. Plain(<<>>)
  BY EmptySeq DEF Plain, Has
<1> QED
  BY <1>1 DEF If

LEMMA PlainOrder ==
  ASSUME NEW o, NEW s, Plain(s)
  PROVE  DownloadOrder(o, s) /\ ~Has(s, "record")
BY DEF Plain, Has, DownloadOrder

LEMMA StepsOrder == ASSUME NEW o \in Opts PROVE DownloadOrder(o, Steps(o))
<1>t. /\ o.rate \in Nat
      /\ o.early \in BOOLEAN /\ o.patch \in BOOLEAN /\ o.lpm \in BOOLEAN
      /\ o.sco \in BOOLEAN /\ o.i2s \in BOOLEAN /\ o.hci \in BOOLEAN
  BY DEF Opts, baud_rates
<1>1. {"reset", "clock", "minidriver", "record", "addr", "lpm", "sco", "pcm", "i2s",
       "hci", "baud"} \subseteq PlanStep
  BY DEF PlanStep, Ops, Simple
<1>2. \A x \in {"reset", "clock", "baud", "addr", "lpm", "i2s", "hci"} : Plain(<<x>>)
  BY <1>1 DEF Plain, Has
<1>3. Plain(<<"sco", "pcm">>)
  BY <1>1 DEF Plain, Has
<1>4. Plain(Baud(o))
  <2> DEFINE fast == o.rate > 3000000
  <2>1. Baud(o) = If(fast, <<"clock">>) \o <<"baud">> /\ fast \in BOOLEAN
    BY SMT DEF Baud
  <2> HIDE DEF fast
  <2> QED
    BY <1>2, <2>1, PlainIf, PlainConcat
<1> DEFINE early == If(o.early /\ o.rate # 0, Baud(o))
           late  == If(o.rate # 0, Baud(o))
           hci   == If(o.hci, <<"hci">>)
<1>5. Plain(late) /\ Plain(hci)
  BY <1>t, <1>2, <1>4, PlainIf
<1>6. Plain(Set(o))
  <2>1. /\ Plain(If(o.addr # "none", <<"addr">>)) /\ Plain(If(o.lpm, <<"lpm">>))
        /\ Plain(If(o.sco, <<"sco", "pcm">>)) /\ Plain(If(o.i2s, <<"i2s">>))
    BY <1>t, <1>2, <1>3, PlainIf
  <2>2. Plain(If(o.addr # "none", <<"addr">>) \o If(o.lpm, <<"lpm">>))
    BY <2>1, PlainConcat
  <2>3. Plain(If(o.addr # "none", <<"addr">>) \o If(o.lpm, <<"lpm">>)
                 \o If(o.sco, <<"sco", "pcm">>))
    BY <2>1, <2>2, PlainConcat
  <2> QED
    BY <2>1, <2>3, PlainConcat DEF Set
<1> DEFINE first == <<"reset">> \o early
<1>7. Plain(first) /\ (~o.early => ~Has(first, "baud"))
  <2>1. Plain(early)
    BY <1>t, <1>4, PlainIf
  <2>2. Plain(first)
    BY <1>2, <2>1, PlainConcat
  <2>3. ASSUME ~o.early PROVE ~Has(first, "baud")
    <3>1. early = <<>>
      BY <2>3 DEF If
    <3>2. first = <<"reset">>
      <4>1. <<"reset">> \in Seq(PlanStep)
        BY <1>1
      <4> QED
        BY <3>1, <4>1, ConcatEmptySeq
    <3> HIDE DEF first
    <3> QED
      BY <3>2 DEF Has
  <2> QED
    BY <2>2, <2>3
<1>8. Download(o) \in Seq(PlanStep) /\ DownloadOrder(o, Download(o))
  <2>1. CASE o.patch
    <3>1. Download(o) = <<"minidriver", "record", "reset">>
      BY <2>1 DEF Download, If
    <3> QED
      BY <1>1, <2>1, <3>1 DEF DownloadOrder
  <2>2. CASE ~o.patch
    <3>1. Download(o) = <<>>
      BY <2>2 DEF Download, If
    <3> QED
      BY <3>1, EmptySeq DEF DownloadOrder
  <2> QED
    BY <2>1, <2>2
<1> DEFINE s2 == first \o Download(o)
           s3 == s2 \o late
           s4 == s3 \o Set(o)
<1> HIDE DEF early, late, hci, first
<1>9. s2 \in Seq(PlanStep) /\ DownloadOrder(o, s2)
  BY <1>7, <1>8, PlainOrder, OrderConcat, ConcatIs DEF Plain
<1> HIDE DEF s2
<1>10. s3 \in Seq(PlanStep) /\ DownloadOrder(o, s3)
  BY <1>5, <1>9, PlainOrder, OrderConcat, ConcatIs DEF Plain
<1> HIDE DEF s3
<1>11. s4 \in Seq(PlanStep) /\ DownloadOrder(o, s4)
  BY <1>6, <1>10, PlainOrder, OrderConcat, ConcatIs DEF Plain
<1> HIDE DEF s4
<1>12. DownloadOrder(o, s4 \o hci)
  BY <1>5, <1>11, PlainOrder, OrderConcat DEF Plain
<1> QED
  BY <1>12 DEF s4, s3, s2, first, early, late, hci, Steps

----------------------------------------------------------------------------
(* What was asked for, and the place in the steps and in the file.         *)

\* What an argument adds to what was asked for.
LEMMA WithIs ==
  ASSUME NEW a \in [opt : Options, val : Nat], NEW o \in Opts
  PROVE  /\ With(a, o).patch <=> (o.patch \/ a.opt = "patchram")
         /\ With(a, o).no2 <=> (o.no2 \/ a.opt = "no2bytes")
<1>o. o.patch \in BOOLEAN /\ o.no2 \in BOOLEAN
  BY DEF Opts
<1>1. CASE a.opt = "patchram"
  BY <1>1 DEF With, Opts
<1>2. CASE a.opt = "no2bytes"
  BY <1>2 DEF With, Opts
<1>3. CASE a.opt \in {"baudrate", "bd_addr", "enable_lpm", "enable_hci"}
  BY <1>3 DEF With, Opts
<1>4. CASE a.opt \in {"scopcm", "i2s", "use_baudrate_for_download", "tosleep", "unknown"}
  BY <1>4 DEF With, Opts
<1> QED
  BY <1>1, <1>2, <1>3, <1>4 DEF Options, Flags

LEMMA ArgInit == Init => ArgInv
<1> SUFFICES ASSUME Init PROVE ArgInv
  OBVIOUS
<1>1. pc = "parse" /\ argi = 1 /\ opt = Default /\ code = 0 /\ pos = 1 /\ buf = <<>>
  BY DEF Init
<1>2. \A x : ~SoFar(x)
  BY <1>1 DEF SoFar
<1> QED
  BY <1>1, <1>2 DEF ArgInv, Running, Default

LEMMA ArgNext == TypeInv /\ ArgInv /\ [Next]_vars => ArgInv'
<1> SUFFICES ASSUME TypeInv, ArgInv, [Next]_vars PROVE ArgInv'
  OBVIOUS
<1>t. /\ argv \in Argvs /\ argi \in 1..(Len(argv) + 1) /\ Len(argv) \in Nat /\ opt \in Opts
      /\ argv \in Seq([opt : Options, val : Nat])
  BY Assumptions, LenProperties DEF TypeInv, TypeOK, Opts
<1> USE DEF ArgInv, Running, SoFar
<1>1. CASE UNCHANGED vars
  BY <1>1 DEF vars, args, work
<1>2. CASE ParseArg /\ Fault(argv[argi]) = 0
  <2>1. /\ argi <= Len(argv) /\ opt' = With(argv[argi], opt) /\ argi' = argi + 1
        /\ pc = "parse" /\ UNCHANGED <<pc, code, argv, pos, buf>>
    BY <1>2 DEF ParseArg, work
  <2>2. argi \in 1..Len(argv) /\ argv[argi] \in [opt : Options, val : Nat]
    <3>1. argi \in 1..Len(argv)
      BY <1>t, <2>1
    <3> QED
      BY <1>t, <3>1, ElementOfSeq
  <2>3. /\ opt'.patch <=> (opt.patch \/ argv[argi].opt = "patchram")
        /\ opt'.no2 <=> (opt.no2 \/ argv[argi].opt = "no2bytes")
    BY <1>t, <2>1, <2>2, WithIs
  <2>4. \A x : SoFar(x)' <=> (SoFar(x) \/ argv[argi].opt = x)
    <3> TAKE x
    <3>1. 1..(argi' - 1) = 1..(argi - 1) \cup {argi}
      BY <1>t, <2>1
    <3> QED
      BY <2>1, <3>1
  <2> HIDE DEF SoFar
  <2>5. (opt'.patch <=> SoFar("patchram")') /\ (opt'.no2 <=> SoFar("no2bytes")')
    BY <2>3, <2>4
  <2> QED
    BY <2>1, <2>5
<1>3. CASE ParseArg /\ Fault(argv[argi]) # 0
  BY <1>3, <1>t DEF ParseArg, work
<1>4. CASE OpenUart \/ NoUart
  <2>1. argi = Len(argv) + 1 /\ UNCHANGED <<argv, argi, opt>>
    BY <1>4, <1>t DEF OpenUart, NoUart, args
  <2>2. \A x : SoFar(x)' <=> SoFar(x)
    BY <2>1
  <2>3. \/ pc' = "send" /\ code' = 0
        \/ pc' = "exited" /\ code' = 2
    BY <1>4 DEF OpenUart, NoUart, args
  <2> QED
    BY <2>1, <2>2, <2>3
<1>5. CASE (\E op \in Simple : SendCmd(op)) \/ SendRecord \/ EndDownload \/ EnableHci \/ Exit
  BY <1>5 DEF SendCmd, SendRecord, EndDownload, EnableHci, Exit, At, args, work
<1>6. CASE ReadPart \/ ReadLast \/ Disarm \/ ReadTwo
  BY <1>6 DEF ReadPart, ReadLast, Disarm, ReadTwo, args, work
<1>7. CASE Expire \/ ExpireLate
  BY <1>7 DEF Expire, ExpireLate, Again, args, work
<1>8. CASE Chip \/ Lose \/ Arrive
  BY <1>8 DEF Chip, Take, Refuse, Ignore, Boot, Lose, Arrive, args, work
<1>9. CASE Restart
  BY <1>9 DEF Restart, Default
<1> QED
  BY <1>1, <1>2, <1>3, <1>4, <1>5, <1>6, <1>7, <1>8, <1>9 DEF Next, Program

\* While the program runs, it knows what was asked for.
LEMMA AskedIs ==
  ASSUME TypeInv, ArgInv, Running
  PROVE  (opt.patch <=> Given("patchram")) /\ (opt.no2 <=> Given("no2bytes"))
<1>1. Len(argv) \in Nat /\ argi = Len(argv) + 1
  BY Assumptions, LenProperties DEF TypeInv, TypeOK, ArgInv
<1>2. \A x : SoFar(x) <=> Given(x)
  BY <1>1 DEF SoFar, Given
<1> QED
  BY <1>2 DEF ArgInv

\* A whole file has all the records and the launch.
LEMMA ImageIs ==
  ASSUME TypeInv, ArgInv, Running, Whole, opt.patch
  PROVE  /\ file = Image /\ Len(file) = Records + 1 /\ Records \in Nat
         /\ \A i \in 1..Len(file) : file[i] = "all"
<1>1. file = Image /\ Records \in Nat
  BY AskedIs, Assumptions DEF Whole
<1>2. Len(file) \in Nat
  BY FileType DEF TypeInv, TypeOK
<1>3. DOMAIN file = 1..(Records + 1)
  BY <1>1 DEF Image
<1>4. Len(file) = Records + 1
  <2>1. file \in Seq(Parts)
    BY FileType DEF TypeInv, TypeOK
  <2>2. DOMAIN file = 1..Len(file)
    BY <2>1, LenProperties
  <2>3. Len(file) \in 1..Len(file)
    BY <1>1, <1>2, <1>3, <2>2
  <2> QED
    BY <1>1, <1>2, <1>3, <2>2, <2>3
<1> QED
  BY <1>1, <1>4 DEF Image

LEMMA DownloadInit == Init => DownloadInv
<1> SUFFICES ASSUME Init PROVE DownloadInv
  OBVIOUS
<1>1. plan = <<>> /\ Len(plan) = 0 /\ pc = "parse"
  BY EmptySeq DEF Init
<1> QED
  BY <1>1 DEF DownloadInv, DownloadOrder, Has

\* At a record of a whole file the place in it moves on.
LEMMA RecordIs ==
  ASSUME TypeInv, ArgInv, DownloadInv, SendRecord, Whole
  PROVE  /\ opt.patch /\ file = Image /\ file[pos] = "all" /\ pos' = pos + 1
         /\ pos \in 1..Len(file) /\ pos \in Nat
<1>1. pc = "send" /\ plan # <<>> /\ Head(plan) = "record" /\ pos <= Len(file)
  BY DEF SendRecord, At
<1>2. plan \in Seq(PlanStep)
  BY DEF TypeInv, PlanInv, MayBe
<1>3. 1 \in 1..Len(plan) /\ plan[1] = "record"
  BY <1>1, <1>2, TailIs
<1>4. opt.patch
  BY <1>3 DEF DownloadInv, DownloadOrder
<1>5. pos \in 1..Len(file) /\ pos \in Nat
  BY <1>1, FileType DEF TypeInv, TypeOK
<1>6. file = Image /\ file[pos] = "all"
  BY <1>1, <1>4, <1>5, ImageIs DEF Running
<1> QED
  BY <1>4, <1>5, <1>6 DEF SendRecord

\* The first step is done.
LEMMA DownloadTail ==
  ASSUME TypeInv, DownloadInv, plan # <<>>
  PROVE  /\ DownloadOrder(opt, Tail(plan))
         /\ (\E i \in 1..Len(Tail(plan)) : Tail(plan)[i] = "record") => pos = 1
         /\ ~opt.early /\ Has(Tail(plan), "record") => rate = Base /\ Head(plan) # "baud"
         /\ Tail(plan) # <<>> /\ Head(Tail(plan)) = "record" => pos = 1
<1>1. plan \in Seq(PlanStep)
  BY DEF TypeInv, PlanInv, MayBe
<1> DEFINE t == Tail(plan)
           n == Len(plan)
<1>2. /\ t \in Seq(PlanStep) /\ n \in Nat \ {0} /\ Len(t) = n - 1 /\ Head(plan) = plan[1]
      /\ \A i \in 1..n - 1 : i + 1 \in 2..n /\ i + 1 \in 1..n /\ t[i] = plan[i + 1]
  BY <1>1, TailIs
<1>3. DownloadOrder(opt, t)
  BY <1>1, OrderTail DEF DownloadInv
<1>4. t # <<>> => 1 \in 1..Len(t) /\ Head(t) = t[1]
  BY <1>2, TailIs
<1> HIDE DEF t, n
<1>5. (\E i \in 1..Len(t) : t[i] = "record") => pos = 1
  BY <1>2 DEF DownloadInv, n
<1>6. ASSUME ~opt.early, Has(t, "record") PROVE rate = Base /\ Head(plan) # "baud"
  <2>1. PICK i \in 1..n - 1 : t[i] = "record"
    BY <1>2, <1>6 DEF Has
  <2>2. i + 1 \in 1..n /\ plan[i + 1] = "record"
    BY <1>2, <2>1
  <2>3. rate = Base
    BY <1>6, <2>2 DEF DownloadInv, Has, n
  <2>4. plan[1] # "baud"
    <3> SUFFICES ASSUME plan[1] = "baud" PROVE FALSE
      OBVIOUS
    <3>1. 1 \in 1..n
      BY <1>2
    <3>2. i + 1 < 1
      BY <1>6, <2>2, <3>1 DEF DownloadInv, DownloadOrder, n
    <3> QED
      BY <2>1, <3>2
  <2> QED
    BY <1>2, <2>3, <2>4
<1> QED
  BY <1>3, <1>4, <1>5, <1>6 DEF t

LEMMA DownloadNext == TypeInv /\ ArgInv /\ DownloadInv /\ [Next]_vars => DownloadInv'
<1> SUFFICES ASSUME TypeInv, ArgInv, DownloadInv, [Next]_vars PROVE DownloadInv'
  OBVIOUS
<1>t. /\ plan \in Seq(PlanStep) /\ opt \in Opts /\ pos \in Nat
      /\ pc = "parse" => plan = <<>>
      /\ pc \in {"read", "disarm", "two"} => plan # <<>>
  BY FileType DEF TypeInv, TypeOK, PlanInv, MayBe, Opts
<1>e. Len(<<>>) = 0 /\ \A x : ~Has(<<>>, x)
  BY EmptySeq DEF Has
<1>n. \A o : DownloadOrder(o, <<>>)
  BY <1>e DEF DownloadOrder
<1>1. CASE UNCHANGED vars
  BY <1>1 DEF vars, args, work, line, DownloadInv, Whole, Given
<1>2. CASE ParseArg \/ NoUart \/ Restart
  <2>1. plan' = <<>> /\ pc' # "read"
    BY <1>2, <1>t DEF ParseArg, NoUart, Restart, work
  <2>2. ~(\E i \in 2..Len(plan') : plan'[i] = "record") /\ ~Has(plan', "record")
    BY <1>e, <2>1
  <2> QED
    BY <1>n, <2>1, <2>2 DEF DownloadInv, Has
<1>3. CASE OpenUart
  <2>1. /\ pc' = "send" /\ plan' = Steps(opt) /\ rate' = Base /\ opt' = opt /\ pos' = 1
    BY <1>3 DEF OpenUart, args, ArgInv
  <2> QED
    BY <1>t, <2>1, StepsOrder DEF DownloadInv
<1>4. ASSUME NEW op \in Simple, SendCmd(op) PROVE DownloadInv'
  <2>1. /\ Head(plan) = op /\ op # "record" /\ UNCHANGED <<opt, plan, pos, rate>>
    BY <1>4 DEF SendCmd, At, args, Simple
  <2> QED
    BY <2>1 DEF DownloadInv
<1>5. CASE SendRecord
  <2>1. /\ Head(plan) = "record" /\ plan # <<>> /\ UNCHANGED <<opt, plan, rate, argv, file>>
    BY <1>5 DEF SendRecord, At, args
  <2>2. 1 \in 1..Len(plan) /\ plan[1] = "record" /\ Len(plan) \in Nat
    BY <1>t, <2>1, TailIs
  <2>3. \A i \in 2..Len(plan) : plan[i] # "record"
    <3> SUFFICES ASSUME NEW i \in 2..Len(plan), plan[i] = "record" PROVE FALSE
      OBVIOUS
    <3>1. i \in 1..Len(plan)
      BY <2>2
    <3>2. i = 1
      BY <2>2, <3>1 DEF DownloadInv, DownloadOrder
    <3> QED
      BY <3>2
  <2>4. Whole' => pos' > 1
    <3>1. ASSUME Whole PROVE pos' = pos + 1 /\ pos \in 1..Len(file)
      BY <1>5, <3>1, RecordIs
    <3>2. Whole' => Whole
      BY <2>1 DEF Whole, Given
    <3> QED
      BY <1>t, <3>1, <3>2
  <2> QED
    BY <2>1, <2>3, <2>4 DEF DownloadInv
<1>6. CASE EndDownload
  <2>1. /\ plan # <<>> /\ plan' = Tail(plan) /\ rate' \in {Base, rate} /\ pc' = "send"
        /\ UNCHANGED <<opt, pos>>
    BY <1>6 DEF EndDownload, At, args
  <2>2. \A i \in 2..Len(Tail(plan)) : i \in 1..Len(Tail(plan))
    OBVIOUS
  <2> QED
    BY <2>1, <2>2, DownloadTail DEF DownloadInv
<1>7. CASE EnableHci
  <2>1. plan' = <<>> /\ pc' = "asleep"
    BY <1>7 DEF EnableHci
  <2>2. ~(\E i \in 2..Len(plan') : plan'[i] = "record") /\ ~Has(plan', "record")
    BY <1>e, <2>1
  <2> QED
    BY <1>n, <2>1, <2>2 DEF DownloadInv
<1>8. CASE Exit \/ ReadPart \/ Expire \/ ExpireLate
  <2>1. /\ UNCHANGED <<opt, plan, pos, rate, argv, file>>
        /\ pc' = pc \/ pc' = "exited"
    BY <1>8 DEF Exit, ReadPart, Expire, ExpireLate, Again, args, work, line
  <2>2. Whole' => Whole
    BY <2>1 DEF Whole, Given
  <2> QED
    BY <2>1, <2>2 DEF DownloadInv
<1>9. CASE Chip \/ Lose \/ Arrive
  <2>1. UNCHANGED <<pc, opt, plan, pos, rate, argv, file>>
    BY <1>9 DEF Chip, Take, Refuse, Ignore, Boot, Lose, Arrive, args, work, line
  <2>2. Whole' => Whole
    BY <2>1 DEF Whole, Given
  <2> QED
    BY <2>1, <2>2 DEF DownloadInv
<1>10. CASE ReadLast
  <2>1. /\ pc = "read" /\ UNCHANGED <<opt, pos>> /\ pc' # "read"
        /\ plan' = Tail(plan) \/ (plan' = plan /\ Head(plan) # "baud")
        /\ Head(plan) # "baud" => rate' = rate
    <3>1. /\ pc = "read" /\ UNCHANGED <<opt, pos>>
          /\ plan' = IF pc' = "send" /\ Head(plan) # "record" THEN Tail(plan) ELSE plan
          /\ rate' = IF Head(plan) = "baud" THEN opt.rate ELSE rate
      BY <1>10 DEF ReadLast, args
    <3>2. /\ pc' \in {"disarm", "two", "send"}
          /\ Head(plan) = "baud" => pc' = "send"
      BY <1>10 DEF ReadLast
    <3>3. plan' = Tail(plan) \/ plan' = plan
      BY <3>1
    <3>4. CASE Head(plan) = "baud"
      <4>1. pc' = "send"
        BY <3>2, <3>4
      <4>2. plan' = Tail(plan)
        BY <3>1, <3>4, <4>1
      <4> QED
        BY <3>1, <3>4, <4>1, <4>2
    <3>5. CASE Head(plan) # "baud"
      BY <3>1, <3>2, <3>3, <3>5
    <3> QED
      BY <3>4, <3>5
  <2>2. \A i \in 2..Len(Tail(plan)) : i \in 1..Len(Tail(plan))
    OBVIOUS
  <2>3. CASE plan' = plan /\ Head(plan) # "baud"
    BY <2>1, <2>3 DEF DownloadInv
  <2>4. CASE plan' = Tail(plan)
    BY <1>t, <2>1, <2>2, <2>4, DownloadTail DEF DownloadInv
  <2> QED
    BY <2>1, <2>3, <2>4
<1>11. CASE Disarm \/ ReadTwo
  <2>1. /\ pc \in {"disarm", "two"} /\ pc' = "send" /\ plan' = Tail(plan)
        /\ UNCHANGED <<opt, pos, rate>>
    BY <1>11 DEF Disarm, ReadTwo, args, line
  <2>2. \A i \in 2..Len(Tail(plan)) : i \in 1..Len(Tail(plan))
    OBVIOUS
  <2> QED
    BY <1>t, <2>1, <2>2, DownloadTail DEF DownloadInv
<1> QED
  BY <1>1, <1>2, <1>3, <1>4, <1>5, <1>6, <1>7, <1>8, <1>9, <1>10, <1>11 DEF Next, Program

----------------------------------------------------------------------------
(* The answer on its way.                                                  *)

LEMMA StreamIs ==
  ASSUME TypeInv
  PROVE  /\ buf \in Seq(Byte) /\ rx \in Seq(Byte) /\ out \in Seq(Byte)
         /\ Len(buf) \in Nat /\ Len(rx) \in Nat /\ Len(out) \in Nat
         /\ Stream \in Seq(Byte) /\ Len(Stream) = Len(buf) + Len(rx) + Len(out)
         /\ \A i \in 1..Len(buf) : Stream[i] = buf[i]
         /\ Stream = <<>> <=> (buf = <<>> /\ rx = <<>> /\ out = <<>>)
         /\ Stream = <<>> <=> Len(Stream) = 0
         /\ rx = <<>> <=> Len(rx) = 0
         /\ out = <<>> <=> Len(out) = 0
<1>1. buf \in Seq(Byte) /\ rx \in Seq(Byte) /\ out \in Seq(Byte)
  BY DEF TypeInv, TypeOK
<1>2. Len(buf) \in Nat /\ Len(rx) \in Nat /\ Len(out) \in Nat
  BY <1>1, LenProperties
<1>3. rx \o out \in Seq(Byte) /\ Len(rx \o out) = Len(rx) + Len(out)
  BY <1>1, ConcatProperties
<1>4. /\ Stream \in Seq(Byte) /\ Len(Stream) = Len(buf) + Len(rx \o out)
      /\ \A i \in 1..Len(buf) + Len(rx \o out) :
           Stream[i] = IF i <= Len(buf) THEN buf[i] ELSE (rx \o out)[i - Len(buf)]
  BY <1>1, <1>3, ConcatProperties DEF Stream
<1>5. \A s \in Seq(Byte) : s = <<>> <=> Len(s) = 0
  BY EmptySeq
<1>6. \A i \in 1..Len(buf) : Stream[i] = buf[i]
  <2> TAKE i \in 1..Len(buf)
  <2>1. i \in 1..Len(buf) + Len(rx \o out) /\ i <= Len(buf)
    BY <1>2, <1>3
  <2> QED
    BY <1>4, <2>1
<1>7. /\ Stream = <<>> <=> Len(Stream) = 0
      /\ buf = <<>> <=> Len(buf) = 0
      /\ rx = <<>> <=> Len(rx) = 0
      /\ out = <<>> <=> Len(out) = 0
  BY <1>1, <1>4, <1>5
<1> QED
  BY <1>1, <1>2, <1>3, <1>4, <1>6, <1>7

\* What a read leaves of the line: the stream is the same.
LEMMA ReadIs ==
  ASSUME TypeInv, rx # <<>>
  PROVE  /\ Got \o (From(rx, Count + 1) \o out) = Stream
         /\ Got \in Seq(Byte) /\ Len(Got) \in Nat
         /\ From(rx, Count + 1) \in Seq(Byte)
         /\ Len(Got) + Len(From(rx, Count + 1)) + Len(out) = Len(Stream)
         /\ Len(From(rx, Count + 1)) \in Nat
         /\ \A i \in 1..Len(Got) : Got[i] = Stream[i]
<1> DEFINE taken == SubSeq(rx, 1, Count)
           rest  == From(rx, Count + 1)
<1>1. /\ buf \in Seq(Byte) /\ rx \in Seq(Byte) /\ out \in Seq(Byte)
      /\ Len(buf) \in Nat /\ Len(rx) \in Nat /\ Len(out) \in Nat
      /\ Len(Stream) = Len(buf) + Len(rx) + Len(out)
  BY StreamIs
<1>2. Count \in Nat /\ Got \in Seq(Byte) /\ rest \in Seq(Byte)
  BY GotType
<1>3. Count <= Len(rx)
  <2>1. Needed - Len(buf) \in Int
    <3>1. Len(buf) >= 3 => buf[3] \in Nat
      <4>1. Len(buf) >= 3 => buf[3] \in Byte
        BY <1>1, ElementOfSeq
      <4>2. Byte \subseteq Nat
        BY DEF Byte
      <4> QED
        BY <4>1, <4>2
    <3>2. Needed \in Int
      BY <1>1, <3>1 DEF Needed
    <3> QED
      BY <1>1, <3>2
  <2> QED
    BY <1>1, <2>1 DEF Count, Least
<1>4. taken \in Seq(Byte)
  <2>1. \A i \in 1..Count : rx[i] \in Byte
    BY <1>1, <1>2, <1>3, ElementOfSeq
  <2> QED
    BY <1>2, <2>1, SubSeqProperties
<1>5. taken \o rest = rx
  <2>1. 1 \in 1..Len(rx) + 1 /\ Count \in (1 - 1)..Len(rx) /\ Len(rx) \in Count..Len(rx)
    BY <1>1, <1>2, <1>3
  <2>2. taken \o SubSeq(rx, Count + 1, Len(rx)) = SubSeq(rx, 1, Len(rx))
    BY <1>1, <2>1, ConcatAdjacentSubSeq
  <2> QED
    BY <1>1, <2>2, SubSeqFull DEF From
<1>6. Got = buf \o taken
  BY DEF Got
<1> HIDE DEF taken, rest
<1>7. rest \o out \in Seq(Byte) /\ Len(rest \o out) = Len(rest) + Len(out)
      /\ Len(rest) \in Nat /\ Len(Got) \in Nat
  BY <1>1, <1>2, ConcatProperties, LenProperties
<1>8. Got \o (rest \o out) = Stream
  <2> DEFINE Strings == Seq(Byte)
             left    == rest \o out
  <2>a. \A s, t, u \in Strings : (s \o t) \o u = s \o (t \o u)
    BY ConcatAssociative
  <2>t. /\ buf \in Strings /\ taken \in Strings /\ rest \in Strings
        /\ out \in Strings /\ left \in Strings
    BY <1>1, <1>2, <1>4, <1>7
  <2> HIDE DEF Strings
  <2>1. Got \o left = buf \o (taken \o left)
    <3> HIDE DEF left
    <3> QED
      BY <1>6, <2>a, <2>t
  <2>s. taken \in Strings /\ rest \in Strings /\ out \in Strings
    BY <2>t
  <2>2. (taken \o rest) \o out = taken \o left
    BY <2>a, <2>s, Zenon DEF left
  <2> QED
    BY <1>5, <2>1, <2>2 DEF Stream
<1>9. /\ Len(Stream) = Len(Got) + Len(rest \o out)
      /\ \A i \in 1..Len(Got) + Len(rest \o out) :
           Stream[i] = IF i <= Len(Got) THEN Got[i] ELSE (rest \o out)[i - Len(Got)]
  <2>1. /\ Len(Got \o (rest \o out)) = Len(Got) + Len(rest \o out)
        /\ \A i \in 1..Len(Got) + Len(rest \o out) :
             (Got \o (rest \o out))[i] =
               IF i <= Len(Got) THEN Got[i] ELSE (rest \o out)[i - Len(Got)]
    BY <1>2, <1>7, ConcatProperties
  <2> QED
    BY <1>8, <2>1
<1>10. \A i \in 1..Len(Got) : Got[i] = Stream[i]
  <2> TAKE i \in 1..Len(Got)
  <2>1. i \in 1..Len(Got) + Len(rest \o out) /\ i <= Len(Got)
    BY <1>1, <1>7
  <2> QED
    BY <1>9, <2>1
<1>11. Len(Got) + Len(rest) + Len(out) = Len(Stream)
  <2> DEFINE l == Len(Got)
             n == Len(rest \o out)
             r == Len(rest)
             k == Len(out)
  <2>1. Len(Stream) = l + n
    BY <1>9
  <2>2. n = r + k /\ l \in Nat /\ r \in Nat /\ k \in Nat
    BY <1>1, <1>7
  <2> HIDE DEF l, n, r, k
  <2>3. Len(Stream) = (l + r) + k
    BY <2>1, <2>2
  <2> QED
    BY <2>3 DEF l, r, k
<1> QED
  BY <1>2, <1>7, <1>8, <1>10, <1>11 DEF rest

\* What arrives is what was sent, in its order, at one rate.
LEMMA ArriveIs ==
  ASSUME TypeInv, out # <<>>, rx' = Append(rx, Head(out)), out' = Tail(out), buf' = buf
  PROVE  Stream' = Stream /\ Len(rx') + Len(out') = Len(rx) + Len(out)
<1>1. /\ buf \in Seq(Byte) /\ rx \in Seq(Byte) /\ out \in Seq(Byte)
      /\ Len(rx) \in Nat /\ Len(out) \in Nat
  BY StreamIs
<1>2. /\ Head(out) \in Byte /\ Tail(out) \in Seq(Byte) /\ Len(Tail(out)) = Len(out) - 1
      /\ out = <<Head(out)>> \o Tail(out)
  <2>1. /\ Head(out) \in Byte /\ Tail(out) \in Seq(Byte) /\ Len(Tail(out)) = Len(out) - 1
        /\ \A i \in 1..Len(Tail(out)) : Tail(out)[i] = out[i + 1]
    BY <1>1, HeadTailProperties
  <2>2. <<Head(out)>> \in Seq(Byte) /\ Len(<<Head(out)>>) = 1 /\ <<Head(out)>>[1] = out[1]
    BY <1>1, <2>1
  <2> DEFINE whole == <<Head(out)>> \o Tail(out)
  <2>3. /\ whole \in Seq(Byte) /\ Len(whole) = 1 + Len(Tail(out))
        /\ \A i \in 1..1 + Len(Tail(out)) :
             whole[i] = IF i <= 1 THEN <<Head(out)>>[i] ELSE Tail(out)[i - 1]
    BY <2>1, <2>2, ConcatProperties
  <2> HIDE DEF whole
  <2>4. Len(whole) = Len(out) /\ \A i \in 1..Len(whole) : whole[i] = out[i]
    BY <1>1, <2>1, <2>2, <2>3
  <2>5. whole = out
    BY <1>1, <2>3, <2>4, SeqEqual
  <2> QED
    BY <2>1, <2>5 DEF whole
<1>3. <<Head(out)>> \in Seq(Byte)
  BY <1>2
<1>4. rx' = rx \o <<Head(out)>> /\ Len(rx') = Len(rx) + 1
  BY <1>1, <1>2, AppendIsConcat, AppendProperties
<1>5. rx' \o out' = rx \o out
  <2>1. (rx \o <<Head(out)>>) \o Tail(out) = rx \o (<<Head(out)>> \o Tail(out))
    BY <1>1, <1>2, <1>3, ConcatAssociative
  <2> QED
    BY <1>2, <1>4, <2>1
<1>6. Stream' = Stream
  BY <1>5 DEF Stream
<1> QED
  BY <1>1, <1>2, <1>4, <1>6

\* A command is answered with its status, and the minidriver by the chips that do
\* so with two more bytes.
LEMMA AnswerIs ==
  ASSUME TypeInv, NEW c \in KnownCmd, NEW status \in {0, 1}
  PROVE  /\ Answer(c, status) \in Seq(Byte) /\ Answer(c, status)[3] = 4
         /\ Len(Answer(c, status)) = Length(c)
<1>1. c.op \in Ops
  BY DEF KnownCmd
<1>2. Opcode(c.op) \in Seq(Nat) /\ Len(Opcode(c.op)) = 2
  <2>1. \A a, b \in Nat : <<a, b>> \in Seq(Nat) /\ Len(<<a, b>>) = 2
    OBVIOUS
  <2>2. c.op \in {"reset", "minidriver", "record", "launch", "baud", "addr"}
          => \E a, b \in Nat : Opcode(c.op) = <<a, b>>
    BY DEF Opcode
  <2>3. c.op \in {"lpm", "sco", "pcm", "i2s", "clock", "bogus"}
          => \E a, b \in Nat : Opcode(c.op) = <<a, b>>
    BY DEF Opcode
  <2> QED
    BY <1>1, <2>1, <2>2, <2>3 DEF Ops, Simple
<1> DEFINE a == <<4, 14, 4, 1>>
           b == Opcode(c.op)
           d == <<status>>
           e == If(c.op = "minidriver" /\ chip.two, <<0, 0>>)
<1>3. a \in Seq(Nat) /\ Len(a) = 4 /\ a[3] = 4
  OBVIOUS
<1>4. d \in Seq(Nat) /\ Len(d) = 1
  OBVIOUS
<1>5. e \in Seq(Nat) /\ Len(e) = IF c.op = "minidriver" /\ chip.two THEN 2 ELSE 0
  <2>1. <<0, 0>> \in Seq(Nat) /\ Len(<<0, 0>>) = 2
    OBVIOUS
  <2>2. <<>> \in Seq(Nat) /\ Len(<<>>) = 0
    BY EmptySeq
  <2> QED
    BY <2>1, <2>2 DEF If
<1> HIDE DEF a, b, d, e
<1>c. ASSUME NEW s \in Seq(Nat), NEW t \in Seq(Nat), Len(s) >= 3
      PROVE  /\ s \o t \in Seq(Nat) /\ Len(s \o t) = Len(s) + Len(t)
             /\ (s \o t)[3] = s[3]
  <2>1. Len(s) \in Nat /\ Len(t) \in Nat
    BY LenProperties
  <2>2. /\ s \o t \in Seq(Nat) /\ Len(s \o t) = Len(s) + Len(t)
        /\ \A i \in 1..Len(s) + Len(t) : (s \o t)[i] = IF i <= Len(s) THEN s[i] ELSE t[i - Len(s)]
    BY ConcatProperties
  <2>3. 3 \in 1..Len(s) + Len(t) /\ 3 <= Len(s)
    BY <1>c, <2>1
  <2> QED
    BY <2>2, <2>3
<1>b. b \in Seq(Nat) /\ Len(b) = 2
  BY <1>2 DEF b
<1>6. a \o b \in Seq(Nat) /\ Len(a \o b) = 6 /\ (a \o b)[3] = 4
  <2>1. /\ a \o b \in Seq(Nat) /\ Len(a \o b) = Len(a) + Len(b)
        /\ (a \o b)[3] = a[3]
    <3>1. Len(a) >= 3
      BY <1>3
    <3> QED
      BY <1>3, <1>b, <1>c, <3>1
  <2> QED
    BY <1>3, <1>b, <2>1
<1> DEFINE f == a \o b
<1> HIDE DEF f
<1>7. f \o d \in Seq(Nat) /\ Len(f \o d) = 7 /\ (f \o d)[3] = 4
  <2>1. f \in Seq(Nat) /\ Len(f) = 6 /\ f[3] = 4
    BY <1>6 DEF f
  <2>2. Len(f) >= 3
    BY <2>1
  <2>3. f \o d \in Seq(Nat) /\ Len(f \o d) = Len(f) + Len(d) /\ (f \o d)[3] = f[3]
    BY <1>4, <1>c, <2>1, <2>2
  <2> QED
    BY <1>4, <2>1, <2>3
<1> DEFINE g == f \o d
<1> HIDE DEF g
<1>8. Len(g \o e) = 7 + Len(e) /\ (g \o e)[3] = 4
  <2>1. g \in Seq(Nat) /\ Len(g) = 7 /\ g[3] = 4
    BY <1>7 DEF g
  <2>2. Len(g) >= 3
    BY <2>1
  <2>3. Len(g \o e) = Len(g) + Len(e) /\ (g \o e)[3] = g[3]
    BY <1>5, <1>c, <2>1, <2>2
  <2> QED
    BY <2>1, <2>3
<1>9. Answer(c, status) = g \o e
  BY DEF Answer, a, b, d, e, f, g
<1>10. Len(g \o e) = Length(c)
  BY <1>5, <1>8 DEF Length
<1> QED
  BY <1>8, <1>9, <1>10, AnswerType

----------------------------------------------------------------------------
(* The two ends in step.                                                   *)

\* What the invariants say together.
InStep == TypeInv /\ ArgInv /\ DownloadInv /\ Regular /\ TurnInv /\ StepInv

\* The rates of the two ends after a command, and what it leaves of the chip.
LEMMA ComingIs ==
  ASSUME TypeInv, ArgInv, DownloadInv, pc = "read"
  PROVE  /\ plan # <<>>
         /\ Doing.op \in {"baud", "launch"} => Coming(Doing) \in baud_rates
         /\ Doing.op \notin {"baud", "launch"} => Coming(Doing) = rate
         /\ Head(plan) # "record" => Doing.op = Head(plan) /\ Doing.op # "launch"
         /\ Head(plan) = "record" => Doing.op \in {"record", "launch", "bogus"}
         /\ Head(plan) = "baud" => Coming(Doing) = opt.rate
<1>1. plan # <<>> /\ plan \in Seq(PlanStep) /\ (Head(plan) = "baud" => opt.rate # 0)
  BY MayBeTail DEF TypeInv, PlanInv, MayBe
<1>2. opt.rate \in {0} \cup baud_rates
  BY DEF TypeInv, TypeOK
<1>3. Head(plan) # "launch"
  <2>1. Head(plan) = plan[1] /\ 1 \in 1..Len(plan)
    BY <1>1, TailIs
  <2> QED
    BY <2>1 DEF DownloadInv, DownloadOrder
<1>4. Base \in baud_rates
  BY DEF Base, baud_rates
<1>5. CASE Head(plan) = "record"
  <2>1. Doing = Piece(pos - 1)
    BY <1>5 DEF Doing
  <2>2. Doing.op \in {"record", "launch", "bogus"}
    BY <2>1 DEF Piece
  <2> QED
    BY <1>1, <1>4, <1>5, <2>2 DEF Coming
<1>6. CASE Head(plan) # "record"
  <2>1. Doing.op = Head(plan)
    BY <1>6 DEF Doing, Command
  <2>2. CASE Head(plan) = "baud"
    <3>1. Decoded(Encoded(opt.rate)) = opt.rate
      BY <1>1, <1>2, <2>2, RateType
    <3>2. Doing.arg = Encoded(opt.rate)
      BY <1>6, <2>2 DEF Doing, Command
    <3>3. Coming(Doing) = opt.rate
      BY <2>1, <2>2, <3>1, <3>2 DEF Coming
    <3> QED
      BY <1>1, <1>2, <1>6, <2>1, <2>2, <3>3
  <2>3. CASE Head(plan) # "baud"
    <3>1. Coming(Doing) = rate
      BY <1>3, <2>1, <2>3 DEF Coming
    <3> QED
      BY <1>1, <1>3, <1>6, <2>1, <2>3, <3>1
  <2> QED
    BY <2>2, <2>3
<1> QED
  BY <1>5, <1>6

LEMMA ExecutedIs ==
  ASSUME chip \in Chips, NEW c \in KnownCmd, Able(c)
  PROVE  /\ Executed(c).rate = chip.rate /\ Executed(c).two = chip.two
         /\ Executed(c).next = CASE c.op = "baud" -> Decoded(c.arg) [] c.op = "launch" -> Base
                                 [] c.op \notin {"baud", "launch"} -> chip.next
<1> USE DEF Chips
<1>1. c.op \in Ops /\ c.op # "bogus"
  BY DEF KnownCmd, Able
<1>2. CASE c.op = "reset"
  BY <1>2 DEF Executed
<1>3. CASE c.op = "minidriver"
  BY <1>3 DEF Executed
<1>4. CASE c.op = "record"
  BY <1>4 DEF Executed
<1>5. CASE c.op = "launch"
  BY <1>5 DEF Executed
<1>6. CASE c.op = "baud"
  BY <1>6 DEF Executed
<1>7. CASE c.op = "addr"
  BY <1>7 DEF Executed
<1>8. CASE c.op \in {"clock", "lpm", "sco", "pcm", "i2s"}
  BY <1>8 DEF Executed
<1> QED
  BY <1>1, <1>2, <1>3, <1>4, <1>5, <1>6, <1>7, <1>8 DEF Ops, Simple

\* The command line, the file and the chip stay what they are, and what has
\* happened is not forgotten.
LEMMA KeptNext ==
  ASSUME TypeInv, [Next]_vars
  PROVE  /\ argv' = argv /\ file' = file /\ chip'.two = chip.two /\ odd \subseteq odd'
         /\ Regular' => Regular
<1>1. argv' = argv /\ file' = file
  BY DEF Next, vars, args, Program, Chip, ParseArg, OpenUart, NoUart, SendCmd, SendRecord,
         EndDownload, EnableHci, Exit, ReadPart, ReadLast, Disarm, ReadTwo, Expire,
         ExpireLate, Again, Take, Refuse, Ignore, Boot, Lose, Arrive, Restart
<1>2. odd \subseteq odd'
  <2>1. CASE UNCHANGED vars
    BY <2>1 DEF vars, past
  <2>2. CASE Program
    BY <2>2 DEF Program, ParseArg, OpenUart, NoUart, SendCmd, SendRecord, EndDownload,
                EnableHci, Exit, ReadPart, ReadLast, Disarm, ReadTwo, past
  <2>3. CASE Expire \/ ExpireLate \/ Chip \/ Lose \/ Arrive \/ Restart
    BY <2>3 DEF Chip, Expire, ExpireLate, Take, Refuse, Ignore, Boot, Lose, Arrive,
                Restart, past
  <2> QED
    BY <2>1, <2>2, <2>3 DEF Next
<1>3. chip'.two = chip.two
  <2>t. chip \in Chips /\ cmds \in Seq(KnownCmd)
    BY DEF TypeInv, TypeOK, LineInv, Chips, Modes
  <2>1. CASE UNCHANGED chip
    BY <2>1
  <2>2. CASE Take
    <3>1. Head(cmds) \in KnownCmd /\ Able(Head(cmds)) /\ chip' = Executed(Head(cmds))
      BY <2>2, <2>t, HeadTailProperties DEF Take, Listens
    <3> QED
      BY <2>t, <3>1, ExecutedIs
  <2>3. CASE Boot
    <3>1. chip' = [chip EXCEPT !.up = TRUE]
      BY <2>3 DEF Boot
    <3> QED
      BY <2>t, <3>1 DEF Chips
  <2>4. CASE Arrive
    <3>1. \/ chip' = [chip EXCEPT !.rate = chip.next, !.next = 0]
          \/ chip' = chip
      BY <2>4, Zenon DEF Arrive
    <3> QED
      BY <2>t, <3>1 DEF Chips
  <2> QED
    BY <2>1, <2>2, <2>3, <2>4
    DEF vars, Next, Program, Chip, ParseArg, OpenUart, NoUart, SendCmd, SendRecord,
        EndDownload, EnableHci, Exit, ReadPart, ReadLast, Disarm, ReadTwo, Expire,
        ExpireLate, Again, Refuse, Ignore, Lose, Restart
<1>4. Regular' => Regular
  BY <1>1, <1>2, <1>3 DEF Regular, Matched, Whole, Given
<1> QED
  BY <1>1, <1>2, <1>3, <1>4

\* Nothing is under way.
LEMMA StillIs ==
  ASSUME TypeInv
  PROVE  Still <=> (cmds = <<>> /\ buf = <<>> /\ rx = <<>> /\ out = <<>>)
BY StreamIs DEF Still

\* A step that leaves the line, the chip's rate and what is waited for alone.
LEMMA WaitSame ==
  ASSUME UNCHANGED <<plan, pos, file, opt, rate, cmds, out, rx, buf>>,
         chip'.rate = chip.rate, chip'.next = chip.next, chip'.two = chip.two
  PROVE  /\ Still' <=> Still
         /\ Missed' <=> Missed
         /\ Waiting' <=> Waiting
         /\ Answering' <=> Answering
         /\ Launched' <=> Launched
         /\ TurnInv' <=> TurnInv
<1>1. Doing' = Doing /\ Stream' = Stream
  BY DEF Doing, Piece, Command, Stream
<1>2. Length(Doing)' = Length(Doing) /\ Coming(Doing)' = Coming(Doing)
  BY <1>1 DEF Length, Coming
<1>3. TurnInv' <=> TurnInv
  BY DEF TurnInv
<1>4. (Still' <=> Still) /\ (Missed' <=> Missed) /\ (Waiting' <=> Waiting)
  BY <1>1 DEF Still, Missed, Waiting
<1>5. Launched' <=> Launched
  BY DEF Launched
<1>6. Answering' <=> Answering
  BY <1>1, <1>2 DEF Answering
<1> QED
  BY <1>3, <1>4, <1>5, <1>6

\* The program is where it reads its arguments, or it has failed.
LEMMA ParseStep ==
  InStep /\ (ParseArg \/ NoUart \/ Restart) => TurnInv' /\ StepInv'
<1> SUFFICES ASSUME InStep, ParseArg \/ NoUart \/ Restart PROVE TurnInv' /\ StepInv'
  OBVIOUS
<1>1. TurnInv'
  BY DEF InStep, TurnInv, ParseArg, NoUart, Restart, line
<1>2. \/ pc' = "parse" /\ ~alarm'
      \/ pc' = "exited" /\ code' # 0
  BY DEF InStep, StepInv, ParseArg, NoUart, Restart, work
<1> QED
  BY <1>1, <1>2 DEF StepInv, Running

LEMMA OpenStep ==
  InStep /\ Regular' /\ OpenUart => TurnInv' /\ StepInv'
<1> SUFFICES ASSUME InStep, Regular', OpenUart PROVE TurnInv' /\ StepInv'
  OBVIOUS
<1>1. /\ pc = "parse" /\ pc' = "send" /\ rate' = Base /\ cmds' = <<>> /\ rx' = <<>>
      /\ UNCHANGED <<buf, alarm, out, chip>>
      /\ odd' = odd \cup (IF chip.rate = Base /\ chip.next \in {0, Base} THEN {} ELSE {"rate"})
                \cup (IF out = <<>> THEN {} ELSE {"stale"})
  BY DEF OpenUart
<1>2. odd' = {}
  BY DEF Regular
<1>3. chip.rate = Base
  <2> SUFFICES ASSUME chip.rate # Base PROVE "rate" \in odd'
    BY <1>2
  <2> QED
    BY <1>1
<1>4. out = <<>>
  <2> SUFFICES ASSUME out # <<>> PROVE "stale" \in odd'
    BY <1>2
  <2> QED
    BY <1>1
<1>5. buf = <<>> /\ ~alarm
  BY <1>1 DEF InStep, ArgInv, StepInv
<1>6. chip.next = 0
  BY <1>4 DEF InStep, TurnInv
<1>7. Still'
  <2>1. <<>> \o (<<>> \o <<>>) = <<>>
    BY EmptySeq, ConcatEmptySeq
  <2> QED
    BY <1>1, <1>4, <1>5, <2>1 DEF Still, Stream
<1>8. TurnInv'
  BY <1>1, <1>4, <1>6 DEF TurnInv
<1> QED
  BY <1>1, <1>3, <1>5, <1>7, <1>8 DEF StepInv

LEMMA SendStep ==
  ASSUME InStep, NEW op \in Simple, SendCmd(op)
  PROVE  TurnInv' /\ StepInv'
<1>1. /\ pc = "send" /\ Head(plan) = op /\ plan # <<>> /\ op # "record"
      /\ cmds' = Append(cmds, Command(op)) /\ pc' = "read" /\ alarm' = (op = "reset")
      /\ UNCHANGED <<plan, pos, file, opt, buf, rate, out, rx, chip>>
  BY DEF SendCmd, At, args, Simple
<1>2. Still /\ rate = chip.rate
  BY <1>1 DEF InStep, StepInv, Launched
<1>3. cmds = <<>> /\ buf = <<>> /\ rx = <<>> /\ out = <<>>
  BY <1>2, StillIs DEF InStep
<1>4. cmds' = <<Command(op)>>
  BY <1>1, <1>3
<1>5. Doing' = Command(op)
  BY <1>1 DEF Doing, Command
<1>6. Waiting'
  BY <1>1, <1>2, <1>4, <1>5 DEF Waiting, Still, Stream
<1>7. Len(cmds') = 1
  BY <1>4
<1>8. TurnInv'
  BY <1>1, <1>2, <1>3, <1>7 DEF InStep, TurnInv
<1>9. alarm' => Head(plan') = "reset"
  BY <1>1
<1> QED
  BY <1>1, <1>6, <1>8, <1>9 DEF StepInv

LEMMA RecordStep ==
  ASSUME InStep, SendRecord
  PROVE  TurnInv' /\ StepInv'
<1>1. /\ pc = "send" /\ Head(plan) = "record" /\ plan # <<>> /\ pos <= Len(file)
      /\ cmds' = Append(cmds, Piece(pos)) /\ pc' = "read"
      /\ UNCHANGED <<plan, file, opt, buf, alarm, rate, out, rx, chip>>
  BY DEF SendRecord, At, args
<1>n. pos \in Nat /\ Len(file) \in Nat
  BY FileType DEF InStep, TypeInv, TypeOK
<1>2. Still /\ rate = chip.rate /\ ~alarm
  BY <1>1, <1>n DEF InStep, StepInv, Launched
<1>3. cmds = <<>> /\ buf = <<>> /\ rx = <<>> /\ out = <<>>
  BY <1>2, StillIs DEF InStep
<1>4. cmds' = <<Piece(pos)>>
  BY <1>1, <1>3
<1>5. Doing' = Piece(pos)
  <2>1. pos' = pos + 1
    BY RecordIs DEF InStep, Regular
  <2>2. pos' - 1 = pos
    BY <1>n, <2>1
  <2> QED
    BY <1>1, <2>2 DEF Doing, Piece
<1>6. Waiting'
  BY <1>1, <1>2, <1>4, <1>5 DEF Waiting, Still, Stream
<1>7. Len(cmds') = 1
  BY <1>4
<1>8. TurnInv'
  BY <1>1, <1>2, <1>3, <1>7 DEF InStep, TurnInv
<1> QED
  BY <1>1, <1>2, <1>6, <1>8 DEF StepInv

LEMMA EndStep ==
  ASSUME InStep, EndDownload \/ EnableHci \/ Exit
  PROVE  TurnInv' /\ StepInv'
<1>1. /\ pc = "send" /\ UNCHANGED <<buf, alarm, cmds, out, rx, chip>>
  BY DEF EndDownload, EnableHci, Exit, At, work, line
<1>2. Still /\ ~alarm
  BY <1>1 DEF InStep, StepInv
<1>3. cmds = <<>> /\ out = <<>>
  BY <1>2, StillIs DEF InStep
<1>4. Still'
  BY <1>1, <1>2 DEF Still, Stream
<1>5. TurnInv'
  BY <1>1, <1>3 DEF InStep, TurnInv
<1>6. CASE EndDownload
  <2>1. /\ plan # <<>> /\ Head(plan) = "record" /\ pos > Len(file)
        /\ rate' = (IF opt.early THEN Base ELSE rate) /\ pc' = "send"
    BY <1>6 DEF EndDownload, At
  <2>2. chip.rate = Base
    BY <1>1, <2>1 DEF InStep, StepInv, Launched
  <2>3. ~opt.early => rate = Base
    <3>1. Has(plan, "record")
      <4>1. Head(plan) = plan[1] /\ 1 \in 1..Len(plan)
        BY <2>1, TailIs DEF InStep, TypeInv, PlanInv, MayBe
      <4> QED
        BY <2>1, <4>1 DEF Has
    <3> QED
      BY <3>1 DEF InStep, DownloadInv
  <2>4. rate' = chip'.rate /\ chip'.rate = Base
    BY <1>1, <2>1, <2>2, <2>3
  <2> QED
    BY <1>1, <1>2, <1>4, <1>5, <2>1, <2>4 DEF StepInv
<1>7. CASE EnableHci \/ Exit
  <2>1. pc' \in {"asleep", "exited"} /\ rate' = rate /\ ~Launched
    BY <1>7 DEF EnableHci, Exit, At, line, Launched
  <2>2. Missed'
    BY <1>1, <1>4, <2>1 DEF InStep, StepInv, Missed
  <2> QED
    BY <1>5, <2>1, <2>2 DEF StepInv
<1> QED
  BY <1>6, <1>7

\* A read that does not end the event changes nothing of what is waited for.
LEMMA PartStep ==
  ASSUME InStep, ReadPart
  PROVE  TurnInv' /\ StepInv'
<1>1. /\ pc = "read" /\ rx # <<>> /\ buf' = Got /\ rx' = From(rx, Count + 1)
      /\ UNCHANGED <<pc, plan, pos, file, opt, alarm, rate, cmds, out, chip>>
  BY DEF ReadPart, args
<1>2. Stream' = Stream
  BY <1>1, ReadIs DEF InStep, Stream
<1>3. Answering
  BY <1>1, StreamIs DEF InStep, StepInv, Missed, Waiting, Still
<1>4. Doing' = Doing
  BY <1>1 DEF Doing, Piece, Command
<1>5. Length(Doing)' = Length(Doing) /\ Coming(Doing)' = Coming(Doing)
  BY <1>1, <1>4 DEF Length, Coming
<1>6. Answering'
  BY <1>1, <1>2, <1>3, <1>4, <1>5 DEF Answering
<1>7. TurnInv'
  BY <1>1, <1>3 DEF InStep, TurnInv, Answering
<1> QED
  BY <1>1, <1>6, <1>7 DEF InStep, StepInv

\* The first steps that are left after an answer: the last event was not that of
\* a launch, unless the download is at its end.
LEMMA AfterAnswer ==
  ASSUME TypeInv, ArgInv, DownloadInv, Regular, pc = "read", Head(plan) = "record"
  PROVE  Doing.op = IF pos > Len(file) THEN "launch" ELSE "record"
<1>1. plan # <<>> /\ plan \in Seq(PlanStep)
  BY DEF TypeInv, PlanInv, MayBe
<1>2. 1 \in 1..Len(plan) /\ plan[1] = "record"
  BY <1>1, TailIs
<1>3. opt.patch
  BY <1>2 DEF DownloadInv, DownloadOrder
<1>4. /\ Len(file) = Records + 1 /\ Records \in Nat
      /\ \A i \in 1..Len(file) : file[i] = "all"
  BY <1>3, ImageIs DEF Regular, Running
<1>5. pos > 1 /\ pos \in 1..(Len(file) + 1)
  BY DEF DownloadInv, Regular, TypeInv, TypeOK
<1>6. pos - 1 \in 1..Len(file) /\ (pos - 1 <= Records <=> ~(pos > Len(file)))
  BY <1>4, <1>5
<1>7. Doing = Piece(pos - 1) /\ file[pos - 1] = "all"
  BY <1>4, <1>6 DEF Doing
<1> QED
  BY <1>6, <1>7 DEF Piece

\* After another step the records, if there are any to come, are all to come.
LEMMA NotLaunched ==
  ASSUME TypeInv, ArgInv, DownloadInv, Regular, Running, plan # <<>>
  PROVE  ~(Tail(plan) # <<>> /\ Head(Tail(plan)) = "record" /\ pos > Len(file))
<1> SUFFICES ASSUME Tail(plan) # <<>>, Head(Tail(plan)) = "record", pos > Len(file)
             PROVE  FALSE
  OBVIOUS
<1>1. pos = 1
  BY DownloadTail
<1>2. plan \in Seq(PlanStep) /\ Tail(plan) \in Seq(PlanStep)
  BY TailIs DEF TypeInv, PlanInv, MayBe
<1>3. 1 \in 1..Len(Tail(plan)) /\ Tail(plan)[1] = "record"
  BY <1>2, TailIs
<1>4. opt.patch
  BY <1>3, DownloadTail DEF DownloadOrder
<1>5. Len(file) = Records + 1 /\ Records \in Nat
  BY <1>4, ImageIs DEF Regular
<1> QED
  BY <1>1, <1>5

LEMMA LastStep ==
  ASSUME InStep, ReadLast
  PROVE  TurnInv' /\ StepInv'
<1>1. /\ pc = "read" /\ rx # <<>> /\ Complete /\ buf' = <<>> /\ rx' = From(rx, Count + 1)
      /\ plan' = IF pc' = "send" /\ Head(plan) # "record" THEN Tail(plan) ELSE plan
      /\ rate' = IF Head(plan) = "baud" THEN opt.rate ELSE rate
      /\ UNCHANGED <<pos, file, opt, alarm, cmds, out, chip>>
  BY DEF ReadLast, args
<1>2. pc' = CASE Head(plan) = "reset"                     -> "disarm"
              [] Head(plan) = "minidriver" /\ ~opt.no2    -> "two"
              [] OTHER                                    -> "send"
  BY DEF ReadLast
<1>3. Answering
  BY <1>1, StreamIs DEF InStep, StepInv, Missed, Waiting, Still
<1>t. TypeInv /\ ArgInv /\ DownloadInv /\ Regular /\ TurnInv /\ StepInv
  BY DEF InStep
<1>c. plan # <<>> /\ Head(plan) \in PlanStep
  BY <1>1, <1>t, ComingIs, MayBeTail DEF TypeInv, PlanInv
<1>4. Len(Got) = 7 /\ Len(rx') \in Nat /\ Len(out) \in Nat /\ rx' \in Seq(Byte)
      /\ Len(rx') + Len(out) = Length(Doing) - 7
  <2>1. Len(Got) >= 3 /\ Len(Got) = 3 + Got[3]
    BY <1>1 DEF Complete
  <2>2. Got[3] = Stream[3]
    BY <1>1, <1>t, <2>1, ReadIs
  <2>3. Stream[3] = 4 /\ Len(Stream) = Length(Doing)
    BY <1>3 DEF Answering
  <2>4. Len(Got) = 7
    BY <2>1, <2>2, <2>3
  <2>5. /\ Len(Got) + Len(rx') + Len(out) = Length(Doing)
        /\ Len(rx') \in Nat /\ rx' \in Seq(Byte)
    BY <1>1, <1>t, <2>3, ReadIs
  <2>6. Len(out) \in Nat
    BY <1>t, StreamIs
  <2>7. Len(rx') + Len(out) = Length(Doing) - 7
    BY <2>4, <2>5, <2>6
  <2> QED
    BY <2>4, <2>5, <2>6, <2>7
<1>5. Doing.op = "minidriver" <=> Head(plan) = "minidriver"
  BY <1>1, <1>t, ComingIs
<1>6. Head(plan) = "minidriver" => (~opt.no2 <=> chip.two)
  <2> SUFFICES ASSUME Head(plan) = "minidriver" PROVE ~opt.no2 <=> chip.two
    OBVIOUS
  <2>1. plan[1] = "minidriver" /\ 1 \in 1..Len(plan)
    BY <1>c, <1>t, TailIs DEF TypeInv, PlanInv, MayBe
  <2>2. opt.patch
    BY <1>t, <2>1 DEF DownloadInv, DownloadOrder
  <2>3. Given("patchram") /\ (opt.no2 <=> Given("no2bytes"))
    BY <1>1, <1>t, <2>2, AskedIs DEF Running
  <2>4. Given("no2bytes") # chip.two
    BY <1>t, <2>3 DEF Regular, Matched
  <2>5. chip.two \in BOOLEAN /\ Given("no2bytes") \in BOOLEAN
    BY <1>t DEF TypeInv, TypeOK, Given
  <2> QED
    BY <2>3, <2>4, <2>5, Zenon
<1>7. cmds = <<>> /\ cmds' = <<>>
  BY <1>1, <1>3 DEF Answering
<1>8. out = <<>> => chip.rate = Coming(Doing) /\ chip.next = 0
  BY <1>3, <1>t DEF Answering, TurnInv
<1>9. CASE Head(plan) = "minidriver" /\ ~opt.no2
  <2>1. pc' = "two" /\ plan' = plan /\ rate' = rate
    BY <1>1, <1>2, <1>9
  <2>2. Len(rx') + Len(out') = 2
    <3>1. Length(Doing) = 9
      BY <1>5, <1>6, <1>9 DEF Length
    <3> QED
      BY <1>1, <1>4, <3>1
  <2>3. rate = chip.rate /\ chip.next = 0
    <3>1. Coming(Doing) = rate /\ Doing.op \notin {"baud", "launch"}
      BY <1>1, <1>t, <1>5, <1>9, ComingIs
    <3> QED
      BY <1>3, <1>8, <3>1 DEF Answering
  <2>4. ~alarm
    BY <1>1, <1>t, <1>9 DEF StepInv
  <2>5. TurnInv'
    BY <1>1, <1>7, <2>1, <2>3, <1>8 DEF TurnInv
  <2>6. Head(plan') = "minidriver"
    BY <1>9, <2>1
  <2> QED
    BY <1>1, <1>7, <2>1, <2>2, <2>3, <2>4, <2>5, <2>6 DEF StepInv
<1>10. CASE ~(Head(plan) = "minidriver" /\ ~opt.no2)
  <2>1. rx' = <<>> /\ out = <<>>
    <3>1. Length(Doing) = 7
      BY <1>5, <1>6, <1>10 DEF Length
    <3>2. Len(rx') = 0 /\ Len(out) = 0
      BY <1>4, <3>1
    <3> QED
      BY <1>4, <1>t, <3>2, StreamIs, EmptySeq
  <2>2. Still'
    <3>1. <<>> \o (<<>> \o <<>>) = <<>>
      BY EmptySeq, ConcatEmptySeq
    <3> QED
      BY <1>1, <1>7, <2>1, <3>1 DEF Still, Stream
  <2>3. TurnInv'
    BY <1>1, <1>7, <1>8, <2>1 DEF TurnInv
  <2>4. CASE Head(plan) = "reset"
    <3>1. pc' = "disarm" /\ plan' = plan /\ rate' = rate
      BY <1>1, <1>2, <2>4
    <3>2. rate = chip.rate
      <4>1. Doing.op = "reset"
        BY <1>1, <1>t, <2>4, ComingIs
      <4>2. Coming(Doing) = rate
        BY <1>1, <1>t, <4>1, ComingIs
      <4> QED
        BY <1>8, <2>1, <4>2
    <3>3. Missed'
      BY <1>1, <2>2, <3>1, <3>2 DEF Missed
    <3>4. Head(plan') = "reset"
      BY <2>4, <3>1
    <3> QED
      BY <2>3, <3>1, <3>3, <3>4 DEF StepInv
  <2>5. CASE Head(plan) # "reset"
    <3>1. pc' = "send" /\ ~alarm'
      BY <1>1, <1>2, <1>t, <1>10, <2>5 DEF StepInv
    <3>2. CASE Head(plan) = "record"
      <4>1. plan' = plan /\ rate' = rate
        BY <1>1, <3>2
      <4>2. Doing.op = IF pos > Len(file) THEN "launch" ELSE "record"
        BY <1>1, <1>t, <3>2, AfterAnswer
      <4>3. chip.rate = IF pos > Len(file) THEN Base ELSE rate
        BY <1>8, <2>1, <4>2 DEF Coming
      <4>4. Launched' <=> pos > Len(file)
        BY <1>1, <1>c, <3>2, <4>1 DEF Launched
      <4>5. /\ Launched' \/ rate' = chip'.rate
            /\ Launched' => chip'.rate = Base
        BY <1>1, <4>1, <4>3, <4>4
      <4> QED
        BY <2>2, <2>3, <3>1, <4>5 DEF StepInv
    <3>3. CASE Head(plan) # "record"
      <4>1. plan' = Tail(plan)
        BY <1>1, <3>1, <3>3
      <4>2. ~Launched'
        BY <1>1, <1>c, <1>t, <4>1, NotLaunched DEF Launched, Running
      <4>3. rate' = chip'.rate
        <5>1. CASE Head(plan) = "baud"
          <6>1. Coming(Doing) = opt.rate
            BY <1>1, <1>t, <5>1, ComingIs
          <6> QED
            BY <1>1, <1>8, <2>1, <5>1, <6>1
        <5>2. CASE Head(plan) # "baud"
          <6>1. Doing.op \notin {"baud", "launch"}
            BY <1>1, <1>t, <3>3, <5>2, ComingIs
          <6>2. Coming(Doing) = rate
            BY <1>1, <1>t, <6>1, ComingIs
          <6> QED
            BY <1>1, <1>8, <2>1, <5>2, <6>2
        <5> QED
          BY <5>1, <5>2
      <4> QED
        BY <2>2, <2>3, <3>1, <4>2, <4>3 DEF StepInv
    <3> QED
      BY <3>2, <3>3
  <2> QED
    BY <2>4, <2>5
<1> QED
  BY <1>9, <1>10

LEMMA DisarmStep ==
  ASSUME InStep, Disarm
  PROVE  TurnInv' /\ StepInv'
<1>t. TypeInv /\ ArgInv /\ DownloadInv /\ Regular /\ TurnInv /\ StepInv
  BY DEF InStep
<1>1. /\ pc = "disarm" /\ pc' = "send" /\ plan' = Tail(plan) /\ ~alarm'
      /\ UNCHANGED <<pos, file, opt, buf, rate, cmds, out, rx, chip>>
  BY DEF Disarm, args, line
<1>2. Missed /\ plan # <<>>
  BY <1>1, <1>t DEF StepInv, TypeInv, PlanInv
<1>3. ~Launched'
  BY <1>1, <1>2, <1>t, NotLaunched DEF Launched, Running
<1>4. Still' /\ rate' = chip'.rate
  BY <1>1, <1>2 DEF Missed, Still, Stream
<1>5. TurnInv'
  BY <1>1, <1>t DEF TurnInv
<1> QED
  BY <1>1, <1>3, <1>4, <1>5 DEF StepInv

\* The two bytes after the answer to the minidriver: both were there.
LEMMA TwoStep ==
  ASSUME InStep, Regular', ReadTwo
  PROVE  TurnInv' /\ StepInv'
<1>t. TypeInv /\ ArgInv /\ DownloadInv /\ Regular /\ TurnInv /\ StepInv
  BY DEF InStep
<1>1. /\ pc = "two" /\ rx # <<>> /\ pc' = "send" /\ plan' = Tail(plan)
      /\ rx' = From(rx, Least(2, Len(rx)) + 1)
      /\ odd' = IF Len(rx) = 1 THEN odd \cup {"short"} ELSE odd
      /\ UNCHANGED <<pos, file, opt, buf, alarm, rate, cmds, out, chip>>
  BY DEF ReadTwo, args
<1>2. /\ cmds = <<>> /\ buf = <<>> /\ Len(rx) + Len(out) = 2
      /\ chip.next = 0 /\ rate = chip.rate /\ ~alarm /\ plan # <<>>
  BY <1>1, <1>t DEF StepInv, TypeInv, PlanInv
<1>3. Len(rx) # 1
  <2> SUFFICES ASSUME Len(rx) = 1 PROVE "short" \in odd'
    BY DEF Regular
  <2> QED
    BY <1>1
<1>4. Len(rx) = 2 /\ out = <<>>
  <2>1. Len(rx) \in Nat /\ Len(out) \in Nat /\ (rx = <<>> <=> Len(rx) = 0)
        /\ (out = <<>> <=> Len(out) = 0)
    BY <1>t, StreamIs
  <2>2. Len(rx) = 2 /\ Len(out) = 0
    <3>1. Len(rx) # 0 /\ Len(rx) # 1 /\ Len(rx) + Len(out) = 2
      BY <1>1, <1>2, <1>3, <2>1
    <3>2. \A m, n \in Nat : m # 0 /\ m # 1 /\ m + n = 2 => m = 2 /\ n = 0
      OBVIOUS
    <3> QED
      BY <2>1, <3>1, <3>2
  <2> QED
    BY <2>1, <2>2
<1>5. rx' = <<>>
  <2>1. rx' = SubSeq(rx, 3, 2)
    BY <1>1, <1>4 DEF Least, From
  <2> QED
    BY <2>1, SubSeqEmpty
<1>6. Still'
  <2>1. <<>> \o (<<>> \o <<>>) = <<>>
    BY EmptySeq, ConcatEmptySeq
  <2> QED
    BY <1>1, <1>2, <1>4, <1>5, <2>1 DEF Still, Stream
<1>7. ~Launched'
  BY <1>1, <1>2, <1>t, NotLaunched DEF Launched, Running
<1>8. TurnInv'
  BY <1>1, <1>2, <1>4 DEF TurnInv
<1> QED
  BY <1>1, <1>2, <1>6, <1>7, <1>8 DEF StepInv

\* The alarm expires when the line is quiet: there is no answer to come.
LEMMA ExpireStep ==
  ASSUME InStep, Expire
  PROVE  TurnInv' /\ StepInv'
<1>t. TypeInv /\ ArgInv /\ DownloadInv /\ Regular /\ TurnInv /\ StepInv
  BY DEF InStep
<1>1. /\ pc = "read" /\ alarm /\ cmds = <<>> /\ out = <<>> /\ rx = <<>>
      /\ cmds' = Append(cmds, [op |-> "reset", arg |-> <<>>])
      /\ UNCHANGED <<pc, plan, pos, file, opt, buf, alarm, rate, out, rx, chip>>
  BY DEF Expire, Again, Quiet, args, work
<1>2. Missed
  <2>1. ~Waiting
    BY <1>1 DEF Waiting
  <2>2. ~Answering
    <3> SUFFICES ASSUME Answering PROVE FALSE
      OBVIOUS
    <3>1. /\ buf \in Seq(Byte) /\ Len(buf) \in Nat /\ Len(rx) = 0 /\ Len(out) = 0
          /\ Len(Stream) = Len(buf) + Len(rx) + Len(out)
          /\ \A i \in 1..Len(buf) : Stream[i] = buf[i]
      BY <1>1, <1>t, StreamIs
    <3>2. Len(buf) >= 7 /\ Stream[3] = 4
      <4>1. Len(Stream) = Length(Doing) /\ Stream[3] = 4
        BY DEF Answering
      <4>2. Length(Doing) \in {7, 9}
        BY DEF Length
      <4> QED
        BY <3>1, <4>1, <4>2
    <3>3. buf[3] = 4
      BY <3>1, <3>2
    <3>4. Len(buf) < 3 + buf[3]
      BY <1>t, <3>1, <3>2 DEF TypeInv, TypeOK
    <3> QED
      BY <3>1, <3>2, <3>3, <3>4
  <2> QED
    BY <1>1, <1>t, <2>1, <2>2 DEF StepInv
<1>3. Head(plan) = "reset"
  BY <1>1, <1>t DEF StepInv
<1>4. cmds' = <<[op |-> "reset", arg |-> <<>>]>>
  BY <1>1
<1>5. Doing' = [op |-> "reset", arg |-> <<>>]
  BY <1>1, <1>3 DEF Doing, Command
<1>6. Waiting'
  BY <1>1, <1>2, <1>4, <1>5 DEF Waiting, Missed, Still, Stream
<1>7. Len(cmds') = 1
  BY <1>4
<1>8. TurnInv'
  BY <1>1, <1>2, <1>7, <1>t DEF Missed, TurnInv
<1> QED
  BY <1>1, <1>3, <1>6, <1>8 DEF StepInv

\* The chip executes what it hears and answers.
LEMMA TakeStep ==
  ASSUME InStep, Take
  PROVE  TurnInv' /\ StepInv'
<1>t. TypeInv /\ ArgInv /\ DownloadInv /\ Regular /\ TurnInv /\ StepInv
  BY DEF InStep
<1>1. /\ cmds # <<>> /\ rate = chip.rate /\ out = <<>> /\ Able(Head(cmds))
      /\ chip' = Executed(Head(cmds)) /\ out' = Answer(Head(cmds), 0) /\ cmds' = Tail(cmds)
      /\ UNCHANGED <<pc, plan, pos, file, opt, code, buf, alarm, rate, rx>>
  BY DEF Take, Listens, args, work
<1>2. /\ Len(cmds) = 1 /\ rx = <<>> /\ chip.next = 0
      /\ cmds \in Seq(KnownCmd) /\ chip \in Chips
  BY <1>1, <1>t DEF TurnInv, TypeInv, TypeOK, LineInv, Chips, Modes
<1>3. cmds' = <<>>
  <2>1. Tail(cmds) \in Seq(KnownCmd) /\ Len(Tail(cmds)) = 0
    BY <1>1, <1>2, HeadTailProperties
  <2> QED
    BY <1>1, <2>1, EmptySeq
<1>4. PICK c \in KnownCmd : c = Head(cmds)
  BY <1>1, <1>2, HeadTailProperties
<1>5. /\ out' \in Seq(Byte) /\ out'[3] = 4 /\ Len(out') = Length(c) /\ out' # <<>>
  <2>1. out' \in Seq(Byte) /\ out'[3] = 4 /\ Len(out') = Length(c)
    BY <1>1, <1>4, <1>t, AnswerIs
  <2>2. Len(out') # 0
    BY <2>1 DEF Length
  <2> QED
    BY <2>1, <2>2, EmptySeq
<1>6. /\ chip'.rate = chip.rate /\ chip'.two = chip.two
      /\ chip'.next = CASE c.op = "baud" -> Decoded(c.arg) [] c.op = "launch" -> Base
                        [] c.op \notin {"baud", "launch"} -> 0
  BY <1>1, <1>2, <1>4, ExecutedIs
<1>7. TurnInv'
  BY <1>1, <1>3, <1>5, <1>6 DEF TurnInv
<1>8. ASSUME pc = "read" PROVE Answering'
  <2>1. Waiting
    BY <1>1, <1>8, <1>t DEF StepInv, Missed, Answering, Still
  <2>2. cmds = <<Doing>> /\ buf = <<>>
    BY <2>1, <1>t, StreamIs DEF Waiting
  <2>3. c = Doing
    BY <1>4, <2>2
  <2>4. Doing' = c
    BY <1>1, <2>3 DEF Doing, Piece, Command
  <2>5. Length(Doing)' = Length(c)
    BY <1>6, <2>4 DEF Length
  <2>6. Coming(Doing)' = CASE c.op = "baud" -> Decoded(c.arg) [] c.op = "launch" -> Base
                           [] c.op \notin {"baud", "launch"} -> rate
    BY <1>1, <2>4 DEF Coming
  <2>7. Stream' = out'
    <3>1. <<>> \o out' = out' /\ <<>> \o (<<>> \o out') = out'
      BY <1>5, ConcatEmptySeq
    <3> QED
      BY <1>1, <1>2, <2>2, <3>1 DEF Stream
  <2>8. chip'.next = IF Doing'.op \in {"baud", "launch"} THEN Coming(Doing)' ELSE 0
    BY <1>6, <2>4, <2>6
  <2> QED
    BY <1>1, <1>3, <1>5, <1>6, <2>4, <2>5, <2>7, <2>8 DEF Answering
<1>9. pc = "read" \/ pc = "parse" \/ (pc = "exited" /\ ~Running)
  BY <1>1, <1>t DEF StepInv, Still, Missed, Running, TypeInv, TypeOK
<1>10. Running' <=> Running
  BY <1>1 DEF Running
<1> QED
  BY <1>1, <1>7, <1>8, <1>9, <1>10, <1>t DEF StepInv

\* A starting chip misses the command: there is no answer to come.
LEMMA LoseStep ==
  ASSUME InStep, Lose
  PROVE  TurnInv' /\ StepInv'
<1>t. TypeInv /\ ArgInv /\ DownloadInv /\ Regular /\ TurnInv /\ StepInv
  BY DEF InStep
<1>1. /\ cmds # <<>> /\ out = <<>> /\ cmds' = Tail(cmds)
      /\ UNCHANGED <<pc, plan, pos, file, opt, code, buf, alarm, rate, out, rx, chip>>
  BY DEF Lose, args, work
<1>2. Len(cmds) = 1 /\ cmds \in Seq(KnownCmd) /\ chip.next = 0
  BY <1>1, <1>t DEF TurnInv, TypeInv, LineInv
<1>3. cmds' = <<>>
  <2>1. Tail(cmds) \in Seq(KnownCmd) /\ Len(Tail(cmds)) = 0
    BY <1>1, <1>2, HeadTailProperties
  <2> QED
    BY <1>1, <2>1, EmptySeq
<1>4. TurnInv'
  BY <1>1, <1>2, <1>3 DEF TurnInv
<1>5. ASSUME pc = "read" PROVE Missed'
  <2>1. Waiting
    BY <1>1, <1>5, <1>t DEF StepInv, Missed, Answering, Still
  <2> QED
    BY <1>1, <1>3, <2>1 DEF Waiting, Missed, Still, Stream
<1>6. pc = "read" \/ pc = "parse" \/ (pc = "exited" /\ ~Running)
  BY <1>1, <1>t DEF StepInv, Still, Missed, Running, TypeInv, TypeOK
<1>7. Running' <=> Running
  BY <1>1 DEF Running
<1> QED
  BY <1>1, <1>4, <1>5, <1>6, <1>7, <1>t DEF StepInv

LEMMA ArriveStep ==
  ASSUME InStep, Regular', Arrive
  PROVE  TurnInv' /\ StepInv'
<1>t. TypeInv /\ ArgInv /\ DownloadInv /\ Regular /\ TurnInv /\ StepInv
  BY DEF InStep
<1>1. /\ out # <<>> /\ out' = Tail(out)
      /\ chip' = IF Len(out) = 1 /\ chip.next # 0
                 THEN [chip EXCEPT !.rate = chip.next, !.next = 0] ELSE chip
      /\ UNCHANGED <<pc, plan, pos, file, opt, code, buf, alarm, rate, cmds>>
  BY DEF Arrive, args, work
<1>2. rate = chip.rate /\ cmds = <<>> /\ chip \in Chips
  BY <1>1, <1>t DEF TurnInv, TypeInv, TypeOK, Chips, Modes
<1>3. rx' = Append(rx, Head(out))
  BY <1>2 DEF Arrive
<1>4. Stream' = Stream /\ Len(rx') + Len(out') = Len(rx) + Len(out)
  BY <1>1, <1>3, <1>t, ArriveIs
<1>5. out \in Seq(Byte) /\ Len(out) \in Nat /\ Len(out) # 0
      /\ (out' = <<>> <=> Len(out) = 1)
  <2>1. out \in Seq(Byte) /\ Len(out) \in Nat /\ Len(out) # 0
    BY <1>1, <1>t, StreamIs
  <2>2. Tail(out) \in Seq(Byte) /\ Len(Tail(out)) = Len(out) - 1
    BY <1>1, <2>1, HeadTailProperties
  <2>3. Tail(out) = <<>> <=> Len(Tail(out)) = 0
    BY <2>2, EmptySeq
  <2> QED
    BY <1>1, <2>1, <2>2, <2>3
<1>6. /\ chip'.two = chip.two
      /\ out' # <<>> => chip'.rate = chip.rate /\ chip'.next = chip.next
      /\ out' = <<>> => /\ chip'.next = 0
                        /\ chip'.rate = IF chip.next # 0 THEN chip.next ELSE chip.rate
  <2>1. CASE Len(out) = 1 /\ chip.next # 0
    <3>1. chip' = [chip EXCEPT !.rate = chip.next, !.next = 0]
      BY <1>1, <2>1
    <3> QED
      BY <1>2, <1>5, <2>1, <3>1 DEF Chips
  <2>2. CASE ~(Len(out) = 1 /\ chip.next # 0)
    <3>1. chip' = chip
      BY <1>1, <2>2
    <3> QED
      BY <1>5, <2>2, <3>1
  <2> QED
    BY <2>1, <2>2
<1>7. TurnInv'
  BY <1>1, <1>2, <1>6 DEF TurnInv
<1>8. ASSUME pc = "read" PROVE Answering'
  <2>1. Answering
    BY <1>1, <1>8, <1>t, StreamIs DEF StepInv, Missed, Waiting, Still
  <2>2. Doing' = Doing
    BY <1>1 DEF Doing, Piece, Command
  <2>3. Length(Doing)' = Length(Doing) /\ Coming(Doing)' = Coming(Doing)
    BY <1>1, <1>6, <2>2 DEF Length, Coming
  <2>4. /\ chip.rate = rate
        /\ chip.next = IF Doing.op \in {"baud", "launch"} THEN Coming(Doing) ELSE 0
    BY <1>1, <2>1 DEF Answering
  <2>5. ASSUME out' = <<>> PROVE chip'.rate = Coming(Doing)
    <3>1. CASE Doing.op \in {"baud", "launch"}
      <4>1. Coming(Doing) # 0
        BY <1>8, <1>t, <3>1, ComingIs DEF baud_rates
      <4> QED
        BY <1>6, <2>4, <2>5, <3>1, <4>1
    <3>2. CASE Doing.op \notin {"baud", "launch"}
      <4>1. Coming(Doing) = rate
        BY <1>8, <1>t, <3>2, ComingIs
      <4> QED
        BY <1>6, <2>4, <2>5, <3>2, <4>1
    <3> QED
      BY <3>1, <3>2
  <2> QED
    BY <1>1, <1>2, <1>4, <1>6, <2>1, <2>2, <2>3, <2>4, <2>5 DEF Answering
<1>9. pc \in {"read", "two", "parse"} \/ (pc = "exited" /\ ~Running)
  <2>1. ~Still
    BY <1>1, <1>t, StreamIs DEF Still
  <2> QED
    BY <1>t, <2>1 DEF StepInv, Missed, Running, TypeInv, TypeOK
<1>10. Running' <=> Running
  BY <1>1 DEF Running
<1>11. ASSUME pc = "two"
       PROVE  /\ cmds' = <<>> /\ buf' = <<>> /\ Len(rx') + Len(out') = 2
              /\ Head(plan') = "minidriver" /\ chip'.next = 0 /\ rate' = chip'.rate /\ ~alarm'
  <2>1. /\ buf = <<>> /\ Len(rx) + Len(out) = 2
        /\ Head(plan) = "minidriver" /\ chip.next = 0 /\ ~alarm
    BY <1>11, <1>t DEF StepInv
  <2>2. chip'.next = 0 /\ chip'.rate = chip.rate
    BY <1>6, <2>1
  <2> QED
    BY <1>1, <1>2, <1>4, <2>1, <2>2
<1> QED
  BY <1>1, <1>7, <1>8, <1>9, <1>10, <1>11, <1>t DEF StepInv

LEMMA LockNext == TypeInv /\ LockInv /\ [Next]_vars => LockInv'
<1> SUFFICES ASSUME TypeInv, LockInv, [Next]_vars PROVE LockInv'
  OBVIOUS
<1>1. ArgInv' /\ DownloadInv'
  BY ArgNext, DownloadNext DEF LockInv
<1>2. ASSUME Regular' PROVE TurnInv' /\ StepInv'
  <2>1. Regular
    BY <1>2, KeptNext
  <2>2. InStep
    BY <2>1 DEF InStep, LockInv
  <2>t. TurnInv /\ StepInv /\ chip \in Chips
    BY <2>2 DEF InStep, TypeInv, TypeOK, Chips, Modes
  <2>3. CASE UNCHANGED vars \/ Boot
    <3>1. /\ UNCHANGED <<pc, plan, pos, file, opt, code, buf, alarm, rate, cmds, out, rx>>
          /\ chip'.rate = chip.rate /\ chip'.next = chip.next /\ chip'.two = chip.two
      <4>1. CASE UNCHANGED vars
        BY <4>1 DEF vars, args, work, line
      <4>2. CASE Boot
        <5>1. chip' = [chip EXCEPT !.up = TRUE]
              /\ UNCHANGED <<pc, plan, pos, file, opt, code, buf, alarm, rate, cmds, out, rx>>
          BY <4>2 DEF Boot, args, work, line
        <5> QED
          BY <2>t, <5>1 DEF Chips
      <4> QED
        BY <2>3, <4>1, <4>2
    <3>2. /\ Still' <=> Still
          /\ Missed' <=> Missed
          /\ Waiting' <=> Waiting
          /\ Answering' <=> Answering
          /\ Launched' <=> Launched
          /\ TurnInv' <=> TurnInv
      BY <3>1, WaitSame
    <3>3. Running' <=> Running
      BY <3>1 DEF Running
    <3> QED
      BY <2>t, <3>1, <3>2, <3>3 DEF StepInv
  <2>4. CASE ParseArg \/ NoUart \/ Restart
    BY <2>2, <2>4, ParseStep
  <2>5. CASE OpenUart
    BY <1>2, <2>2, <2>5, OpenStep
  <2>6. CASE \E op \in Simple : SendCmd(op)
    BY <2>2, <2>6, SendStep
  <2>7. CASE SendRecord
    BY <2>2, <2>7, RecordStep
  <2>8. CASE EndDownload \/ EnableHci \/ Exit
    BY <2>2, <2>8, EndStep
  <2>9. CASE ReadPart
    BY <2>2, <2>9, PartStep
  <2>10. CASE ReadLast
    BY <2>2, <2>10, LastStep
  <2>11. CASE Disarm
    BY <2>2, <2>11, DisarmStep
  <2>12. CASE ReadTwo
    BY <1>2, <2>2, <2>12, TwoStep
  <2>13. CASE Expire
    BY <2>2, <2>13, ExpireStep
  <2>14. CASE ExpireLate
    BY <1>2, <2>14 DEF ExpireLate, Regular
  <2>15. CASE Take
    BY <2>2, <2>15, TakeStep
  <2>16. CASE Refuse
    BY <1>2, <2>16 DEF Refuse, Regular
  <2>17. CASE Ignore
    BY <2>t, <2>17 DEF Ignore, Listens, TurnInv
  <2>18. CASE Lose
    BY <2>2, <2>18, LoseStep
  <2>19. CASE Arrive
    BY <1>2, <2>2, <2>19, ArriveStep
  <2> QED
    BY <2>3, <2>4, <2>5, <2>6, <2>7, <2>8, <2>9, <2>10, <2>11, <2>12, <2>13, <2>14,
       <2>15, <2>16, <2>17, <2>18, <2>19
    DEF Next, Program, Chip
<1> QED
  BY <1>1, <1>2 DEF LockInv

LEMMA LockInit == Init => LockInv
<1> SUFFICES ASSUME Init PROVE LockInv
  OBVIOUS
<1>1. /\ pc = "parse" /\ ~alarm /\ cmds = <<>> /\ out = <<>> /\ chip.next = 0
  BY DEF Init
<1> QED
  BY <1>1, ArgInit, DownloadInit DEF LockInv, TurnInv, StepInv

LEMMA LockInductive == Spec => [](TypeInv /\ LockInv)
<1>1. Init => TypeInv /\ LockInv
  BY TypeInit, LockInit
<1>2. (TypeInv /\ LockInv) /\ [Next]_vars => (TypeInv /\ LockInv)'
  BY TypeNext, LockNext
<1> QED
  BY <1>1, <1>2, PTL DEF Spec

\* The program and the chip stay in step, whatever the command line, the file and
\* the chip's missing of commands while it starts: nothing is under way when a
\* command is sent (hci_send_cmd, l.601, and read_event, l.573), and both ends have
\* the same rate whenever something is (proc_patchram, l.662, proc_baudrate, l.671).
THEOREM StaysInStep == Spec => []LockStep
<1>1. TypeInv /\ LockInv => LockStep
  <2> SUFFICES ASSUME TypeInv, LockInv, Regular
               PROVE  /\ pc \in {"send", "asleep"} => cmds = <<>> /\ out = <<>> /\ rx = <<>>
                      /\ cmds # <<>> \/ out # <<>> => rate = chip.rate
    BY DEF LockStep, Regular
  <2>1. TurnInv /\ StepInv
    BY DEF LockInv
  <2>2. pc \in {"send", "asleep"} => Still
    BY <2>1 DEF StepInv, Missed, Running
  <2> QED
    BY <2>1, <2>2, StillIs DEF TurnInv
<1> QED
  BY <1>1, LockInductive, PTL

----------------------------------------------------------------------------
(* As the command line asks.                                               *)

\* What was asked for so far, whole: with the last rate, and an address that can
\* be read if all can.
AskInv ==
  /\ opt.lpm <=> SoFar("enable_lpm")
  /\ opt.sco <=> SoFar("scopcm")
  /\ opt.i2s <=> SoFar("i2s")
  /\ opt.hci <=> SoFar("enable_hci")
  /\ opt.addr = "none" <=> ~SoFar("bd_addr")
  /\ Sound => opt.addr # "junk"
  /\ opt.rate = 0 <=> ~SoFar("baudrate")
  /\ opt.rate # 0 =>
       \E i \in 1..(argi - 1) :
         /\ argv[i].opt = "baudrate" /\ argv[i].val = opt.rate
         /\ \A j \in (i + 1)..(argi - 1) : argv[j].opt # "baudrate"

SetSteps == {"addr", "lpm", "sco", "pcm", "i2s"}
Wants(o, x) == \/ x = "addr" /\ o.addr # "none"
               \/ x = "lpm" /\ o.lpm
               \/ x \in {"sco", "pcm"} /\ o.sco
               \/ x = "i2s" /\ o.i2s

Followed(s, x, y) == \A i \in 1..Len(s) : s[i] = x => \E j \in (i + 1)..Len(s) : s[j] = y

\* The order of the steps as far as the chip's memory and settings depend on it:
\* the records come right after the minidriver, a reset and the rate after them,
\* and all the settings after a reset.
SettingsOrder(o, s) ==
  /\ \A x \in SetSteps : Has(s, x) => Wants(o, x)
  /\ \A i \in 2..Len(s) : s[i] = "record" => s[i - 1] = "minidriver"
  /\ Followed(s, "minidriver", "record") /\ Followed(s, "record", "reset")
  /\ o.rate # 0 => Followed(s, "record", "baud")
  /\ \A x \in SetSteps : Wants(o, x) => Followed(s, "reset", x)
  /\ \A i \in 1..Len(s) : s[i] = "hci" => i = Len(s)

PlanOrder ==
  /\ SettingsOrder(opt, plan)
  /\ pc \in {"read", "disarm", "two"} => Head(plan) # "hci"
  /\ pc \in {"send", "read", "disarm", "two"} => (opt.hci <=> Has(plan, "hci"))
  /\ pc = "asleep" => opt.hci
  /\ pc = "exited" /\ Running => ~opt.hci
  /\ pc \in {"asleep", "exited"} /\ Running => plan = <<>>

\* What of the steps, and how much of the file, the chip has yet to execute.
Took == pc \in {"disarm", "two"} \/ (pc = "read" /\ Stream # <<>>)
Rest == IF Took /\ Head(plan) # "record" THEN Tail(plan) ELSE plan
Done == IF pc = "read" /\ Stream = <<>> THEN pos - 2 ELSE pos - 1
AtRecord == Rest # <<>> /\ Head(Rest) = "record"

RateInv ==
  /\ opt.rate = 0 => rate = Base
  /\ opt.rate # 0 /\ ~Has(plan, "baud") => rate = opt.rate
ModeInv ==
  opt.patch =>
    /\ AtRecord => IF Done <= Records THEN chip.mode = "loader" /\ chip.ram = 1..Done
                                      ELSE chip.mode = "patched"
    /\ ~Has(Rest, "record") => chip.mode = "patched"
SetInv ==
  Sound /\ ~Has(Rest, "reset") =>
    /\ \A x \in chip.set : x = "clock" \/ (x \in SetSteps /\ Wants(opt, x))
    /\ \A x \in SetSteps : Wants(opt, x) /\ ~Has(Rest, x) => x \in chip.set

ConfInv == AskInv /\ PlanOrder /\ (Regular /\ Running => RateInv /\ ModeInv /\ SetInv)

LEMMA HasTail ==
  ASSUME NEW s \in Seq(PlanStep), s # <<>>, NEW x
  PROVE  Has(s, x) <=> (Head(s) = x \/ Has(Tail(s), x))
<1>1. /\ Len(s) \in Nat \ {0} /\ Len(Tail(s)) = Len(s) - 1 /\ Head(s) = s[1]
      /\ \A i \in 1..Len(Tail(s)) : Tail(s)[i] = s[i + 1]
  BY TailIs
<1>2. ASSUME Has(s, x) PROVE Head(s) = x \/ Has(Tail(s), x)
  <2>1. PICK i \in 1..Len(s) : s[i] = x
    BY <1>2 DEF Has
  <2>2. i = 1 \/ (i - 1 \in 1..Len(Tail(s)) /\ Tail(s)[i - 1] = x)
    BY <1>1, <2>1
  <2> QED
    BY <1>1, <2>1, <2>2 DEF Has
<1>3. ASSUME Head(s) = x \/ Has(Tail(s), x) PROVE Has(s, x)
  <2>1. CASE Head(s) = x
    <3>1. 1 \in 1..Len(s) /\ s[1] = x
      BY <1>1, <2>1
    <3> QED
      BY <3>1 DEF Has
  <2>2. CASE Has(Tail(s), x)
    <3>1. PICK i \in 1..Len(Tail(s)) : Tail(s)[i] = x
      BY <2>2 DEF Has
    <3>2. i + 1 \in 1..Len(s) /\ s[i + 1] = x
      BY <1>1, <3>1
    <3> QED
      BY <3>2 DEF Has
  <2> QED
    BY <1>3, <2>1, <2>2
<1> QED
  BY <1>2, <1>3

LEMMA FollowedTail ==
  ASSUME NEW s \in Seq(PlanStep), s # <<>>, NEW x, NEW y, Followed(s, x, y)
  PROVE  Followed(Tail(s), x, y) /\ (Head(s) = x => Has(Tail(s), y))
<1> DEFINE t == Tail(s)
           n == Len(s)
<1>1. /\ n \in Nat \ {0} /\ Len(t) = n - 1 /\ Head(s) = s[1]
      /\ \A i \in 1..n - 1 : i + 1 \in 1..n /\ t[i] = s[i + 1]
  BY TailIs
<1>0. \A i \in 1..n : s[i] = x => \E j \in (i + 1)..n : s[j] = y
  BY DEF Followed
<1> HIDE DEF t, n
<1>2. \A j \in 2..n : j - 1 \in 1..n - 1 /\ t[j - 1] = s[j]
  <2> TAKE j \in 2..n
  <2>1. j - 1 \in 1..n - 1 /\ (j - 1) + 1 = j
    BY <1>1
  <2>2. t[j - 1] = s[(j - 1) + 1]
    BY <1>1, <2>1
  <2> QED
    BY <2>1, <2>2
<1>3. Followed(t, x, y)
  <2> SUFFICES ASSUME NEW i \in 1..n - 1, t[i] = x
               PROVE  \E j \in (i + 1)..n - 1 : t[j] = y
    BY <1>1 DEF Followed
  <2>1. PICK j \in ((i + 1) + 1)..n : s[j] = y
    BY <1>0, <1>1
  <2>2. j \in 2..n /\ j - 1 \in (i + 1)..n - 1
    BY <1>1, <2>1
  <2>3. t[j - 1] = y
    BY <1>2, <2>1, <2>2
  <2> QED
    BY <2>2, <2>3
<1>4. ASSUME Head(s) = x PROVE Has(t, y)
  <2>1. PICK j \in (1 + 1)..n : s[j] = y
    BY <1>0, <1>1, <1>4
  <2>2. j \in 2..n
    BY <1>1, <2>1
  <2>3. j - 1 \in 1..Len(t) /\ t[j - 1] = y
    BY <1>1, <1>2, <2>1, <2>2
  <2> QED
    BY <2>3 DEF Has
<1> QED
  BY <1>3, <1>4 DEF t

LEMMA SettingsTail ==
  ASSUME NEW o, NEW s \in Seq(PlanStep), s # <<>>, SettingsOrder(o, s)
  PROVE  /\ SettingsOrder(o, Tail(s))
         /\ Tail(s) # <<>> /\ Head(Tail(s)) = "record" => Head(s) = "minidriver"
         /\ Head(s) = "hci" => Tail(s) = <<>>
<1> DEFINE t == Tail(s)
           n == Len(s)
<1>1. /\ t \in Seq(PlanStep) /\ n \in Nat \ {0} /\ Len(t) = n - 1 /\ Head(s) = s[1]
      /\ \A i \in 1..n - 1 : i + 1 \in 1..n /\ t[i] = s[i + 1]
  BY TailIs
<1>h. t # <<>> => Head(t) = t[1] /\ 1 \in 1..n - 1
  BY <1>1, TailIs
<1>e. t = <<>> <=> n = 1
  <2>1. t = <<>> <=> Len(t) = 0
    BY <1>1, EmptySeq
  <2> QED
    BY <1>1, <2>1
<1> HIDE DEF t, n
<1>2. \A x \in SetSteps : Has(t, x) => Wants(o, x)
  BY HasTail DEF SettingsOrder, t
<1>3. \A i \in 2..n : s[i] = "record" => s[i - 1] = "minidriver"
  BY DEF SettingsOrder, n
<1>4. \A i \in 2..Len(t) : t[i] = "record" => t[i - 1] = "minidriver"
  <2> SUFFICES ASSUME NEW i \in 2..n - 1, t[i] = "record"
               PROVE  t[i - 1] = "minidriver"
    BY <1>1
  <2>1. i + 1 \in 2..n /\ s[i + 1] = "record" /\ i \in 1..n /\ i - 1 \in 1..n - 1
    BY <1>1
  <2>2. s[(i + 1) - 1] = "minidriver"
    BY <1>3, <2>1
  <2> QED
    BY <1>1, <2>1, <2>2
<1>5. /\ Followed(t, "minidriver", "record") /\ Followed(t, "record", "reset")
      /\ o.rate # 0 => Followed(t, "record", "baud")
      /\ \A x \in SetSteps : Wants(o, x) => Followed(t, "reset", x)
  BY FollowedTail DEF SettingsOrder, t
<1>6. \A i \in 1..n : s[i] = "hci" => i = n
  BY DEF SettingsOrder, n
<1>7. \A i \in 1..Len(t) : t[i] = "hci" => i = Len(t)
  <2> SUFFICES ASSUME NEW i \in 1..n - 1, t[i] = "hci" PROVE i = n - 1
    BY <1>1
  <2>1. i + 1 = n
    BY <1>1, <1>6
  <2> QED
    BY <1>1, <2>1
<1>8. t # <<>> /\ Head(t) = "record" => Head(s) = "minidriver"
  <2> SUFFICES ASSUME t # <<>>, Head(t) = "record" PROVE s[1] = "minidriver"
    BY <1>1
  <2>1. s[2] = "record" /\ 2 \in 2..n
    BY <1>1, <1>h
  <2>2. s[2 - 1] = "minidriver"
    BY <1>3, <2>1
  <2> QED
    BY <2>2
<1>9. Head(s) = "hci" => t = <<>>
  <2> SUFFICES ASSUME s[1] = "hci" PROVE n = 1
    BY <1>1, <1>e
  <2>1. 1 \in 1..n
    BY <1>1
  <2> QED
    BY <1>6, <2>1
<1>10. SettingsOrder(o, t)
  BY <1>2, <1>4, <1>5, <1>7 DEF SettingsOrder
<1> QED
  BY <1>8, <1>9, <1>10 DEF t

\* Two sequences of steps put together.
LEMMA HasConcat ==
  ASSUME NEW s \in Seq(PlanStep), NEW t \in Seq(PlanStep), NEW x
  PROVE  Has(s \o t, x) <=> (Has(s, x) \/ Has(t, x))
<1> DEFINE m == Len(s)
           k == Len(t)
           u == s \o t
<1>1. /\ m \in Nat /\ k \in Nat /\ Len(u) = m + k
      /\ \A i \in 1..m + k : u[i] = IF i <= m THEN s[i] ELSE t[i - m]
  BY ConcatProperties, LenProperties
<1> HIDE DEF m, k, u
<1>2. ASSUME NEW i \in 1..m, s[i] = x PROVE Has(u, x)
  <2>1. i \in 1..Len(u) /\ u[i] = x
    BY <1>1, <1>2
  <2> QED
    BY <2>1 DEF Has
<1>3. ASSUME NEW i \in 1..k, t[i] = x PROVE Has(u, x)
  <2>1. i + m \in 1..Len(u) /\ ~(i + m <= m) /\ (i + m) - m = i
    BY <1>1
  <2>2. u[i + m] = x
    BY <1>1, <1>3, <2>1
  <2> QED
    BY <2>1, <2>2 DEF Has
<1>4. ASSUME NEW i \in 1..Len(u), u[i] = x PROVE Has(s, x) \/ Has(t, x)
  <2>1. (i \in 1..m /\ s[i] = x) \/ (i - m \in 1..k /\ t[i - m] = x)
    BY <1>1, <1>4
  <2> QED
    BY <2>1 DEF Has, m, k
<1>5. Has(s, x) => Has(u, x)
  BY <1>2 DEF Has, m
<1>6. Has(t, x) => Has(u, x)
  BY <1>3 DEF Has, k
<1>7. Has(u, x) => Has(s, x) \/ Has(t, x)
  BY <1>4 DEF Has
<1> QED
  BY <1>5, <1>6, <1>7 DEF u

LEMMA FollowedConcat ==
  ASSUME NEW s \in Seq(PlanStep), NEW t \in Seq(PlanStep), NEW x, NEW y,
         ~Has(s, x) \/ Has(t, y) \/ Followed(s, x, y), ~Has(t, x) \/ Followed(t, x, y)
  PROVE  Followed(s \o t, x, y)
<1> DEFINE m == Len(s)
           k == Len(t)
           u == s \o t
<1>1. /\ m \in Nat /\ k \in Nat /\ Len(u) = m + k
      /\ \A i \in 1..m + k : u[i] = IF i <= m THEN s[i] ELSE t[i - m]
  BY ConcatProperties, LenProperties
<1>2. (\A i \in 1..m : s[i] # x) \/ (\E j \in 1..k : t[j] = y)
      \/ (\A i \in 1..m : s[i] = x => \E j \in (i + 1)..m : s[j] = y)
  BY DEF Has, Followed
<1>3. \A i \in 1..k : t[i] = x => \E j \in (i + 1)..k : t[j] = y
  BY DEF Has, Followed
<1> HIDE DEF m, k, u
<1> SUFFICES ASSUME NEW i \in 1..m + k, u[i] = x
             PROVE  \E j \in (i + 1)..m + k : u[j] = y
  BY <1>1 DEF Followed, u
<1>a. \A j \in 1..k : j + m \in 1..m + k /\ u[j + m] = t[j]
  <2> TAKE j \in 1..k
  <2>1. j + m \in 1..m + k /\ ~(j + m <= m) /\ (j + m) - m = j
    BY <1>1
  <2> QED
    BY <1>1, <2>1
<1>4. CASE i <= m
  <2>1. i \in 1..m /\ s[i] = x
    BY <1>1, <1>4
  <2>2. CASE \E j \in 1..k : t[j] = y
    <3>1. PICK j \in 1..k : t[j] = y
      BY <2>2
    <3>2. j + m \in (i + 1)..m + k /\ u[j + m] = y
      BY <1>1, <1>a, <2>1, <3>1
    <3> QED
      BY <3>2
  <2>3. CASE \E j \in (i + 1)..m : s[j] = y
    <3>1. PICK j \in (i + 1)..m : s[j] = y
      BY <2>3
    <3>2. j \in (i + 1)..m + k /\ j \in 1..m + k /\ j <= m
      BY <1>1, <2>1, <3>1
    <3>3. u[j] = y
      BY <1>1, <3>1, <3>2
    <3> QED
      BY <3>2, <3>3
  <2> QED
    BY <1>2, <2>1, <2>2, <2>3
<1>5. CASE ~(i <= m)
  <2>1. i - m \in 1..k /\ t[i - m] = x
    BY <1>1, <1>5
  <2>2. PICK j \in ((i - m) + 1)..k : t[j] = y
    BY <1>3, <2>1
  <2>3. j \in 1..k /\ j + m \in (i + 1)..m + k
    BY <1>1, <2>1, <2>2
  <2>4. u[j + m] = y
    BY <1>a, <2>2, <2>3
  <2> QED
    BY <2>3, <2>4
<1> QED
  BY <1>4, <1>5

\* The steps of a part are some of these.
LEMMA HasOnly ==
  ASSUME NEW A, NEW s \in Seq(A), NEW x, Has(s, x)
  PROVE  x \in A
BY ElementOfSeq DEF Has

LEMMA HasIf ==
  ASSUME NEW b \in BOOLEAN, NEW s, NEW x
  PROVE  Has(If(b, s), x) <=> (b /\ Has(s, x))
<1>1. ~Has(<<>>, x)
  BY EmptySeq DEF Has
<1> QED
  BY <1>1 DEF If

LEMMA IfType ==
  ASSUME NEW A, NEW b \in BOOLEAN, NEW s \in Seq(A)
  PROVE  If(b, s) \in Seq(A)
BY EmptySeq DEF If

\* The settings are those that are wanted.
LEMMA SetIs ==
  ASSUME NEW o \in Opts
  PROVE  Set(o) \in Seq(SetSteps) /\ \A x \in SetSteps : Has(Set(o), x) <=> Wants(o, x)
<1> DEFINE addr == If(o.addr # "none", <<"addr">>)
           lpm  == If(o.lpm, <<"lpm">>)
           sco  == If(o.sco, <<"sco", "pcm">>)
           i2s  == If(o.i2s, <<"i2s">>)
<1>t. o.lpm \in BOOLEAN /\ o.sco \in BOOLEAN /\ o.i2s \in BOOLEAN
  BY DEF Opts
<1>s. SetSteps \subseteq PlanStep
  BY DEF SetSteps, PlanStep, Ops, Simple
<1>1. /\ <<"addr">> \in Seq(SetSteps) /\ <<"lpm">> \in Seq(SetSteps)
      /\ <<"sco", "pcm">> \in Seq(SetSteps) /\ <<"i2s">> \in Seq(SetSteps)
  BY DEF SetSteps
<1>2. /\ addr \in Seq(SetSteps) /\ lpm \in Seq(SetSteps)
      /\ sco \in Seq(SetSteps) /\ i2s \in Seq(SetSteps)
  BY <1>1, <1>t, IfType
<1>3. \A y : \A x : Has(<<y>>, x) <=> x = y
  BY DEF Has
<1>4. \A x : Has(<<"sco", "pcm">>, x) <=> x \in {"sco", "pcm"}
  BY DEF Has
<1>5. \A x : /\ Has(addr, x) <=> (o.addr # "none" /\ x = "addr")
             /\ Has(lpm, x) <=> (o.lpm /\ x = "lpm")
             /\ Has(sco, x) <=> (o.sco /\ x \in {"sco", "pcm"})
             /\ Has(i2s, x) <=> (o.i2s /\ x = "i2s")
  <2>1. \A x : Has(addr, x) <=> (o.addr # "none" /\ Has(<<"addr">>, x))
    BY HasIf
  <2>2. \A x : Has(lpm, x) <=> (o.lpm /\ Has(<<"lpm">>, x))
    BY <1>t, HasIf
  <2>3. \A x : Has(sco, x) <=> (o.sco /\ Has(<<"sco", "pcm">>, x))
    BY <1>t, HasIf
  <2>4. \A x : Has(i2s, x) <=> (o.i2s /\ Has(<<"i2s">>, x))
    BY <1>t, HasIf
  <2> HIDE DEF addr, lpm, sco, i2s
  <2> QED
    BY <1>3, <1>4, <2>1, <2>2, <2>3, <2>4
<1> HIDE DEF addr, lpm, sco, i2s
<1>6. \A s, t \in Seq(SetSteps) :
        /\ s \o t \in Seq(SetSteps)
        /\ \A x : Has(s \o t, x) <=> (Has(s, x) \/ Has(t, x))
  <2> TAKE s \in Seq(SetSteps), t \in Seq(SetSteps)
  <2>1. s \in Seq(PlanStep) /\ t \in Seq(PlanStep)
    BY <1>s, SeqMonotonic
  <2> QED
    BY <2>1, ConcatProperties, HasConcat
<1> DEFINE s2 == addr \o lpm
           s3 == s2 \o sco
<1>7. s2 \in Seq(SetSteps) /\ \A x : Has(s2, x) <=> (Has(addr, x) \/ Has(lpm, x))
  BY <1>2, <1>6
<1> HIDE DEF s2
<1>8. s3 \in Seq(SetSteps) /\ \A x : Has(s3, x) <=> (Has(s2, x) \/ Has(sco, x))
  BY <1>2, <1>6, <1>7
<1> HIDE DEF s3
<1>9. /\ s3 \o i2s \in Seq(SetSteps)
      /\ \A x : Has(s3 \o i2s, x) <=> (Has(s3, x) \/ Has(i2s, x))
  BY <1>2, <1>6, <1>8
<1>10. Set(o) = s3 \o i2s
  BY DEF Set, s3, s2, addr, lpm, sco, i2s
<1>11. \A x \in SetSteps : Has(s3 \o i2s, x) <=> Wants(o, x)
  BY <1>5, <1>7, <1>8, <1>9 DEF Wants
<1> QED
  BY <1>9, <1>10, <1>11

\* The records come right after the minidriver.
Preceded(s) == \A i \in 2..Len(s) : s[i] = "record" => s[i - 1] = "minidriver"

LEMMA PrecededConcat ==
  ASSUME NEW s \in Seq(PlanStep), NEW t \in Seq(PlanStep), Preceded(s), Preceded(t),
         Len(t) > 0 => t[1] # "record"
  PROVE  Preceded(s \o t)
<1> DEFINE m == Len(s)
           k == Len(t)
           u == s \o t
<1>1. /\ m \in Nat /\ k \in Nat /\ Len(u) = m + k
      /\ \A i \in 1..m + k : u[i] = IF i <= m THEN s[i] ELSE t[i - m]
  BY ConcatProperties, LenProperties
<1>2. /\ \A i \in 2..m : s[i] = "record" => s[i - 1] = "minidriver"
      /\ \A i \in 2..k : t[i] = "record" => t[i - 1] = "minidriver"
      /\ k > 0 => t[1] # "record"
  BY DEF Preceded
<1> HIDE DEF m, k, u
<1> SUFFICES ASSUME NEW i \in 2..m + k, u[i] = "record" PROVE u[i - 1] = "minidriver"
  BY <1>1 DEF Preceded, u
<1>3. CASE i <= m
  <2>1. i \in 2..m /\ i \in 1..m + k /\ i - 1 \in 1..m + k /\ i - 1 <= m
    BY <1>1, <1>3
  <2>2. u[i] = s[i] /\ u[i - 1] = s[i - 1]
    BY <1>1, <1>3, <2>1
  <2> QED
    BY <1>2, <2>1, <2>2
<1>4. CASE ~(i <= m)
  <2>1. i - m \in 1..k /\ i \in 1..m + k /\ k > 0
    BY <1>1, <1>4
  <2>2. t[i - m] = "record"
    BY <1>1, <1>4, <2>1
  <2>3. i - m # 1
    BY <1>2, <2>1, <2>2
  <2>4. i - m \in 2..k /\ i - 1 \in 1..m + k /\ ~(i - 1 <= m) /\ (i - 1) - m = (i - m) - 1
    BY <1>1, <2>1, <2>3
  <2>5. t[(i - m) - 1] = "minidriver"
    BY <1>2, <2>2, <2>4
  <2> QED
    BY <1>1, <2>4, <2>5
<1> QED
  BY <1>3, <1>4

LEMMA StepsSettings ==
  ASSUME NEW o \in Opts
  PROVE  /\ SettingsOrder(o, Steps(o))
         /\ Has(Steps(o), "reset")
         /\ o.patch => Has(Steps(o), "record")
         /\ o.rate # 0 => Has(Steps(o), "baud")
         /\ Has(Steps(o), "hci") <=> o.hci
         /\ Len(Steps(o)) > 0 /\ Steps(o)[1] # "record"
<1>t. /\ o.rate \in Nat /\ (o.rate # 0) \in BOOLEAN /\ (o.early /\ o.rate # 0) \in BOOLEAN
      /\ o.early \in BOOLEAN /\ o.patch \in BOOLEAN /\ o.hci \in BOOLEAN
  BY DEF Opts, baud_rates
<1> DEFINE Rates == {"clock", "baud"}
           early == If(o.early /\ o.rate # 0, Baud(o))
           first == <<"reset">> \o early
           down  == Download(o)
           late  == If(o.rate # 0, Baud(o))
           set   == Set(o)
           hci   == If(o.hci, <<"hci">>)
<1>1. Baud(o) \in Seq(Rates) /\ Has(Baud(o), "baud")
  <2> DEFINE fast  == o.rate > 3000000
             clock == If(fast, <<"clock">>)
  <2>1. Baud(o) = clock \o <<"baud">> /\ fast \in BOOLEAN
    BY SMT DEF Baud
  <2> HIDE DEF fast
  <2>2. <<"clock">> \in Seq(Rates) /\ <<"baud">> \in Seq(Rates) /\ Has(<<"baud">>, "baud")
    BY DEF Has
  <2>3. clock \in Seq(Rates)
    BY <2>1, <2>2, IfType
  <2>4. Rates \subseteq PlanStep
    BY DEF PlanStep, Ops, Simple
  <2>5. clock \in Seq(PlanStep) /\ <<"baud">> \in Seq(PlanStep)
    BY <2>2, <2>3, <2>4, SeqMonotonic
  <2> HIDE DEF clock
  <2> QED
    BY <2>1, <2>2, <2>3, <2>5, ConcatProperties, HasConcat
<1>2. late \in Seq(Rates) /\ early \in Seq(Rates) /\ (o.rate # 0 => Has(late, "baud"))
  BY <1>t, <1>1, IfType, HasIf
<1>3. first \in Seq({"reset", "clock", "baud"}) /\ Has(first, "reset")
  <2>1. <<"reset">> \in Seq({"reset", "clock", "baud"}) /\ Has(<<"reset">>, "reset")
    BY DEF Has
  <2>2. {"reset", "clock", "baud"} \subseteq PlanStep
    BY DEF PlanStep, Ops, Simple
  <2>3. Rates \subseteq {"reset", "clock", "baud"}
    OBVIOUS
  <2>4. early \in Seq({"reset", "clock", "baud"})
    BY <1>2, <2>3, SeqMonotonic
  <2>5. <<"reset">> \in Seq(PlanStep) /\ early \in Seq(PlanStep)
    BY <2>1, <2>2, <2>4, SeqMonotonic
  <2> HIDE DEF early
  <2> QED
    BY <2>1, <2>4, <2>5, ConcatProperties, HasConcat
<1>4. /\ down \in Seq({"minidriver", "record", "reset"})
      /\ Followed(down, "minidriver", "record") /\ Followed(down, "record", "reset")
      /\ Preceded(down) /\ (Len(down) > 0 => down[1] # "record")
      /\ o.patch => Has(down, "record")
  <2>1. CASE o.patch
    <3>1. down = <<"minidriver", "record", "reset">>
      BY <2>1 DEF Download, If
    <3> HIDE DEF down
    <3>2. /\ Len(down) = 3 /\ down[1] = "minidriver" /\ down[2] = "record" /\ down[3] = "reset"
          /\ down \in Seq({"minidriver", "record", "reset"})
      BY <3>1
    <3>3. Followed(down, "minidriver", "record")
      <4> SUFFICES ASSUME NEW i \in 1..3, down[i] = "minidriver"
                   PROVE  \E j \in (i + 1)..3 : down[j] = "record"
        BY <3>2 DEF Followed
      <4>1. i = 1 /\ 2 \in (i + 1)..3
        BY <3>2
      <4> QED
        BY <3>2, <4>1
    <3>4. Followed(down, "record", "reset")
      <4> SUFFICES ASSUME NEW i \in 1..3, down[i] = "record"
                   PROVE  \E j \in (i + 1)..3 : down[j] = "reset"
        BY <3>2 DEF Followed
      <4>1. i = 2 /\ 3 \in (i + 1)..3
        BY <3>2
      <4> QED
        BY <3>2, <4>1
    <3>5. Preceded(down)
      BY <3>2 DEF Preceded
    <3>6. Has(down, "record")
      BY <3>2 DEF Has
    <3> QED
      BY <3>2, <3>3, <3>4, <3>5, <3>6
  <2>2. CASE ~o.patch
    <3>1. down = <<>>
      BY <2>2 DEF Download, If
    <3> HIDE DEF down
    <3>2. Len(down) = 0 /\ down \in Seq({"minidriver", "record", "reset"})
      BY <3>1, EmptySeq
    <3> QED
      BY <2>2, <3>2 DEF Followed, Preceded
  <2> QED
    BY <1>t, <2>1, <2>2
<1>5. set \in Seq(SetSteps) /\ \A x \in SetSteps : Has(set, x) <=> Wants(o, x)
  BY SetIs
<1>6. hci \in Seq({"hci"}) /\ Len(hci) \in {0, 1} /\ (Has(hci, "hci") <=> o.hci)
  <2>1. <<"hci">> \in Seq({"hci"}) /\ Has(<<"hci">>, "hci") /\ Len(<<"hci">>) = 1
    BY DEF Has
  <2>2. Len(hci) \in {0, 1}
    BY <2>1, EmptySeq DEF If
  <2> QED
    BY <1>t, <2>1, <2>2, IfType, HasIf
<1> DEFINE s2 == first \o down
           s3 == s2 \o late
           s4 == s3 \o set
           s5 == s4 \o hci
<1>7. Steps(o) = s5
  BY DEF Steps
<1>8. /\ \A x : Has(first, x) => x \in {"reset", "clock", "baud"}
      /\ \A x : Has(down, x) => x \in {"minidriver", "record", "reset"}
      /\ \A x : Has(late, x) => x \in Rates
      /\ \A x : Has(set, x) => x \in SetSteps
      /\ \A x : Has(hci, x) => x = "hci"
  <2>1. \A x : Has(first, x) => x \in {"reset", "clock", "baud"}
    BY <1>3, HasOnly
  <2>2. \A x : Has(down, x) => x \in {"minidriver", "record", "reset"}
    BY <1>4, HasOnly
  <2>3. \A x : Has(late, x) => x \in Rates
    BY <1>2, HasOnly
  <2>4. \A x : Has(set, x) => x \in SetSteps
    BY <1>5, HasOnly
  <2>5. \A x : Has(hci, x) => x = "hci"
    BY <1>6, HasOnly
  <2> QED
    BY <2>1, <2>2, <2>3, <2>4, <2>5
<1> HIDE DEF early, first, down, late, set, hci
<1>9. /\ first \in Seq(PlanStep) /\ down \in Seq(PlanStep) /\ late \in Seq(PlanStep)
      /\ set \in Seq(PlanStep) /\ hci \in Seq(PlanStep)
  <2>1. /\ {"reset", "clock", "baud"} \subseteq PlanStep
        /\ {"minidriver", "record", "reset"} \subseteq PlanStep
        /\ Rates \subseteq PlanStep /\ SetSteps \subseteq PlanStep /\ {"hci"} \subseteq PlanStep
    BY DEF PlanStep, Ops, Simple, SetSteps
  <2> QED
    BY <1>2, <1>3, <1>4, <1>5, <1>6, <2>1, SeqMonotonic
<1>10. /\ s2 \in Seq(PlanStep) /\ s3 \in Seq(PlanStep) /\ s4 \in Seq(PlanStep)
       /\ s5 \in Seq(PlanStep)
  BY <1>9, ConcatIs
<1>11. \A x : /\ Has(s2, x) <=> (Has(first, x) \/ Has(down, x))
              /\ Has(s3, x) <=> (Has(s2, x) \/ Has(late, x))
              /\ Has(s4, x) <=> (Has(s3, x) \/ Has(set, x))
              /\ Has(s5, x) <=> (Has(s4, x) \/ Has(hci, x))
  BY <1>9, <1>10, HasConcat
<1>12. ASSUME NEW x \in {"minidriver", "record"}, NEW y, Followed(down, x, y)
       PROVE  Followed(s5, x, y)
  <2>1. ~Has(first, x) /\ ~Has(late, x) /\ ~Has(set, x) /\ ~Has(hci, x)
    BY <1>8 DEF SetSteps
  <2>2. Followed(s2, x, y)
    BY <1>9, <1>12, <2>1, FollowedConcat
  <2>3. Followed(s3, x, y)
    BY <1>9, <1>10, <2>1, <2>2, FollowedConcat
  <2>4. Followed(s4, x, y)
    BY <1>9, <1>10, <2>1, <2>3, FollowedConcat
  <2> QED
    BY <1>9, <1>10, <2>1, <2>4, FollowedConcat
<1>13. o.rate # 0 => Followed(s5, "record", "baud")
  <2> SUFFICES ASSUME o.rate # 0 PROVE Followed(s5, "record", "baud")
    OBVIOUS
  <2>1. ~Has(late, "record") /\ ~Has(set, "record") /\ ~Has(hci, "record")
    BY <1>8 DEF SetSteps
  <2>2. Followed(s3, "record", "baud")
    BY <1>2, <1>9, <1>10, <2>1, FollowedConcat
  <2>3. Followed(s4, "record", "baud")
    BY <1>9, <1>10, <2>1, <2>2, FollowedConcat
  <2> QED
    BY <1>9, <1>10, <2>1, <2>3, FollowedConcat
<1>14. \A x \in SetSteps : Wants(o, x) => Followed(s5, "reset", x)
  <2> SUFFICES ASSUME NEW x \in SetSteps, Wants(o, x) PROVE Followed(s5, "reset", x)
    OBVIOUS
  <2>1. ~Has(set, "reset") /\ ~Has(hci, "reset") /\ Has(set, x)
    BY <1>5, <1>8 DEF SetSteps
  <2>2. Followed(s4, "reset", x)
    BY <1>9, <1>10, <2>1, FollowedConcat
  <2> QED
    BY <1>9, <1>10, <2>1, <2>2, FollowedConcat
<1>15. \A x \in SetSteps : Has(s5, x) => Wants(o, x)
  <2> SUFFICES ASSUME NEW x \in SetSteps, Has(s5, x) PROVE Wants(o, x)
    OBVIOUS
  <2>1. ~Has(first, x) /\ ~Has(down, x) /\ ~Has(late, x) /\ ~Has(hci, x)
    BY <1>8 DEF SetSteps
  <2> QED
    BY <1>5, <1>11, <2>1
<1>16. Preceded(s5)
  <2>1. \A s : ~Has(s, "record") => Preceded(s)
    <3> TAKE s
    <3>1. \A i \in 2..Len(s) : i \in 1..Len(s)
      OBVIOUS
    <3> QED
      BY <3>1 DEF Has, Preceded
  <2>2. \A s \in Seq(PlanStep) : ~Has(s, "record") => (Len(s) > 0 => s[1] # "record")
    <3> TAKE s \in Seq(PlanStep)
    <3>1. Len(s) \in Nat
      BY LenProperties
    <3>2. Len(s) > 0 => 1 \in 1..Len(s)
      BY <3>1
    <3> QED
      BY <3>2 DEF Has
  <2>3. ~Has(first, "record") /\ ~Has(late, "record") /\ ~Has(set, "record") /\ ~Has(hci, "record")
    BY <1>8 DEF SetSteps
  <2>4. /\ Preceded(first) /\ Preceded(late) /\ Preceded(set) /\ Preceded(hci)
        /\ Len(late) > 0 => late[1] # "record"
        /\ Len(set) > 0 => set[1] # "record"
        /\ Len(hci) > 0 => hci[1] # "record"
    BY <1>9, <2>1, <2>2, <2>3
  <2>5. Preceded(s2)
    BY <1>4, <1>9, <2>4, PrecededConcat
  <2>6. Preceded(s3)
    BY <1>9, <1>10, <2>4, <2>5, PrecededConcat
  <2>7. Preceded(s4)
    BY <1>9, <1>10, <2>4, <2>6, PrecededConcat
  <2> QED
    BY <1>9, <1>10, <2>4, <2>7, PrecededConcat
<1>17. \A i \in 1..Len(s5) : s5[i] = "hci" => i = Len(s5)
  <2> SUFFICES ASSUME NEW i \in 1..Len(s5), s5[i] = "hci" PROVE i = Len(s5)
    OBVIOUS
  <2>1. ~Has(s4, "hci")
    BY <1>8, <1>11 DEF SetSteps
  <2>2. /\ Len(s4) \in Nat /\ Len(hci) \in Nat /\ Len(s5) = Len(s4) + Len(hci)
        /\ (i \in 1..Len(s4) /\ s5[i] = s4[i]) \/ i - Len(s4) \in 1..Len(hci)
    BY <1>9, <1>10, ConcatIs
  <2>3. i - Len(s4) \in 1..Len(hci)
    BY <2>1, <2>2 DEF Has
  <2>4. \A m, k, n \in Nat : \A j \in 1..n :
          n = m + k /\ k \in {0, 1} /\ j - m \in 1..k => j = n
    OBVIOUS
  <2>5. Len(s5) \in Nat
    BY <1>10, LenProperties
  <2> HIDE DEF s4, s5
  <2> QED
    BY <1>6, <2>2, <2>3, <2>4, <2>5
<1> DEFINE Apart(s) == Len(s) > 0 /\ s[1] # "record"
<1>a. Apart(s5)
  <2>1. ASSUME NEW s \in Seq(PlanStep), NEW t \in Seq(PlanStep), Apart(s) PROVE Apart(s \o t)
    <3>1. /\ Len(s) \in Nat /\ Len(t) \in Nat /\ Len(s \o t) = Len(s) + Len(t)
          /\ \A i \in 1..Len(s) + Len(t) : (s \o t)[i] = IF i <= Len(s) THEN s[i] ELSE t[i - Len(s)]
      BY ConcatProperties, LenProperties
    <3>2. 1 \in 1..Len(s) + Len(t) /\ 1 <= Len(s)
      BY <2>1, <3>1
    <3>3. (s \o t)[1] = s[1]
      BY <3>1, <3>2
    <3> QED
      BY <2>1, <3>1, <3>2, <3>3
  <2>2. Apart(first)
    <3>1. Len(first) \in Nat
      BY <1>9, LenProperties
    <3>2. PICK i \in 1..Len(first) : first[i] = "reset"
      BY <1>3 DEF Has
    <3>3. 1 \in 1..Len(first) /\ Len(first) > 0
      BY <3>1, <3>2
    <3> QED
      BY <1>8, <3>3 DEF Has
  <2> HIDE DEF Apart
  <2>3. Apart(s2)
    BY <1>9, <2>1, <2>2
  <2>4. Apart(s3)
    BY <1>9, <1>10, <2>1, <2>3
  <2>5. Apart(s4)
    BY <1>9, <1>10, <2>1, <2>4
  <2> QED
    BY <1>9, <1>10, <2>1, <2>5
<1> HIDE DEF s2, s3, s4, s5
<1>18. SettingsOrder(o, s5)
  BY <1>4, <1>12, <1>13, <1>14, <1>15, <1>16, <1>17 DEF SettingsOrder, Preceded
<1>19. /\ Has(s5, "reset") /\ (o.patch => Has(s5, "record"))
       /\ o.rate # 0 => Has(s5, "baud")
  BY <1>2, <1>3, <1>4, <1>11
<1>20. Has(s5, "hci") <=> o.hci
  <2>1. ~Has(s4, "hci")
    BY <1>8, <1>11 DEF SetSteps
  <2> QED
    BY <1>6, <1>11, <2>1
<1> QED
  BY <1>7, <1>18, <1>19, <1>20, <1>a

----------------------------------------------------------------------------
(* What the command line asks for.                                         *)

LEMMA WithSays ==
  ASSUME NEW a \in [opt : Options, val : Nat], NEW o \in Opts
  PROVE  /\ With(a, o).lpm <=> (o.lpm \/ a.opt = "enable_lpm")
         /\ With(a, o).sco <=> (o.sco \/ a.opt = "scopcm")
         /\ With(a, o).i2s <=> (o.i2s \/ a.opt = "i2s")
         /\ With(a, o).hci <=> (o.hci \/ a.opt = "enable_hci")
         /\ With(a, o).addr = IF a.opt # "bd_addr" THEN o.addr
                              ELSE IF a.val = 6 THEN "asked" ELSE "junk"
         /\ With(a, o).rate = IF a.opt = "baudrate" THEN a.val ELSE o.rate
<1>o. o.lpm \in BOOLEAN /\ o.sco \in BOOLEAN /\ o.i2s \in BOOLEAN /\ o.hci \in BOOLEAN
  BY DEF Opts
<1>1. CASE a.opt \in {"patchram", "no2bytes", "use_baudrate_for_download"}
  BY <1>1 DEF With, Opts
<1>2. CASE a.opt \in {"enable_lpm", "enable_hci"}
  BY <1>2 DEF With, Opts
<1>3. CASE a.opt \in {"scopcm", "i2s"}
  BY <1>3 DEF With, Opts
<1>4. CASE a.opt = "baudrate"
  BY <1>4 DEF With, Opts
<1>5. CASE a.opt = "bd_addr"
  BY <1>5 DEF With, Opts
<1>6. CASE a.opt \in {"tosleep", "unknown"}
  BY <1>6 DEF With, Opts
<1> QED
  BY <1>1, <1>2, <1>3, <1>4, <1>5, <1>6 DEF Options, Flags

LEMMA AskDefault ==
  ASSUME argi = 1, opt = Default
  PROVE  AskInv
<1>1. \A x : ~SoFar(x)
  BY DEF SoFar
<1>2. Default.rate = 0 /\ Default.addr = "none"
  BY DEF Default
<1>3. ~Default.lpm /\ ~Default.sco /\ ~Default.i2s /\ ~Default.hci
  BY DEF Default
<1> QED
  BY <1>1, <1>2, <1>3 DEF AskInv

LEMMA AskNext == TypeInv /\ AskInv /\ [Next]_vars => AskInv'
<1> SUFFICES ASSUME TypeInv, AskInv, [Next]_vars PROVE AskInv'
  OBVIOUS
<1>t. /\ argv \in Argvs /\ argi \in 1..(Len(argv) + 1) /\ Len(argv) \in Nat /\ opt \in Opts
      /\ argv \in Seq([opt : Options, val : Nat])
  BY Assumptions, LenProperties DEF TypeInv, TypeOK, Opts
<1>1. CASE UNCHANGED <<argv, argi, opt>>
  BY <1>1 DEF AskInv, SoFar, Sound
<1>2. CASE Restart
  <2>1. argi' = 1 /\ opt' = Default
    BY <1>2 DEF Restart
  <2>2. \A x : ~SoFar(x)'
    BY <2>1 DEF SoFar
  <2>3. Default.rate = 0 /\ Default.addr = "none"
    BY DEF Default
  <2>4. ~Default.lpm /\ ~Default.sco /\ ~Default.i2s /\ ~Default.hci
    BY DEF Default
  <2> QED
    BY <2>1, <2>2, <2>3, <2>4 DEF AskInv
<1>3. CASE ParseArg /\ Fault(argv[argi]) = 0
  <2>1. argi <= Len(argv) /\ opt' = With(argv[argi], opt) /\ argi' = argi + 1 /\ argv' = argv
    BY <1>3 DEF ParseArg
  <2>2. argi \in 1..Len(argv)
    BY <1>t, <2>1
  <2>3. PICK a \in [opt : Options, val : Nat] : a = argv[argi]
    BY <1>t, <2>2, ElementOfSeq
  <2>4. /\ opt'.lpm <=> (opt.lpm \/ a.opt = "enable_lpm")
        /\ opt'.sco <=> (opt.sco \/ a.opt = "scopcm")
        /\ opt'.i2s <=> (opt.i2s \/ a.opt = "i2s")
        /\ opt'.hci <=> (opt.hci \/ a.opt = "enable_hci")
        /\ opt'.addr = IF a.opt # "bd_addr" THEN opt.addr
                       ELSE IF a.val = 6 THEN "asked" ELSE "junk"
        /\ opt'.rate = IF a.opt = "baudrate" THEN a.val ELSE opt.rate
    BY <1>t, <2>1, <2>3, WithSays
  <2>5. \A x : SoFar(x)' <=> (SoFar(x) \/ a.opt = x)
    BY <1>t, <2>1, <2>3 DEF SoFar
  <2>6. /\ opt'.lpm <=> SoFar("enable_lpm")'
        /\ opt'.sco <=> SoFar("scopcm")'
        /\ opt'.i2s <=> SoFar("i2s")'
        /\ opt'.hci <=> SoFar("enable_hci")'
    BY <2>4, <2>5 DEF AskInv
  <2>7. /\ opt'.addr = "none" <=> ~SoFar("bd_addr")'
        /\ Sound' => opt'.addr # "junk"
    <3>1. Sound' <=> Sound
      BY <2>1 DEF Sound
    <3>2. Sound => (a.opt = "bd_addr" => a.val = 6)
      BY <2>2, <2>3 DEF Sound
    <3> QED
      BY <2>4, <2>5, <3>1, <3>2 DEF AskInv
  <2>8. a.opt = "baudrate" => a.val # 0
    <3>1. a.opt = "baudrate" => a.val \in baud_rates
      BY <1>3, <2>3 DEF Fault, Flags
    <3> QED
      BY <3>1 DEF baud_rates
  <2>9. opt'.rate = 0 <=> ~SoFar("baudrate")'
    BY <2>4, <2>5, <2>8 DEF AskInv
  <2>10. opt'.rate # 0 =>
           \E i \in 1..(argi' - 1) :
             /\ argv'[i].opt = "baudrate" /\ argv'[i].val = opt'.rate
             /\ \A j \in (i + 1)..(argi' - 1) : argv'[j].opt # "baudrate"
    <3>n. argi' - 1 = argi /\ argv' = argv
      BY <1>t, <2>1
    <3> DEFINE Latest(n) == \E i \in 1..n :
                              /\ argv[i].opt = "baudrate" /\ argv[i].val = opt'.rate
                              /\ \A j \in (i + 1)..n : argv[j].opt # "baudrate"
    <3> SUFFICES ASSUME opt'.rate # 0 PROVE Latest(argi)
      BY <3>n, Zenon
    <3>1. CASE a.opt = "baudrate"
      <4>1. /\ argi \in 1..argi /\ argv[argi].opt = "baudrate" /\ argv[argi].val = opt'.rate
            /\ \A j \in (argi + 1)..argi : argv[j].opt # "baudrate"
        BY <1>t, <2>3, <2>4, <3>1
      <4> QED
        BY <4>1
    <3>2. CASE a.opt # "baudrate"
      <4>1. opt'.rate = opt.rate
        BY <2>4, <3>2
      <4>2. PICK i \in 1..(argi - 1) :
              /\ argv[i].opt = "baudrate" /\ argv[i].val = opt.rate
              /\ \A j \in (i + 1)..(argi - 1) : argv[j].opt # "baudrate"
        BY <4>1 DEF AskInv
      <4>3. i \in 1..argi /\ \A j \in (i + 1)..argi : j = argi \/ j \in (i + 1)..(argi - 1)
        BY <1>t
      <4>4. \A j \in (i + 1)..argi : argv[j].opt # "baudrate"
        BY <2>3, <3>2, <4>2, <4>3
      <4> QED
        BY <4>1, <4>2, <4>3, <4>4
    <3> QED
      BY <3>1, <3>2
  <2> QED
    BY <2>6, <2>7, <2>9, <2>10 DEF AskInv
<1>4. CASE ParseArg /\ Fault(argv[argi]) # 0
  <2>1. UNCHANGED <<argv, argi, opt>>
    BY <1>4 DEF ParseArg
  <2> QED
    BY <1>1, <2>1
<1> QED
  BY <1>1, <1>2, <1>3, <1>4
  DEF Next, vars, args, Program, Chip, OpenUart, NoUart, SendCmd, SendRecord,
      EndDownload, EnableHci, Exit, ReadPart, ReadLast, Disarm, ReadTwo, Expire,
      ExpireLate, Again, Take, Refuse, Ignore, Boot, Lose, Arrive

\* While the program runs, all arguments were read.
LEMMA AskedAll ==
  ASSUME TypeInv, ArgInv, AskInv, Running
  PROVE  /\ opt.hci <=> Given("enable_hci")
         /\ AskedRate = IF opt.rate = 0 THEN Base ELSE opt.rate
         /\ Sound => \A s : s \in AskedSettings <=> (s \in SetSteps /\ Wants(opt, s))
<1>1. Len(argv) \in Nat /\ argi = Len(argv) + 1 /\ argi - 1 = Len(argv)
  BY Assumptions, LenProperties DEF TypeInv, TypeOK, ArgInv
<1>2. \A x : SoFar(x) <=> Given(x)
  BY <1>1 DEF SoFar, Given
<1>3. AskedRate = IF opt.rate = 0 THEN Base ELSE opt.rate
  <2>1. CASE opt.rate = 0
    <3>1. ~Given("baudrate")
      BY <1>2, <2>1 DEF AskInv
    <3> QED
      BY <2>1, <3>1 DEF AskedRate
  <2>2. CASE opt.rate # 0
    <3> DEFINE P(i) == /\ argv[i].opt = "baudrate"
                       /\ \A j \in (i + 1)..Len(argv) : argv[j].opt # "baudrate"
               c == CHOOSE i \in 1..Len(argv) : P(i)
    <3>1. Given("baudrate")
      BY <1>2, <2>2 DEF AskInv
    <3>2. PICK i \in 1..Len(argv) : P(i) /\ argv[i].val = opt.rate
      BY <1>1, <2>2 DEF AskInv
    <3>3. c \in 1..Len(argv) /\ P(c)
      BY <3>2
    <3>4. AskedRate = argv[c].val
      BY <3>1 DEF AskedRate
    <3> HIDE DEF c
    <3>5. c = i
      <4>1. ~(c < i)
        <5> SUFFICES ASSUME c < i PROVE FALSE
          OBVIOUS
        <5>1. i \in (c + 1)..Len(argv)
          BY <1>1, <3>3
        <5> QED
          BY <3>2, <3>3, <5>1
      <4>2. ~(i < c)
        <5> SUFFICES ASSUME i < c PROVE FALSE
          OBVIOUS
        <5>1. c \in (i + 1)..Len(argv)
          BY <1>1, <3>3
        <5> QED
          BY <3>2, <3>3, <5>1
      <4> QED
        BY <1>1, <3>3, <4>1, <4>2
    <3> QED
      BY <2>2, <3>2, <3>4, <3>5
  <2> QED
    BY <2>1, <2>2
<1>4. \A s : s \in AskedSettings <=> (s \in SetSteps /\ Wants(opt, s))
  BY <1>2 DEF AskedSettings, Settings, SetSteps, Wants, AskInv
<1>5. opt.hci <=> Given("enable_hci")
  BY <1>2 DEF AskInv
<1> QED
  BY <1>3, <1>4, <1>5

----------------------------------------------------------------------------
(* The steps that are left.                                                *)

\* The first step, which is done, was not the last.
LEMMA PlanTail ==
  ASSUME TypeInv, PlanOrder, plan # <<>>
  PROVE  /\ SettingsOrder(opt, Tail(plan))
         /\ Head(plan) # "hci" => (Has(Tail(plan), "hci") <=> Has(plan, "hci"))
BY SettingsTail, HasTail DEF TypeInv, PlanInv, MayBe, PlanOrder

LEMMA PlanEmpty ==
  /\ \A o : SettingsOrder(o, <<>>)
  /\ \A x : ~Has(<<>>, x)
BY EmptySeq DEF SettingsOrder, Has, Followed

LEMMA OrderNext == TypeInv /\ ArgInv /\ PlanOrder /\ [Next]_vars => PlanOrder'
<1> SUFFICES ASSUME TypeInv, ArgInv, PlanOrder, [Next]_vars PROVE PlanOrder'
  OBVIOUS
<1>t. /\ opt \in Opts /\ PlanInv /\ (pc # "exited" => code = 0)
  BY DEF TypeInv, TypeOK, Opts, ArgInv
<1>1. CASE UNCHANGED vars
  BY <1>1 DEF vars, args, work, PlanOrder, Running
<1>2. CASE ParseArg \/ NoUart \/ Restart
  <2>1. plan' = <<>> /\ (pc' = "parse" \/ (pc' = "exited" /\ code' # 0))
    BY <1>2, <1>t DEF ParseArg, NoUart, Restart, work, PlanInv
  <2> QED
    BY <2>1, PlanEmpty DEF PlanOrder, Running
<1>3. CASE OpenUart
  <2>1. pc' = "send" /\ plan' = Steps(opt) /\ opt' = opt
    BY <1>3 DEF OpenUart, args
  <2> QED
    BY <1>t, <2>1, StepsSettings DEF PlanOrder
<1>4. CASE (\E op \in Simple : SendCmd(op)) \/ SendRecord
  <2>1. /\ pc = "send" /\ pc' = "read" /\ UNCHANGED <<plan, opt>>
        /\ Head(plan) # "hci"
    BY <1>4 DEF SendCmd, SendRecord, At, args, Simple
  <2> QED
    BY <2>1 DEF PlanOrder
<1>5. CASE EndDownload
  <2>1. /\ pc = "send" /\ pc' = "send" /\ plan' = Tail(plan) /\ opt' = opt
        /\ plan # <<>> /\ Head(plan) # "hci"
    BY <1>5 DEF EndDownload, At, args
  <2> QED
    BY <2>1, PlanTail DEF PlanOrder
<1>6. CASE EnableHci
  <2>1. /\ pc = "send" /\ pc' = "asleep" /\ plan' = <<>> /\ opt' = opt
        /\ plan # <<>> /\ Head(plan) = "hci"
    BY <1>6 DEF EnableHci, At, args
  <2>2. Has(plan, "hci")
    BY <1>t, <2>1, HasTail DEF PlanInv, MayBe
  <2>3. opt'.hci
    BY <2>1, <2>2 DEF PlanOrder
  <2> QED
    BY <2>1, <2>3, PlanEmpty DEF PlanOrder
<1>7. CASE Exit
  <2>1. pc = "send" /\ pc' = "exited" /\ plan = <<>> /\ UNCHANGED <<plan, opt>>
    BY <1>7 DEF Exit, args, work
  <2>2. ~opt.hci
    BY <2>1, PlanEmpty DEF PlanOrder
  <2> QED
    BY <2>1, <2>2, PlanEmpty DEF PlanOrder
<1>8. CASE ReadLast
  <2>1. /\ pc = "read" /\ pc' \in {"disarm", "two", "send"} /\ opt' = opt
        /\ (plan' = Tail(plan) /\ pc' = "send") \/ plan' = plan
    <3>1. /\ pc = "read" /\ opt' = opt
          /\ plan' = IF pc' = "send" /\ Head(plan) # "record" THEN Tail(plan) ELSE plan
      BY <1>8 DEF ReadLast, args
    <3>2. pc' \in {"disarm", "two", "send"}
      BY <1>8 DEF ReadLast
    <3> QED
      BY <3>1, <3>2
  <2> QED
    BY <1>t, <2>1, PlanTail DEF PlanOrder, PlanInv
<1>9. CASE Disarm \/ ReadTwo
  <2>1. /\ pc \in {"disarm", "two"} /\ pc' = "send" /\ plan' = Tail(plan) /\ opt' = opt
    BY <1>9 DEF Disarm, ReadTwo, args
  <2> QED
    BY <1>t, <2>1, PlanTail DEF PlanOrder, PlanInv
<1>10. CASE ReadPart \/ Expire \/ ExpireLate \/ Chip \/ Lose \/ Arrive
  <2>1. UNCHANGED <<pc, plan, opt, code>>
    BY <1>10 DEF ReadPart, Expire, ExpireLate, Again, Chip, Take, Refuse, Ignore, Boot,
                 Lose, Arrive, args, work
  <2> QED
    BY <2>1 DEF PlanOrder, Running
<1> QED
  BY <1>1, <1>2, <1>3, <1>4, <1>5, <1>6, <1>7, <1>8, <1>9, <1>10 DEF Next, Program

----------------------------------------------------------------------------
(* What the chip is, step by step.                                         *)

Asking == /\ InStep /\ AskInv /\ PlanOrder
          /\ Running => RateInv /\ ModeInv /\ SetInv

\* A step that the chip does not notice.
LEMMA ChipSame ==
  ASSUME ModeInv, SetInv, UNCHANGED <<opt, argv>>, Rest' = Rest, AtRecord => Done' = Done,
         chip'.mode = chip.mode, chip'.ram = chip.ram, chip'.set = chip.set
  PROVE  ModeInv' /\ SetInv'
<1>1. (AtRecord' <=> AtRecord) /\ (Sound' <=> Sound)
  BY DEF AtRecord, Sound
<1>2. ModeInv'
  BY <1>1 DEF ModeInv
<1>3. SetInv'
  BY <1>1 DEF SetInv
<1> QED
  BY <1>2, <1>3

\* The rate of the UART.
LEMMA RateNext ==
  ASSUME Asking, [Next]_vars, Running'
  PROVE  RateInv'
<1>t. /\ TypeInv /\ opt \in Opts /\ MayBe(opt, plan) /\ plan \in Seq(PlanStep)
      /\ PlanInv /\ SettingsOrder(opt, plan)
  BY DEF Asking, InStep, TypeInv, TypeOK, Opts, PlanInv, MayBe, PlanOrder
<1>h. plan # <<>> => \A x : Has(plan, x) <=> (Head(plan) = x \/ Has(Tail(plan), x))
  BY <1>t, HasTail
<1>1. CASE UNCHANGED <<opt, plan, rate>> /\ Running
  BY <1>1 DEF Asking, RateInv
<1>2. CASE OpenUart
  <2>1. rate' = Base /\ plan' = Steps(opt) /\ opt' = opt
    BY <1>2 DEF OpenUart, args
  <2> QED
    BY <1>t, <2>1, StepsSettings DEF RateInv
<1>3. CASE EndDownload
  <2>1. /\ plan # <<>> /\ Head(plan) = "record" /\ plan' = Tail(plan) /\ opt' = opt /\ Running
        /\ rate' = (IF opt.early THEN Base ELSE rate)
    BY <1>3 DEF EndDownload, At, args, Running
  <2>2. opt.rate # 0 => Has(Tail(plan), "baud")
    BY <1>t, <2>1, FollowedTail DEF SettingsOrder
  <2>3. opt.rate = 0 => rate = Base
    BY <2>1 DEF Asking, RateInv
  <2> QED
    BY <2>1, <2>2, <2>3 DEF RateInv
<1>4. CASE EnableHci
  <2>1. /\ plan # <<>> /\ Head(plan) = "hci" /\ plan' = <<>> /\ rate' = rate /\ opt' = opt
        /\ Running
    BY <1>4 DEF EnableHci, At, line, Running
  <2>2. Tail(plan) = <<>>
    BY <1>t, <2>1, SettingsTail
  <2>3. ~Has(plan, "baud")
    BY <1>h, <2>1, <2>2, PlanEmpty
  <2> QED
    BY <2>1, <2>3 DEF Asking, RateInv
<1>5. CASE ReadLast
  <2>1. /\ pc = "read" /\ opt' = opt /\ Running
        /\ rate' = IF Head(plan) = "baud" THEN opt.rate ELSE rate
        /\ plan' \in {plan, Tail(plan)}
    BY <1>5 DEF ReadLast, args, Running
  <2>2. plan # <<>>
    BY <1>t, <2>1 DEF PlanInv
  <2>3. CASE Head(plan) = "baud"
    <3>1. opt.rate # 0
      BY <1>t, <2>2, <2>3, MayBeTail
    <3> QED
      BY <2>1, <2>3, <3>1 DEF RateInv
  <2>4. CASE Head(plan) # "baud"
    <3>1. Has(plan', "baud") <=> Has(plan, "baud")
      BY <1>h, <2>1, <2>2, <2>4
    <3> QED
      BY <2>1, <2>4, <3>1 DEF Asking, RateInv
  <2> QED
    BY <2>3, <2>4
<1>6. CASE Disarm \/ ReadTwo
  <2>1. /\ pc \in {"disarm", "two"} /\ rate' = rate /\ opt' = opt /\ plan' = Tail(plan)
        /\ Running
    BY <1>6 DEF Disarm, ReadTwo, args, line, Running
  <2>2. plan # <<>> /\ Head(plan) \in {"reset", "minidriver"}
    BY <1>t, <2>1 DEF PlanInv, Asking, InStep, StepInv
  <2>3. Has(plan', "baud") <=> Has(plan, "baud")
    BY <1>h, <2>1, <2>2
  <2> QED
    BY <2>1, <2>3 DEF Asking, RateInv
<1>7. CASE ParseArg \/ NoUart \/ Restart
  <2>1. pc' = "parse" \/ (pc' = "exited" /\ code' # 0)
    BY <1>7, <1>t DEF ParseArg, NoUart, Restart, Asking, InStep, ArgInv
  <2> QED
    BY <2>1 DEF Running
<1>8. CASE (\E op \in Simple : SendCmd(op)) \/ SendRecord \/ Exit
  <2>1. UNCHANGED <<opt, plan, rate>> /\ pc = "send"
    BY <1>8 DEF SendCmd, SendRecord, Exit, At, args, work, line
  <2> QED
    BY <1>1, <2>1 DEF Running
<1>9. CASE ReadPart \/ Expire \/ ExpireLate \/ Chip \/ Lose \/ Arrive \/ UNCHANGED vars
  <2>1. UNCHANGED <<opt, plan, rate, pc, code>>
    BY <1>9 DEF ReadPart, Expire, ExpireLate, Again, Chip, Take, Refuse, Ignore, Boot, Lose,
                Arrive, args, work, line, vars
  <2> QED
    BY <1>1, <2>1 DEF Running
<1> QED
  BY <1>2, <1>3, <1>4, <1>5, <1>6, <1>7, <1>8, <1>9 DEF Next, Program

LEMMA OpenSettings ==
  ASSUME Asking, OpenUart
  PROVE  ModeInv' /\ SetInv'
<1>t. TypeInv /\ opt \in Opts
  BY DEF Asking, InStep, TypeInv, TypeOK, Opts
<1>1. pc' = "send" /\ plan' = Steps(opt) /\ opt' = opt
  BY DEF OpenUart, args
<1>2. Rest' = Steps(opt)
  BY <1>1 DEF Rest, Took
<1>3. ~AtRecord'
  <2>1. /\ Steps(opt) \in Seq(PlanStep) /\ Len(Steps(opt)) > 0 /\ Steps(opt)[1] # "record"
    BY <1>t, StepsSettings, StepsType DEF MayBe
  <2>2. Steps(opt) # <<>> => Head(Steps(opt)) = Steps(opt)[1]
    BY <2>1, TailIs
  <2> HIDE DEF Steps
  <2> QED
    BY <1>2, <2>1, <2>2 DEF AtRecord
<1>4. Has(Steps(opt), "reset") /\ (opt.patch => Has(Steps(opt), "record"))
  BY <1>t, StepsSettings
<1> QED
  BY <1>1, <1>2, <1>3, <1>4 DEF ModeInv, SetInv

\* What is sent is still to be executed.
LEMMA SendSettings ==
  ASSUME Asking, (\E op \in Simple : SendCmd(op)) \/ SendRecord
  PROVE  ModeInv' /\ SetInv'
<1>t. TypeInv /\ ArgInv /\ DownloadInv /\ Regular /\ StepInv
  BY DEF Asking, InStep
<1>1. /\ pc = "send" /\ pc' = "read" /\ plan # <<>>
      /\ UNCHANGED <<plan, opt, argv, buf, rx, out, chip>>
  BY DEF SendCmd, SendRecord, At, args
<1>2. Stream = <<>> /\ Stream' = <<>>
  BY <1>1, <1>t DEF StepInv, Still, Stream
<1>3. Rest = plan /\ Rest' = plan
  BY <1>1, <1>2 DEF Rest, Took
<1>4. ModeInv /\ SetInv
  BY <1>1 DEF Asking, Running
<1>5. AtRecord => Done' = Done
  <2>1. CASE \E op \in Simple : SendCmd(op)
    <3>1. Head(plan) # "record"
      BY <2>1 DEF SendCmd, At, Simple
    <3> QED
      BY <1>3, <3>1 DEF AtRecord
  <2>2. CASE SendRecord
    <3>1. pos' = pos + 1 /\ pos \in Nat
      BY <1>t, <2>2, RecordIs DEF Regular
    <3>2. pos' - 2 = pos - 1
      BY <3>1
    <3> QED
      BY <1>1, <1>2, <3>2 DEF Done
  <2> QED
    BY <2>1, <2>2
<1> QED
  BY <1>1, <1>3, <1>4, <1>5, ChipSame

\* The download ends when the launch was executed.
LEMMA EndSettings ==
  ASSUME Asking, EndDownload
  PROVE  ModeInv' /\ SetInv'
<1>t. /\ TypeInv /\ ArgInv /\ DownloadInv /\ Regular /\ plan \in Seq(PlanStep)
      /\ SettingsOrder(opt, plan)
  BY DEF Asking, InStep, TypeInv, PlanInv, MayBe, PlanOrder
<1>1. /\ pc = "send" /\ pc' = "send" /\ plan # <<>> /\ Head(plan) = "record"
      /\ pos > Len(file) /\ plan' = Tail(plan) /\ UNCHANGED <<opt, argv, chip>>
  BY DEF EndDownload, At, args
<1>2. Rest = plan /\ Rest' = Tail(plan) /\ AtRecord /\ Done = pos - 1
  BY <1>1 DEF Rest, Took, AtRecord, Done
<1>3. opt.patch
  <2>1. plan[1] = "record" /\ 1 \in 1..Len(plan)
    BY <1>1, <1>t, TailIs
  <2> QED
    BY <1>t, <2>1 DEF DownloadInv, DownloadOrder
<1>4. chip.mode = "patched"
  <2>1. Len(file) = Records + 1 /\ Records \in Nat /\ pos \in Nat
    BY <1>1, <1>3, <1>t, ImageIs DEF Regular, Running, TypeInv, TypeOK
  <2>2. ~(Done <= Records)
    BY <1>1, <1>2, <2>1
  <2>3. ModeInv
    BY <1>1 DEF Asking, Running
  <2> QED
    BY <1>2, <1>3, <2>2, <2>3 DEF ModeInv
<1>5. ~AtRecord'
  BY <1>1, <1>2, <1>t, SettingsTail DEF AtRecord
<1>6. Has(Tail(plan), "reset")
  BY <1>1, <1>t, FollowedTail DEF SettingsOrder
<1> QED
  BY <1>1, <1>2, <1>4, <1>5, <1>6 DEF ModeInv, SetInv

\* The line is handed over, which is the last step.
LEMMA HciSettings ==
  ASSUME Asking, EnableHci
  PROVE  ModeInv' /\ SetInv'
<1>t. plan \in Seq(PlanStep) /\ SettingsOrder(opt, plan)
  BY DEF Asking, InStep, TypeInv, PlanInv, MayBe, PlanOrder
<1>1. /\ pc = "send" /\ pc' = "asleep" /\ plan # <<>> /\ Head(plan) = "hci"
      /\ plan' = <<>> /\ UNCHANGED <<opt, argv, chip>>
  BY DEF EnableHci, At
<1>2. Rest = plan /\ Rest' = <<>>
  BY <1>1 DEF Rest, Took
<1>3. \A x : Has(plan, x) => x = "hci"
  <2>1. Tail(plan) = <<>>
    BY <1>1, <1>t, SettingsTail
  <2>2. \A x : Has(plan, x) <=> (Head(plan) = x \/ Has(Tail(plan), x))
    BY <1>1, <1>t, HasTail
  <2> QED
    BY <1>1, <2>1, <2>2, PlanEmpty
<1>4. ~Has(plan, "record") /\ ~Has(plan, "reset") /\ \A x \in SetSteps : ~Has(plan, x)
  BY <1>3 DEF SetSteps
<1>5. ModeInv /\ SetInv
  BY <1>1 DEF Asking, Running
<1>6. ModeInv'
  BY <1>1, <1>2, <1>4, <1>5 DEF ModeInv, AtRecord
<1>7. Sound' <=> Sound
  BY <1>1 DEF Sound
<1>8. SetInv'
  BY <1>1, <1>2, <1>4, <1>5, <1>7 DEF SetInv
<1> QED
  BY <1>6, <1>8

\* The program reads an answer; the command was executed before.
LEMMA ReadSettings ==
  ASSUME Asking, ReadPart \/ ReadLast \/ Disarm \/ ReadTwo
  PROVE  ModeInv' /\ SetInv'
<1>t. TypeInv /\ PlanInv /\ StepInv
  BY DEF Asking, InStep, TypeInv
<1>1. pc \in {"read", "disarm", "two"} /\ UNCHANGED <<opt, argv, pos, chip>>
  BY DEF ReadPart, ReadLast, Disarm, ReadTwo, args
<1>2. ModeInv /\ SetInv
  BY <1>1 DEF Asking, Running
<1>3. CASE ReadPart
  <2>1. /\ UNCHANGED <<pc, plan>> /\ rx # <<>>
        /\ buf' = Got /\ rx' = From(rx, Count + 1) /\ out' = out
    BY <1>3 DEF ReadPart
  <2>2. Stream' = Stream
    BY <1>t, <2>1, ReadIs DEF Stream
  <2>3. Rest' = Rest /\ Done' = Done
    BY <1>1, <2>1, <2>2 DEF Rest, Took, Done
  <2> QED
    BY <1>1, <1>2, <2>3, ChipSame
<1>4. CASE ReadLast
  <2>1. /\ pc = "read" /\ rx # <<>>
        /\ plan' = IF pc' = "send" /\ Head(plan) # "record" THEN Tail(plan) ELSE plan
    BY <1>4 DEF ReadLast
  <2>2. pc' = CASE Head(plan) = "reset"                     -> "disarm"
                [] Head(plan) = "minidriver" /\ ~opt.no2    -> "two"
                [] OTHER                                    -> "send"
    BY <1>4 DEF ReadLast
  <2>3. Stream # <<>>
    BY <1>t, <2>1, StreamIs
  <2>4. Took /\ Done = pos - 1 /\ Done' = pos - 1
    BY <1>1, <2>1, <2>2, <2>3 DEF Took, Done
  <2>5. Rest' = Rest
    <3>1. CASE pc' \in {"disarm", "two"}
      <4>1. plan' = plan
        BY <2>1, <3>1
      <4> QED
        BY <2>4, <3>1, <4>1 DEF Rest, Took
    <3>2. CASE pc' = "send"
      BY <2>1, <2>4, <3>2 DEF Rest, Took
    <3> QED
      BY <2>2, <3>1, <3>2
  <2> QED
    BY <1>1, <1>2, <2>4, <2>5, ChipSame
<1>5. CASE Disarm \/ ReadTwo
  <2>1. pc \in {"disarm", "two"} /\ pc' = "send" /\ plan' = Tail(plan)
    BY <1>5 DEF Disarm, ReadTwo
  <2>2. Head(plan) # "record"
    BY <1>t, <2>1 DEF StepInv
  <2>3. Rest = Tail(plan) /\ Rest' = Tail(plan) /\ Done' = Done
    BY <1>1, <2>1, <2>2 DEF Rest, Took, Done
  <2> QED
    BY <1>1, <1>2, <2>3, ChipSame
<1> QED
  BY <1>3, <1>4, <1>5

\* The program has come to its end, sends the reset again, or waits while the
\* chip starts, or its answer arrives.
LEMMA WaitSettings ==
  ASSUME Asking, Running', Exit \/ Expire \/ Boot \/ Lose \/ Arrive \/ UNCHANGED vars
  PROVE  ModeInv' /\ SetInv'
<1>t. TypeInv /\ TurnInv /\ chip \in Chips
  BY DEF Asking, InStep, TypeInv, TypeOK, Chips, Modes
<1>1. CASE Exit
  <2>1. pc = "send" /\ pc' = "exited" /\ UNCHANGED <<opt, argv, plan, pos, chip>>
    BY <1>1 DEF Exit, args, work
  <2>2. Rest' = Rest /\ Done' = Done
    BY <2>1 DEF Rest, Took, Done
  <2>3. ModeInv /\ SetInv
    BY <2>1 DEF Asking, Running
  <2> QED
    BY <2>1, <2>2, <2>3, ChipSame
<1>2. CASE Expire \/ Boot \/ Lose \/ Arrive \/ UNCHANGED vars
  <2>1. UNCHANGED <<pc, code, opt, argv, plan, pos, buf>>
    BY <1>2 DEF Expire, Again, Boot, Lose, Arrive, args, work, vars
  <2>2. Stream' = Stream
    <3>1. CASE Arrive
      <4>1. out # <<>> /\ out' = Tail(out)
        BY <3>1 DEF Arrive
      <4>2. rate = chip.rate
        BY <1>t, <4>1 DEF TurnInv
      <4>3. rx' = Append(rx, Head(out))
        BY <3>1, <4>2 DEF Arrive
      <4> QED
        BY <1>t, <2>1, <4>1, <4>3, ArriveIs
    <3>2. CASE Expire \/ Boot \/ Lose \/ UNCHANGED vars
      <4>1. rx' = rx /\ out' = out
        BY <3>2 DEF Expire, Again, Boot, Lose, line, vars
      <4> QED
        BY <2>1, <4>1 DEF Stream
    <3> QED
      BY <1>2, <3>1, <3>2
  <2>3. chip'.mode = chip.mode /\ chip'.ram = chip.ram /\ chip'.set = chip.set
    <3>1. CASE Boot
      <4>1. chip' = [chip EXCEPT !.up = TRUE]
        BY <3>1 DEF Boot
      <4> QED
        BY <1>t, <4>1 DEF Chips
    <3>2. CASE Arrive
      <4>1. \/ chip' = [chip EXCEPT !.rate = chip.next, !.next = 0]
            \/ chip' = chip
        BY <3>2, Zenon DEF Arrive
      <4> QED
        BY <1>t, <4>1 DEF Chips
    <3>3. CASE Expire \/ Lose \/ UNCHANGED vars
      BY <3>3 DEF Expire, Again, Lose, vars
    <3> QED
      BY <1>2, <3>1, <3>2, <3>3
  <2>4. Rest' = Rest /\ Done' = Done
    BY <2>1, <2>2 DEF Rest, Took, Done
  <2>5. ModeInv /\ SetInv
    BY <2>1 DEF Asking, Running
  <2> QED
    BY <2>1, <2>3, <2>4, <2>5, ChipSame
<1> QED
  BY <1>1, <1>2

----------------------------------------------------------------------------
(* What the chip does.                                                     *)

LEMMA ExecutedSays ==
  ASSUME chip \in Chips, NEW c \in KnownCmd, Able(c)
  PROVE  /\ c.op # "bogus"
         /\ c.op = "reset" =>
              /\ Executed(c).mode = IF chip.mode = "loader" THEN "rom" ELSE chip.mode
              /\ Executed(c).set = {}
         /\ c.op = "minidriver" => Executed(c).mode = "loader" /\ Executed(c).ram = {}
         /\ c.op = "record" =>
              /\ Executed(c).mode = "loader" /\ Executed(c).set = chip.set
              /\ c.arg[2] = 1 => Executed(c).ram = chip.ram \cup {c.arg[1]}
         /\ c.op = "launch" =>
              (c.arg[2] = 1 /\ chip.ram = 1..Records => Executed(c).mode = "patched")
         /\ c.op \notin {"reset", "minidriver", "record", "launch"} =>
              Executed(c).mode = chip.mode
         /\ c.op = "baud" => Executed(c).set = chip.set
         /\ c.op = "addr" =>
              Executed(c).set = chip.set \cup {IF c.arg = <<1>> THEN "addr" ELSE "junk"}
         /\ c.op \in {"clock", "lpm", "sco", "pcm", "i2s"} =>
              Executed(c).set = chip.set \cup {c.op}
<1> USE DEF Chips
<1>1. c.op \in Ops /\ c.op # "bogus"
  BY DEF KnownCmd, Able
<1>2. CASE c.op = "reset"
  BY <1>2 DEF Executed
<1>3. CASE c.op = "minidriver"
  BY <1>3 DEF Executed
<1>4. CASE c.op = "record"
  BY <1>4 DEF Executed, Able
<1>5. CASE c.op = "launch"
  BY <1>5 DEF Executed
<1>6. CASE c.op = "baud"
  BY <1>6 DEF Executed
<1>7. CASE c.op = "addr"
  BY <1>7 DEF Executed
<1>8. CASE c.op \in {"clock", "lpm", "sco", "pcm", "i2s"}
  BY <1>8 DEF Executed
<1> QED
  BY <1>1, <1>2, <1>3, <1>4, <1>5, <1>6, <1>7, <1>8 DEF Ops, Simple

\* A command is heard while the program waits for its answer.
LEMMA HeardIs ==
  ASSUME Asking, Running', Take
  PROVE  /\ pc = "read" /\ Running /\ plan # <<>>
         /\ UNCHANGED <<pc, opt, argv, plan, pos, file>>
         /\ Doing \in KnownCmd /\ Able(Doing) /\ chip' = Executed(Doing)
         /\ Rest = plan /\ Done = pos - 2 /\ Done' = pos - 1
         /\ Rest' = IF Head(plan) # "record" THEN Tail(plan) ELSE plan
<1>t. TypeInv /\ PlanInv /\ StepInv
  BY DEF Asking, InStep, TypeInv
<1>1. /\ cmds # <<>> /\ out = <<>> /\ Able(Head(cmds))
      /\ chip' = Executed(Head(cmds)) /\ out' = Answer(Head(cmds), 0)
      /\ UNCHANGED <<pc, code, plan, pos, file, opt, argv, buf, rx>>
  BY DEF Take, Listens, args, work
<1>2. cmds \in Seq(KnownCmd)
  BY <1>t DEF TypeInv, LineInv
<1>3. PICK c \in KnownCmd : c = Head(cmds)
  BY <1>1, <1>2, HeadTailProperties
<1>4. pc = "read" /\ Running
  BY <1>1, <1>t DEF StepInv, Still, Missed, Running, TypeInv, TypeOK
<1>5. cmds = <<Doing>> /\ Stream = <<>>
  BY <1>1, <1>4, <1>t DEF StepInv, Missed, Still, Waiting, Answering
<1>6. c = Doing
  BY <1>3, <1>5
<1>7. Stream' # <<>>
  <2>1. buf = <<>> /\ rx = <<>>
    BY <1>5, <1>t, StreamIs
  <2>2. out' \in Seq(Byte) /\ Len(out') = Length(c)
    BY <1>1, <1>3, <1>t, AnswerIs
  <2>3. Len(out') # 0
    BY <2>2 DEF Length
  <2>4. <<>> \o (<<>> \o out') = out'
    BY <2>2, ConcatEmptySeq
  <2>5. Stream' = out'
    BY <1>1, <2>1, <2>4 DEF Stream
  <2> QED
    BY <2>2, <2>3, <2>5, EmptySeq
<1>8. Rest = plan /\ Done = pos - 2
  BY <1>4, <1>5 DEF Rest, Took, Done
<1>9. Rest' = (IF Head(plan) # "record" THEN Tail(plan) ELSE plan) /\ Done' = pos - 1
  BY <1>1, <1>4, <1>7 DEF Rest, Took, Done
<1> QED
  BY <1>1, <1>3, <1>4, <1>6, <1>8, <1>9, <1>t DEF PlanInv

\* It executes a record or the launch.
LEMMA RecordSettings ==
  ASSUME Asking, Running', Take, Head(plan) = "record"
  PROVE  ModeInv' /\ SetInv'
<1>t. /\ TypeInv /\ ArgInv /\ DownloadInv /\ Regular /\ chip \in Chips
      /\ plan \in Seq(PlanStep) /\ SettingsOrder(opt, plan)
  BY DEF Asking, InStep, TypeInv, TypeOK, PlanInv, MayBe, PlanOrder, Chips, Modes
<1>h. /\ pc = "read" /\ Running /\ plan # <<>>
      /\ UNCHANGED <<pc, opt, argv, plan, pos, file>>
      /\ Doing \in KnownCmd /\ Able(Doing) /\ chip' = Executed(Doing)
      /\ Rest = plan /\ Done = pos - 2 /\ Done' = pos - 1 /\ Rest' = plan
  BY HeardIs
<1>1. plan[1] = "record" /\ 1 \in 1..Len(plan)
  BY <1>h, <1>t, TailIs
<1>2. opt.patch
  BY <1>1, <1>t DEF DownloadInv, DownloadOrder
<1>3. /\ Len(file) = Records + 1 /\ Records \in Nat
      /\ \A i \in 1..Len(file) : file[i] = "all"
  BY <1>2, <1>h, <1>t, ImageIs DEF Regular
<1>4. pos \in 2..(Records + 2)
  <2>1. pos > 1 /\ pos \in 1..(Len(file) + 1)
    BY <1>h, <1>t DEF DownloadInv, Regular, TypeInv, TypeOK
  <2> QED
    BY <1>3, <2>1
<1>5. AtRecord /\ AtRecord' /\ Has(plan, "record")
  BY <1>1, <1>h DEF AtRecord, Has
<1>6. chip.mode = "loader" /\ chip.ram = 1..(pos - 2)
  <2>1. Done <= Records
    BY <1>3, <1>4, <1>h
  <2>2. ModeInv
    BY <1>h DEF Asking
  <2> QED
    BY <1>2, <1>5, <1>h, <2>1, <2>2 DEF ModeInv
<1>7. pos - 1 \in 1..Len(file) /\ file[pos - 1] = "all"
  BY <1>3, <1>4
<1>8. /\ Doing.arg[1] = pos - 1 /\ Doing.arg[2] = 1
      /\ Doing.op = IF pos - 1 <= Records THEN "record" ELSE "launch"
  BY <1>7 DEF Doing, Piece
<1>9. ModeInv'
  <2>1. CASE pos - 1 <= Records
    <3>1. chip'.mode = "loader" /\ chip'.ram = 1..(pos - 2) \cup {pos - 1}
      BY <1>6, <1>8, <1>h, <1>t, <2>1, ExecutedSays
    <3>2. chip'.ram = 1..(pos - 1)
      BY <1>4, <3>1
    <3> QED
      BY <1>5, <1>h, <2>1, <3>1, <3>2 DEF ModeInv
  <2>2. CASE ~(pos - 1 <= Records)
    <3>1. pos - 2 = Records
      BY <1>3, <1>4, <2>2
    <3>2. chip'.mode = "patched"
      BY <1>6, <1>8, <1>h, <1>t, <2>2, <3>1, ExecutedSays
    <3> QED
      BY <1>h, <2>2, <3>2 DEF ModeInv
  <2> QED
    BY <2>1, <2>2
<1>10. Has(plan, "reset")
  BY <1>h, <1>t, FollowedTail, HasTail DEF SettingsOrder
<1> QED
  BY <1>9, <1>10, <1>h DEF SetInv

\* It executes another command.
LEMMA OtherSettings ==
  ASSUME Asking, Running', Take, Head(plan) # "record"
  PROVE  ModeInv' /\ SetInv'
<1>t. /\ TypeInv /\ ArgInv /\ DownloadInv /\ Regular /\ chip \in Chips /\ opt \in Opts
      /\ plan \in Seq(PlanStep) /\ SettingsOrder(opt, plan) /\ AskInv /\ PlanOrder
  BY DEF Asking, InStep, TypeInv, TypeOK, PlanInv, MayBe, PlanOrder, Chips, Modes, Opts
<1> DEFINE op == Head(plan)
           t  == Tail(plan)
<1>h. /\ pc = "read" /\ Running /\ plan # <<>>
      /\ UNCHANGED <<pc, opt, argv, plan, pos, file>>
      /\ Doing \in KnownCmd /\ Able(Doing) /\ chip' = Executed(Doing)
      /\ Rest = plan /\ Done' = pos - 1 /\ Rest' = t
  BY HeardIs
<1>1. Doing = Command(op) /\ Doing.op = op
  BY DEF Doing, Command
<1>2. op \in {"reset", "minidriver", "clock", "baud", "addr", "lpm", "sco", "pcm", "i2s"}
  <2>1. op \in PlanStep /\ op # "hci" /\ op # "launch" /\ op # "bogus"
    <3>1. op = plan[1] /\ 1 \in 1..Len(plan)
      BY <1>h, <1>t, TailIs
    <3>2. op \in PlanStep
      BY <1>t, <3>1, ElementOfSeq
    <3>3. op # "launch"
      BY <1>t, <3>1 DEF DownloadInv, DownloadOrder
    <3>4. op # "hci"
      BY <1>h, <1>t DEF PlanOrder
    <3>5. op # "bogus"
      BY <1>1, <1>h DEF Able
    <3> QED
      BY <3>2, <3>3, <3>4, <3>5
  <2> QED
    BY <2>1 DEF PlanStep, Ops, Simple
<1>3. \A x : Has(plan, x) <=> (op = x \/ Has(t, x))
  BY <1>h, <1>t, HasTail
<1>4. ModeInv /\ SetInv
  BY <1>h DEF Asking
<1>5. /\ op = "minidriver" => Has(t, "record") /\ Has(t, "reset")
      /\ \A x \in SetSteps : Wants(opt, x) /\ op = "reset" => Has(t, x)
  <2>1. SettingsOrder(opt, t) /\ t \in Seq(PlanStep)
    BY <1>h, <1>t, SettingsTail, TailIs
  <2>2. op = "minidriver" => Has(t, "record")
    BY <1>h, <1>t, FollowedTail DEF SettingsOrder
  <2>3. Has(t, "record") => Has(t, "reset")
    <3> SUFFICES ASSUME Has(t, "record") PROVE Has(t, "reset")
      OBVIOUS
    <3>1. PICK i \in 1..Len(t) : t[i] = "record"
      BY DEF Has
    <3>2. PICK j \in (i + 1)..Len(t) : t[j] = "reset"
      BY <2>1, <3>1 DEF SettingsOrder, Followed
    <3>3. j \in 1..Len(t)
      BY <3>1, <3>2
    <3> QED
      BY <3>2, <3>3 DEF Has
  <2>4. \A x \in SetSteps : Wants(opt, x) /\ op = "reset" => Has(t, x)
    BY <1>h, <1>t, FollowedTail DEF SettingsOrder
  <2> QED
    BY <2>2, <2>3, <2>4
<1>6. ModeInv'
  <2>1. ASSUME opt.patch, AtRecord'
        PROVE  Done' <= Records /\ chip'.mode = "loader" /\ chip'.ram = 1..Done'
    <3>1. t # <<>> /\ Head(t) = "record"
      BY <1>h, <2>1 DEF AtRecord
    <3>2. op = "minidriver" /\ pos = 1
      BY <1>h, <1>t, <3>1, SettingsTail, DownloadTail
    <3>3. chip'.mode = "loader" /\ chip'.ram = {}
      BY <1>1, <1>h, <1>t, <3>2, ExecutedSays
    <3>4. Done' = 0 /\ Records \in Nat
      BY <1>h, <3>2, Assumptions
    <3> QED
      BY <3>3, <3>4
  <2>2. ASSUME opt.patch, ~Has(t, "record") PROVE chip'.mode = "patched"
    <3>1. chip.mode = "patched"
      BY <1>3, <1>4, <1>h, <2>2 DEF ModeInv
    <3>2. op # "minidriver"
      BY <1>5, <2>2
    <3> QED
      BY <1>1, <1>2, <1>h, <1>t, <3>1, <3>2, ExecutedSays
  <2> QED
    BY <1>h, <2>1, <2>2 DEF ModeInv
<1>7. SetInv'
  <2> SUFFICES ASSUME Sound, ~Has(t, "reset")
               PROVE  /\ \A x \in chip'.set : x = "clock" \/ (x \in SetSteps /\ Wants(opt, x))
                      /\ \A x \in SetSteps : Wants(opt, x) /\ ~Has(t, x) => x \in chip'.set
    BY <1>h DEF SetInv, Sound
  <2>1. CASE op = "reset"
    <3>1. chip'.set = {}
      BY <1>1, <1>h, <1>t, <2>1, ExecutedSays
    <3> QED
      BY <1>5, <2>1, <3>1
  <2>2. CASE op = "minidriver"
    BY <1>5, <2>2
  <2>3. ASSUME op \notin {"reset", "minidriver"}
        PROVE  /\ \A x \in chip.set : x = "clock" \/ (x \in SetSteps /\ Wants(opt, x))
               /\ \A x \in SetSteps : Wants(opt, x) /\ ~Has(t, x) /\ x # op => x \in chip.set
    BY <1>3, <1>4, <1>h, <2>3 DEF SetInv
  <2>4. CASE op = "baud"
    <3>1. chip'.set = chip.set
      BY <1>1, <1>h, <1>t, <2>4, ExecutedSays
    <3> QED
      BY <2>3, <2>4, <3>1 DEF SetSteps
  <2>5. CASE op = "clock"
    <3>1. chip'.set = chip.set \cup {"clock"}
      BY <1>1, <1>h, <1>t, <2>5, ExecutedSays
    <3> QED
      BY <2>3, <2>5, <3>1 DEF SetSteps
  <2>6. CASE op \in SetSteps
    <3>1. Wants(opt, op)
      BY <1>3, <1>t, <2>6 DEF SettingsOrder
    <3>2. chip'.set = chip.set \cup {op}
      <4>1. CASE op = "addr"
        <5>1. opt.addr = "asked"
          <6>1. opt.addr # "junk" /\ opt.addr # "none"
            BY <1>t, <3>1, <4>1 DEF AskInv, Wants
          <6> QED
            BY <1>t, <6>1 DEF Opts
        <5>2. Doing.arg = <<1>>
          BY <1>1, <4>1, <5>1 DEF Command
        <5> QED
          BY <1>1, <1>h, <1>t, <4>1, <5>2, ExecutedSays
      <4>2. CASE op # "addr"
        BY <1>1, <1>h, <1>t, <2>6, <4>2, ExecutedSays DEF SetSteps
      <4> QED
        BY <4>1, <4>2
    <3>3. op \notin {"reset", "minidriver"}
      BY <2>6 DEF SetSteps
    <3> QED
      BY <2>3, <2>6, <3>1, <3>2, <3>3
  <2> QED
    BY <1>2, <2>1, <2>2, <2>4, <2>5, <2>6 DEF SetSteps
<1> QED
  BY <1>6, <1>7

----------------------------------------------------------------------------
(* What was asked for is there at the end.                                 *)

LEMMA ConfNext == TypeInv /\ LockInv /\ ConfInv /\ [Next]_vars => ConfInv'
<1> SUFFICES ASSUME TypeInv, LockInv, ConfInv, [Next]_vars PROVE ConfInv'
  OBVIOUS
<1>1. AskInv' /\ PlanOrder'
  BY AskNext, OrderNext DEF LockInv, ConfInv
<1>2. ASSUME Regular', Running' PROVE RateInv' /\ ModeInv' /\ SetInv'
  <2>1. Regular
    BY <1>2, KeptNext
  <2>2. Asking /\ TurnInv
    BY <2>1 DEF Asking, InStep, LockInv, ConfInv
  <2>3. RateInv'
    BY <1>2, <2>2, RateNext
  <2>4. ModeInv' /\ SetInv'
    <3>1. CASE ParseArg \/ NoUart \/ Restart
      <4>1. pc' = "parse" \/ (pc' = "exited" /\ code' # 0)
        BY <3>1 DEF ParseArg, NoUart, Restart, LockInv, ArgInv
      <4> QED
        BY <1>2, <4>1 DEF Running
    <3>2. CASE OpenUart
      BY <2>2, <3>2, OpenSettings
    <3>3. CASE (\E op \in Simple : SendCmd(op)) \/ SendRecord
      BY <2>2, <3>3, SendSettings
    <3>4. CASE EndDownload
      BY <2>2, <3>4, EndSettings
    <3>5. CASE EnableHci
      BY <2>2, <3>5, HciSettings
    <3>6. CASE ReadPart \/ ReadLast \/ Disarm \/ ReadTwo
      BY <2>2, <3>6, ReadSettings
    <3>7. CASE Exit \/ Expire \/ Boot \/ Lose \/ Arrive \/ UNCHANGED vars
      BY <1>2, <2>2, <3>7, WaitSettings
    <3>8. CASE Take
      BY <1>2, <2>2, <3>8, RecordSettings, OtherSettings
    <3>9. CASE ExpireLate
      BY <1>2, <3>9 DEF ExpireLate, Regular
    <3>10. CASE Refuse
      BY <1>2, <3>10 DEF Refuse, Regular
    <3>11. CASE Ignore
      BY <2>2, <3>11 DEF Ignore, Listens, TurnInv
    <3> QED
      BY <3>1, <3>2, <3>3, <3>4, <3>5, <3>6, <3>7, <3>8, <3>9, <3>10, <3>11
      DEF Next, Program, Chip
  <2> QED
    BY <2>3, <2>4
<1> QED
  BY <1>1, <1>2 DEF ConfInv

LEMMA ConfInit == Init => ConfInv
<1> SUFFICES ASSUME Init PROVE ConfInv
  OBVIOUS
<1>1. pc = "parse" /\ argi = 1 /\ opt = Default /\ plan = <<>>
  BY DEF Init
<1>2. AskInv
  BY <1>1, AskDefault
<1>3. PlanOrder
  BY <1>1, PlanEmpty DEF PlanOrder
<1> QED
  BY <1>1, <1>2, <1>3 DEF ConfInv, Running

\* When the program has succeeded, the chip runs the firmware that was asked for,
\* at the rate that was asked for, with the settings that were asked for and no
\* other, for any number of records and whatever a starting chip has missed
\* (main, l.813-853).
THEOREM ComesOutAsAsked == Spec => []Configured
<1>1. TypeInv /\ LockInv /\ ConfInv => Configured
  <2> SUFFICES ASSUME TypeInv, LockInv, ConfInv, Succeeded, Regular, Sound PROVE AsAsked
    BY DEF Configured, Regular
  <2>1. Running /\ pc \in {"asleep", "exited"} /\ ArgInv
    BY DEF Succeeded, Running, LockInv
  <2>2. plan = <<>> /\ AskInv
    BY <2>1 DEF ConfInv, PlanOrder
  <2>3. Rest = <<>> /\ \A x : ~Has(Rest, x)
    BY <2>1, <2>2, PlanEmpty DEF Rest, Took
  <2>4. RateInv /\ ModeInv /\ SetInv
    BY <2>1 DEF ConfInv
  <2>5. rate = chip.rate
    BY <2>1 DEF LockInv, StepInv, Missed
  <2>6. /\ opt.hci <=> Given("enable_hci")
        /\ AskedRate = IF opt.rate = 0 THEN Base ELSE opt.rate
        /\ \A s : s \in AskedSettings <=> (s \in SetSteps /\ Wants(opt, s))
    BY <2>1, <2>2, AskedAll
  <2>7. Given("patchram") => chip.mode = "patched"
    BY <2>1, <2>3, <2>4, AskedIs DEF ModeInv
  <2>8. chip.rate = AskedRate
    BY <2>2, <2>4, <2>5, <2>6, PlanEmpty DEF RateInv
  <2>9. chip.set \ {"clock"} = AskedSettings
    <3>1. /\ \A x \in chip.set : x = "clock" \/ (x \in SetSteps /\ Wants(opt, x))
          /\ \A x \in SetSteps : Wants(opt, x) => x \in chip.set
      BY <2>3, <2>4 DEF SetInv
    <3>2. "clock" \notin SetSteps
      BY DEF SetSteps
    <3> QED
      BY <2>6, <3>1, <3>2
  <2>10. pc = "asleep" <=> Given("enable_hci")
    <3>1. (pc = "asleep" => opt.hci) /\ (pc = "exited" => ~opt.hci)
      BY <2>1 DEF ConfInv, PlanOrder
    <3> QED
      BY <2>1, <2>6, <3>1
  <2> QED
    BY <2>7, <2>8, <2>9, <2>10 DEF AsAsked
<1>2. Init => TypeInv /\ LockInv /\ ConfInv
  BY TypeInit, LockInit, ConfInit
<1>3. (TypeInv /\ LockInv /\ ConfInv) /\ [Next]_vars => (TypeInv /\ LockInv /\ ConfInv)'
  BY TypeNext, LockNext, ConfNext
<1> QED
  BY <1>1, <1>2, <1>3, PTL DEF Spec

----------------------------------------------------------------------------
(* Out of step.                                                            *)

\* The steps before the download, and those after it that set the rate.
Early(o) == If(o.early /\ o.rate # 0, Baud(o))
Later(o) == If(o.rate # 0, Baud(o))

LEMMA ConcatAt ==
  ASSUME NEW s \in Seq(PlanStep), NEW t \in Seq(PlanStep), NEW n, Len(s) = n
  PROVE  /\ s \o t \in Seq(PlanStep) /\ Len(s) \in Nat /\ Len(t) \in Nat
         /\ Len(s \o t) = n + Len(t)
         /\ \A k \in 1..n : (s \o t)[k] = s[k]
         /\ \A k \in (n + 1)..(n + Len(t)) : (s \o t)[k] = t[k - n]
<1>1. /\ s \o t \in Seq(PlanStep) /\ Len(s) \in Nat /\ Len(t) \in Nat
      /\ Len(s \o t) = Len(s) + Len(t)
      /\ \A i \in 1..Len(s) + Len(t) :
           (s \o t)[i] = IF i <= Len(s) THEN s[i] ELSE t[i - Len(s)]
  BY ConcatProperties, LenProperties
<1> QED
  BY <1>1

LEMMA BaudIs ==
  ASSUME NEW o \in Opts
  PROVE  /\ Baud(o) \in Seq(PlanStep) /\ Len(Baud(o)) \in {1, 2}
         /\ \A i \in 1..Len(Baud(o)) : Baud(o)[i] = IF i = Len(Baud(o)) THEN "baud" ELSE "clock"
<1> DEFINE fast == o.rate > 3000000
<1>1. Baud(o) = If(fast, <<"clock">>) \o <<"baud">> /\ fast \in BOOLEAN
  BY SMT DEF Baud
<1> HIDE DEF fast
<1>p. "clock" \in PlanStep /\ "baud" \in PlanStep
  BY DEF PlanStep, Ops, Simple
<1>2. CASE fast
  <2>1. /\ Baud(o) \in Seq(PlanStep) /\ Len(Baud(o)) = 2
        /\ Baud(o)[1] = "clock" /\ Baud(o)[2] = "baud"
    <3>1. If(fast, <<"clock">>) = <<"clock">>
      BY <1>2 DEF If
    <3>2. <<"clock">> \in Seq(PlanStep) /\ <<"baud">> \in Seq(PlanStep)
          /\ Len(<<"clock">>) = 1 /\ Len(<<"baud">>) = 1
      BY <1>p
    <3>3. /\ Baud(o) \in Seq(PlanStep) /\ Len(Baud(o)) = 1 + 1
          /\ Baud(o)[1] = <<"clock">>[1] /\ Baud(o)[2] = <<"baud">>[2 - 1]
      BY <1>1, <3>1, <3>2, ConcatAt
    <3> QED
      BY <3>3
  <2> QED
    BY <2>1
<1>3. CASE ~fast
  <2>1. Baud(o) = <<>> \o <<"baud">>
    BY <1>1, <1>3 DEF If
  <2>2. Baud(o) = <<"baud">>
    BY <1>p, <2>1, ConcatEmptySeq
  <2> QED
    BY <1>p, <2>2
<1> QED
  BY <1>1, <1>2, <1>3

LEMMA EarlyIs ==
  ASSUME NEW o \in Opts
  PROVE  /\ Early(o) \in Seq(PlanStep) /\ Later(o) \in Seq(PlanStep)
         /\ Len(Early(o)) \in 0..2 /\ Len(Later(o)) \in 0..2
         /\ (Len(Early(o)) = 0) <=> ~(o.early /\ o.rate # 0)
         /\ (Len(Later(o)) = 0) <=> (o.rate = 0)
         /\ \A i \in 1..Len(Early(o)) :
              Early(o)[i] = IF i = Len(Early(o)) THEN "baud" ELSE "clock"
         /\ \A i \in 1..Len(Later(o)) :
              Later(o)[i] = IF i = Len(Later(o)) THEN "baud" ELSE "clock"
<1>1. \A b \in BOOLEAN : LET s == If(b, Baud(o)) IN
        /\ s \in Seq(PlanStep) /\ Len(s) \in 0..2 /\ ((Len(s) = 0) <=> ~b)
        /\ \A i \in 1..Len(s) : s[i] = IF i = Len(s) THEN "baud" ELSE "clock"
  <2> SUFFICES ASSUME NEW b \in BOOLEAN
               PROVE  LET s == If(b, Baud(o)) IN
        /\ s \in Seq(PlanStep) /\ Len(s) \in 0..2 /\ ((Len(s) = 0) <=> ~b)
        /\ \A i \in 1..Len(s) : s[i] = IF i = Len(s) THEN "baud" ELSE "clock"
    OBVIOUS
  <2>1. CASE b
    <3>1. If(b, Baud(o)) = Baud(o)
      BY <2>1 DEF If
    <3>2. /\ Baud(o) \in Seq(PlanStep) /\ Len(Baud(o)) \in {1, 2}
          /\ \A i \in 1..Len(Baud(o)) : Baud(o)[i] = IF i = Len(Baud(o)) THEN "baud" ELSE "clock"
      BY BaudIs
    <3>3. Len(Baud(o)) \in 0..2 /\ Len(Baud(o)) # 0
      BY <3>2
    <3> QED
      BY <2>1, <3>1, <3>2, <3>3, Zenon
  <2>2. CASE ~b
    <3>1. If(b, Baud(o)) = <<>>
      BY <2>2 DEF If
    <3> QED
      BY <2>2, <3>1, EmptySeq
  <2> QED
    BY <2>1, <2>2
<1>2. o.early \in BOOLEAN /\ (o.rate # 0) \in BOOLEAN /\ (o.early /\ o.rate # 0) \in BOOLEAN
  BY DEF Opts
<1> QED
  BY <1>1, <1>2 DEF Early, Later

\* Where the minidriver stands among the steps: the record is next, and the
\* second reset after it.
Driver(o) == Len(Early(o)) + 2

LEMMA StepsAre ==
  ASSUME NEW o \in Opts, o.patch
  PROVE  /\ Steps(o) \in Seq(PlanStep) /\ Driver(o) \in 2..4
         /\ (Driver(o) = 2) <=> ~(o.early /\ o.rate # 0)
         /\ Len(Later(o)) \in 0..2 /\ ((Len(Later(o)) = 0) <=> (o.rate = 0))
         /\ Len(Steps(o)) \in Nat /\ Len(Steps(o)) >= Driver(o) + 2 + Len(Later(o))
         /\ \A k \in 1..Len(Steps(o)) :
              /\ (Steps(o)[k] = "minidriver") <=> (k = Driver(o))
              /\ (Steps(o)[k] = "record") <=> (k = Driver(o) + 1)
              /\ (Steps(o)[k] = "reset") <=> (k = 1 \/ k = Driver(o) + 2)
              /\ (Steps(o)[k] = "baud") <=>
                   \/ o.early /\ o.rate # 0 /\ k = Driver(o) - 1
                   \/ o.rate # 0 /\ k = Driver(o) + 2 + Len(Later(o))
              /\ (Steps(o)[k] = "hci") => k > Driver(o) + 2 + Len(Later(o))
<1> DEFINE early == Early(o)
           late  == Later(o)
           hci   == If(o.hci, <<"hci">>)
           down  == Download(o)
           set   == Set(o)
           e == Len(early)
           m == Len(late)
           others == {"addr", "lpm", "sco", "pcm", "i2s", "hci"}
<1>1. /\ early \in Seq(PlanStep) /\ late \in Seq(PlanStep) /\ e \in 0..2 /\ m \in 0..2
      /\ ((e = 0) <=> ~(o.early /\ o.rate # 0)) /\ ((m = 0) <=> (o.rate = 0))
      /\ \A i \in 1..e : early[i] = IF i = e THEN "baud" ELSE "clock"
      /\ \A i \in 1..m : late[i] = IF i = m THEN "baud" ELSE "clock"
  BY EarlyIs
<1>p. others \subseteq PlanStep /\ {"reset", "minidriver", "record"} \subseteq PlanStep
  BY DEF PlanStep, Ops, Simple
<1>2. down = <<"minidriver", "record", "reset">>
  BY DEF Download, If
<1>3. set \in Seq(SetSteps) /\ SetSteps \subseteq PlanStep
  BY SetIs DEF SetSteps, PlanStep, Ops, Simple
<1>4. hci \in Seq({"hci"}) /\ hci \in Seq(PlanStep)
  <2>1. o.hci \in BOOLEAN
    BY DEF Opts
  <2>2. \A A : "hci" \in A => <<"hci">> \in Seq(A)
    OBVIOUS
  <2> QED
    BY <1>p, <2>1, <2>2, IfType
<1>s. /\ set \in Seq(PlanStep) /\ Len(set) \in Nat /\ Len(hci) \in Nat
      /\ \A i \in 1..Len(set) : set[i] \in SetSteps
      /\ \A i \in 1..Len(hci) : hci[i] = "hci"
  <2>1. set \in Seq(PlanStep)
    BY <1>3, SeqMonotonic
  <2> QED
    BY <1>3, <1>4, <2>1
<1> DEFINE s1 == <<"reset">> \o early
           s2 == s1 \o down
           s3 == s2 \o late
           s4 == s3 \o set
<1>5. /\ <<"reset">> \in Seq(PlanStep) /\ Len(<<"reset">>) = 1 /\ <<"reset">>[1] = "reset"
      /\ down \in Seq(PlanStep) /\ Len(down) = 3 /\ down[1] = "minidriver"
      /\ down[2] = "record" /\ down[3] = "reset"
  BY <1>p, <1>2
<1>6. Steps(o) = s4 \o hci
  BY DEF Steps, Early, Later
<1> HIDE DEF early, late, hci, down, set
<1>n. e \in Nat /\ m \in Nat /\ Len(set) \in Nat /\ Len(hci) \in Nat
  BY <1>1, <1>s
<1>7. /\ s1 \in Seq(PlanStep) /\ Len(s1) = 1 + e /\ s1[1] = "reset"
      /\ \A k \in (1 + 1)..(1 + e) : s1[k] = early[k - 1]
  BY <1>1, <1>5, ConcatAt
<1> HIDE DEF s1
<1>8. /\ s2 \in Seq(PlanStep) /\ Len(s2) = (1 + e) + 3
      /\ \A k \in 1..(1 + e) : s2[k] = s1[k]
      /\ \A k \in ((1 + e) + 1)..((1 + e) + 3) : s2[k] = down[k - (1 + e)]
  <2>1. down \in Seq(PlanStep)
    BY <1>5
  <2>2. s1 \in Seq(PlanStep) /\ Len(s1) = 1 + e
    BY <1>7
  <2> DEFINE n == 1 + e
  <2> HIDE DEF n
  <2>3. Len(s1) = n
    BY <2>2 DEF n
  <2>4. /\ s2 \in Seq(PlanStep) /\ Len(s2) = n + Len(down)
        /\ \A k \in 1..n : s2[k] = s1[k]
        /\ \A k \in (n + 1)..(n + Len(down)) : s2[k] = down[k - n]
    BY <2>1, <2>2, <2>3, ConcatAt
  <2>5. Len(down) = 3
    BY <1>5
  <2> QED
    BY <2>4, <2>5 DEF n
<1> HIDE DEF s2
<1>9. /\ s3 \in Seq(PlanStep) /\ Len(s3) = ((1 + e) + 3) + m
      /\ \A k \in 1..((1 + e) + 3) : s3[k] = s2[k]
      /\ \A k \in (((1 + e) + 3) + 1)..(((1 + e) + 3) + m) : s3[k] = late[k - ((1 + e) + 3)]
  BY <1>1, <1>8, ConcatAt
<1> HIDE DEF s3
<1> DEFINE n3 == ((1 + e) + 3) + m
           n4 == n3 + Len(set)
<1> HIDE DEF n3
<1>n3. n3 \in Nat /\ n3 = 4 + e + m /\ n3 = ((1 + e) + 3) + m
  BY <1>n DEF n3
<1>10. /\ s4 \in Seq(PlanStep) /\ Len(s4) = n4
       /\ \A k \in 1..n3 : s4[k] = s3[k]
       /\ \A k \in (n3 + 1)..n4 : s4[k] = set[k - n3]
  BY <1>s, <1>9, <1>n3, ConcatAt
<1> HIDE DEF s4, n4
<1>n4. n4 = n3 + Len(set) /\ n4 \in Nat
  BY <1>n, <1>n3 DEF n4
<1>11. /\ Steps(o) \in Seq(PlanStep) /\ Len(Steps(o)) = n4 + Len(hci)
       /\ \A k \in 1..n4 : Steps(o)[k] = s4[k]
       /\ \A k \in (n4 + 1)..(n4 + Len(hci)) : Steps(o)[k] = hci[k - n4]
  BY <1>4, <1>6, <1>10, ConcatAt
<1>d. Driver(o) = e + 2
  BY DEF Driver, early
<1>12. ASSUME NEW k \in 1..Len(Steps(o))
       PROVE  \/ k = 1 /\ Steps(o)[k] = "reset"
              \/ k - 1 \in 1..e /\ Steps(o)[k] = IF k - 1 = e THEN "baud" ELSE "clock"
              \/ k = e + 2 /\ Steps(o)[k] = "minidriver"
              \/ k = e + 3 /\ Steps(o)[k] = "record"
              \/ k = e + 4 /\ Steps(o)[k] = "reset"
              \/ k - (4 + e) \in 1..m /\ Steps(o)[k] = IF k - (4 + e) = m THEN "baud" ELSE "clock"
              \/ k > 4 + e + m /\ Steps(o)[k] \in SetSteps \cup {"hci"}
  <2>k. k \in Nat /\ k >= 1 /\ k <= n4 + Len(hci)
    BY <1>n, <1>n4, <1>11
  <2>1. CASE k <= 1 + e
    <3>1. k \in 1..(1 + e) /\ k \in 1..((1 + e) + 3) /\ k \in 1..n3 /\ k \in 1..n4
      BY <2>1, <2>k, <1>n, <1>n3, <1>n4
    <3>2. Steps(o)[k] = s1[k]
      BY <3>1, <1>8, <1>9, <1>10, <1>11
    <3>3. k = 1 \/ (k \in (1 + 1)..(1 + e) /\ k - 1 \in 1..e)
      BY <2>1, <2>k, <1>n
    <3> QED
      BY <3>2, <3>3, <1>1, <1>7
  <2>2. CASE k > 1 + e /\ k <= 4 + e
    <3>1. /\ k \in ((1 + e) + 1)..((1 + e) + 3) /\ k \in 1..((1 + e) + 3)
          /\ k \in 1..n3 /\ k \in 1..n4
      BY <2>2, <2>k, <1>n, <1>n3, <1>n4
    <3>2. Steps(o)[k] = down[k - (1 + e)]
      BY <3>1, <1>8, <1>9, <1>10, <1>11
    <3>3. \/ k - (1 + e) = 1 /\ k = e + 2
          \/ k - (1 + e) = 2 /\ k = e + 3
          \/ k - (1 + e) = 3 /\ k = e + 4
      BY <2>2, <2>k, <1>n
    <3> QED
      BY <3>2, <3>3, <1>5
  <2>3. CASE k > 4 + e /\ k <= n3
    <3>1. /\ k \in (((1 + e) + 3) + 1)..(((1 + e) + 3) + m) /\ k \in 1..n3 /\ k \in 1..n4
          /\ k - ((1 + e) + 3) = k - (4 + e) /\ k - (4 + e) \in 1..m
      BY <2>3, <2>k, <1>n, <1>n3, <1>n4
    <3>2. Steps(o)[k] = late[k - (4 + e)]
      BY <3>1, <1>9, <1>10, <1>11
    <3> QED
      BY <3>1, <3>2, <1>1
  <2>4. CASE k > n3 /\ k <= n4
    <3>1. k \in (n3 + 1)..n4 /\ k \in 1..n4 /\ k - n3 \in 1..Len(set) /\ k > 4 + e + m
      BY <2>4, <2>k, <1>n, <1>n3, <1>n4
    <3> QED
      BY <3>1, <1>s, <1>10, <1>11
  <2>5. CASE k > n4
    <3>1. /\ k \in (n4 + 1)..(n4 + Len(hci)) /\ k - n4 \in 1..Len(hci) /\ k > 4 + e + m
      BY <2>5, <2>k, <1>n, <1>n3, <1>n4
    <3> QED
      BY <3>1, <1>s, <1>11
  <2>6. k <= 1 + e \/ (k > 1 + e /\ k <= 4 + e) \/ (k > 4 + e /\ k <= n3)
        \/ (k > n3 /\ k <= n4) \/ k > n4
    BY <2>k, <1>n, <1>n3, <1>n4
  <2> QED
    BY <2>1, <2>2, <2>3, <2>4, <2>5, <2>6
<1>13. ASSUME NEW k \in 1..Len(Steps(o))
       PROVE  /\ (Steps(o)[k] = "minidriver") <=> (k = e + 2)
              /\ (Steps(o)[k] = "record") <=> (k = e + 3)
              /\ (Steps(o)[k] = "reset") <=> (k = 1 \/ k = e + 4)
              /\ (Steps(o)[k] = "baud") <=>
                   \/ o.early /\ o.rate # 0 /\ k = e + 1
                   \/ o.rate # 0 /\ k = e + 4 + m
              /\ (Steps(o)[k] = "hci") => k > e + 4 + m
  <2>k. k \in Nat /\ e \in 0..2 /\ m \in 0..2 /\ k >= 1
    BY <1>1, <1>n, <1>n4, <1>11
  <2>1. \A x \in SetSteps \cup {"hci"} : x \notin {"reset", "baud", "clock", "minidriver", "record"}
    BY DEF SetSteps
  <2> DEFINE x == Steps(o)[k]
  <2> HIDE DEF e, m, x
  <2>2. \/ k = 1 /\ x = "reset"
        \/ k - 1 \in 1..e /\ x = IF k - 1 = e THEN "baud" ELSE "clock"
        \/ k = e + 2 /\ x = "minidriver"
        \/ k = e + 3 /\ x = "record"
        \/ k = e + 4 /\ x = "reset"
        \/ k - (4 + e) \in 1..m /\ x = IF k - (4 + e) = m THEN "baud" ELSE "clock"
        \/ k > 4 + e + m /\ x \in SetSteps \cup {"hci"}
    BY <1>12 DEF x
  <2>3. /\ (x = "minidriver") <=> (k = e + 2)
        /\ (x = "record") <=> (k = e + 3)
        /\ (x = "reset") <=> (k = 1 \/ k = e + 4)
        /\ (x = "hci") => k > e + 4 + m
    BY <2>k, <2>1, <2>2
  <2>4. (x = "baud") <=> (e # 0 /\ k = e + 1) \/ (m # 0 /\ k = e + 4 + m)
    BY <2>k, <2>1, <2>2
  <2> QED
    BY <1>1, <2>3, <2>4 DEF x
<1>14. e + 4 = Driver(o) + 2 /\ e + 1 = Driver(o) - 1 /\ e + 3 = Driver(o) + 1 /\ e + 2 = Driver(o)
  BY <1>1, <1>d
<1>15. Len(Steps(o)) \in Nat /\ Len(Steps(o)) >= Driver(o) + 2 + m
  BY <1>n, <1>n3, <1>n4, <1>11, <1>14
<1>16. Driver(o) \in 2..4 /\ ((Driver(o) = 2) <=> ~(o.early /\ o.rate # 0)) /\ m = Len(Later(o))
  BY <1>1, <1>d DEF late
<1> QED
  BY <1>1, <1>11, <1>13, <1>14, <1>15, <1>16

\* Whether the flag for an early rate was given, and that only a command line
\* with the file's name has a file.
FlagInv ==
  /\ opt.early <=> SoFar("use_baudrate_for_download")
  /\ file # <<>> => Given("patchram")

LEMMA FlagInit == Init => FlagInv
<1> SUFFICES ASSUME Init PROVE FlagInv
  OBVIOUS
<1>1. argi = 1 /\ opt.early = FALSE
  BY DEF Init, Default
<1>2. ~SoFar("use_baudrate_for_download")
  BY <1>1 DEF SoFar
<1>3. file # <<>> => Given("patchram")
  BY DEF Init
<1> QED
  BY <1>1, <1>2, <1>3 DEF FlagInv

LEMMA FlagNext == TypeInv /\ FlagInv /\ [Next]_vars => FlagInv'
<1> SUFFICES ASSUME TypeInv, FlagInv, [Next]_vars PROVE FlagInv'
  OBVIOUS
<1>1. argv' = argv /\ file' = file
  BY KeptNext
<1>2. (file # <<>> => Given("patchram"))'
  BY <1>1 DEF FlagInv, Given
<1>t. Len(argv) \in Nat /\ argi \in 1..(Len(argv) + 1) /\ opt \in Opts
      /\ \A i \in 1..Len(argv) : argv[i] \in [opt : Options, val : Nat]
  BY Assumptions, LenProperties, ElementOfSeq DEF TypeInv, TypeOK, Opts
<1>3. (opt.early <=> SoFar("use_baudrate_for_download"))'
  <2>1. CASE UNCHANGED <<opt, argi>>
    BY <1>1, <2>1 DEF FlagInv, SoFar
  <2>2. CASE ParseArg
    <3>1. argi \in 1..Len(argv)
      BY <2>2, <1>t DEF ParseArg
    <3>2. CASE Fault(argv[argi]) = 0
      <4>1. opt' = With(argv[argi], opt) /\ argi' = argi + 1
        BY <2>2, <3>2 DEF ParseArg
      <4> DEFINE a == argv[argi]
      <4>2. a \in [opt : Options, val : Nat]
        BY <1>t, <3>1
      <4> HIDE DEF a
      <4>3. With(a, opt).early <=> (opt.early \/ a.opt = "use_baudrate_for_download")
        <5>1. a.opt \in Options /\ opt.early \in BOOLEAN
          BY <4>2, <1>t DEF Opts
        <5>2. CASE a.opt = "use_baudrate_for_download"
          BY <5>1, <5>2, <1>t DEF With, Opts
        <5>3. CASE a.opt \in Options \ {"use_baudrate_for_download"}
          BY <5>1, <5>3, <1>t DEF With, Opts, Options, Flags
        <5> QED
          BY <5>1, <5>2, <5>3
      <4>4. SoFar("use_baudrate_for_download")' <=>
              (SoFar("use_baudrate_for_download") \/ a.opt = "use_baudrate_for_download")
        BY <1>1, <1>t, <3>1, <4>1 DEF SoFar, a
      <4> QED
        BY <4>1, <4>3, <4>4 DEF FlagInv, a
    <3>3. CASE Fault(argv[argi]) # 0
      BY <1>1, <2>2, <3>3 DEF ParseArg, FlagInv, SoFar
    <3> QED
      BY <3>2, <3>3
  <2>3. CASE Restart
    BY <1>1, <2>3 DEF Restart, Default, SoFar
  <2>4. ASSUME NEW op \in Simple, SendCmd(op) PROVE UNCHANGED <<opt, argi>>
    BY <2>4 DEF SendCmd, args
  <2> QED
    BY <2>1, <2>2, <2>3, <2>4
    DEF Next, vars, args, Program, Chip, OpenUart, NoUart, SendRecord, EndDownload, EnableHci,
        Exit, ReadPart, ReadLast, Disarm, ReadTwo, Expire, ExpireLate, Again, Take, Refuse,
        Ignore, Boot, Lose, Arrive
<1> QED
  BY <1>2, <1>3 DEF FlagInv

LEMMA FlagIs ==
  ASSUME TypeInv, ArgInv, FlagInv, Running
  PROVE  opt.early <=> Given("use_baudrate_for_download")
<1>1. Len(argv) \in Nat /\ argi = Len(argv) + 1
  BY Assumptions, LenProperties DEF TypeInv, TypeOK, ArgInv
<1> QED
  BY <1>1 DEF SoFar, Given, FlagInv

----------------------------------------------------------------------------
(* Where the program is.                                                   *)

Active == pc \in {"send", "read", "disarm", "two"}

\* The steps that are left are the end of all the steps.
EndOf(s, t) == Len(s) <= Len(t) /\ \A i \in 1..Len(s) : s[i] = t[Len(t) - Len(s) + i]

\* The place of the present step: 0 for the minidriver, 1 for the records.
Place == Len(Steps(opt)) - Len(plan) + 1 - Driver(opt)

\* The rate of the UART at a place.
RateAt(p) == IF (opt.early /\ p \in {0, 1}) \/ p > 2 + Len(Later(opt)) THEN AskedRate ELSE Base

WhereInv ==
  /\ pc # "read" => buf = <<>>
  /\ alarm => pc \in {"read", "disarm"} /\ Head(plan) = "reset"
  /\ pc = "disarm" => Head(plan) = "reset"
  /\ pc = "two" => Head(plan) = "minidriver"
  /\ Active /\ opt.patch =>
       /\ EndOf(plan, Steps(opt))
       /\ Place <= 0 => pos = 1
       /\ Place = 1 /\ pc = "read" /\ file = Image => pos > 1
       /\ rate = RateAt(Place)

LEMMA EndTail ==
  ASSUME NEW s \in Seq(PlanStep), NEW t, Len(t) \in Nat, EndOf(s, t), s # <<>>
  PROVE  EndOf(Tail(s), t)
<1>1. /\ Len(s) \in Nat /\ Len(s) >= 1 /\ Len(Tail(s)) = Len(s) - 1
      /\ \A i \in 1..Len(Tail(s)) : Tail(s)[i] = s[i + 1]
  BY TailIs
<1>2. Len(Tail(s)) <= Len(t)
  BY <1>1 DEF EndOf
<1>3. ASSUME NEW i \in 1..Len(Tail(s))
      PROVE  Tail(s)[i] = t[Len(t) - Len(Tail(s)) + i]
  <2>1. i + 1 \in 1..Len(s) /\ Len(t) - Len(s) + (i + 1) = Len(t) - Len(Tail(s)) + i
    BY <1>1
  <2>2. s[i + 1] = t[Len(t) - Len(s) + (i + 1)]
    BY <2>1 DEF EndOf
  <2> QED
    BY <1>1, <2>1, <2>2
<1> QED
  BY <1>2, <1>3 DEF EndOf

LEMMA PlaceIs ==
  ASSUME TypeInv, WhereInv, Active, opt.patch
  PROVE  /\ Place \in Int /\ Len(plan) \in Nat /\ opt \in Opts /\ Len(Steps(opt)) \in Nat
         /\ Driver(opt) \in 2..4 /\ Place >= 1 - Driver(opt)
         /\ ((Driver(opt) = 2) <=> ~(opt.early /\ opt.rate # 0))
         /\ Len(Later(opt)) \in 0..2 /\ ((Len(Later(opt)) = 0) <=> (opt.rate = 0))
         /\ Place <= 2 + Len(Later(opt)) => plan # <<>>
         /\ (Len(plan) = Len(Steps(opt))) <=> (Place = 1 - Driver(opt))
         /\ plan # <<>> =>
              /\ (Head(plan) = "minidriver") <=> (Place = 0)
              /\ (Head(plan) = "record") <=> (Place = 1)
              /\ (Head(plan) = "reset") <=> (Place = 1 - Driver(opt) \/ Place = 2)
              /\ (Head(plan) = "baud") <=>
                   \/ opt.early /\ opt.rate # 0 /\ Place = 0 - 1
                   \/ opt.rate # 0 /\ Place = 2 + Len(Later(opt))
              /\ (Head(plan) = "hci") => Place > 2 + Len(Later(opt))
<1>1. plan \in Seq(PlanStep) /\ opt \in Opts /\ Len(plan) \in Nat
  BY LenProperties DEF TypeInv, TypeOK, PlanInv, MayBe, Opts
<1> DEFINE n == Len(Steps(opt))
           d == Driver(opt)
           m == Len(Later(opt))
           l == Len(plan)
<1>2. /\ n \in Nat /\ d \in 2..4 /\ ((d = 2) <=> ~(opt.early /\ opt.rate # 0))
      /\ m \in 0..2 /\ ((m = 0) <=> (opt.rate = 0)) /\ n >= d + 2 + m
      /\ \A k \in 1..n :
              /\ (Steps(opt)[k] = "minidriver") <=> (k = d)
              /\ (Steps(opt)[k] = "record") <=> (k = d + 1)
              /\ (Steps(opt)[k] = "reset") <=> (k = 1 \/ k = d + 2)
              /\ (Steps(opt)[k] = "baud") <=>
                   \/ opt.early /\ opt.rate # 0 /\ k = d - 1
                   \/ opt.rate # 0 /\ k = d + 2 + m
              /\ (Steps(opt)[k] = "hci") => k > d + 2 + m
  BY <1>1, StepsAre
<1>3. l <= n /\ \A i \in 1..l : plan[i] = Steps(opt)[n - l + i]
  BY DEF WhereInv, EndOf
<1>4. Place = n - l + 1 - d
  BY DEF Place
<1>5. plan # <<>> => l >= 1 /\ Head(plan) = Steps(opt)[n - l + 1]
  <2> SUFFICES ASSUME plan # <<>> PROVE l >= 1 /\ Head(plan) = Steps(opt)[n - l + 1]
    OBVIOUS
  <2>1. Len(plan) >= 1 /\ Head(plan) = plan[1]
    BY <1>1, TailIs
  <2> QED
    BY <1>1, <1>3, <2>1
<1>6. plan = <<>> => l = 0
  OBVIOUS
<1> HIDE DEF n, d, m, l
<1>7. l \in Nat
  BY <1>1 DEF l
<1>8. /\ Place \in Int /\ Place >= 1 - d /\ (Place <= 2 + m => plan # <<>>)
      /\ ((l = n) <=> (Place = 1 - d))
  BY <1>2, <1>3, <1>4, <1>6, <1>7
<1>9. ASSUME plan # <<>>
      PROVE   /\ (Head(plan) = "minidriver") <=> (Place = 0)
              /\ (Head(plan) = "record") <=> (Place = 1)
              /\ (Head(plan) = "reset") <=> (Place = 1 - d \/ Place = 2)
              /\ (Head(plan) = "baud") <=>
                   \/ opt.early /\ opt.rate # 0 /\ Place = 0 - 1
                   \/ opt.rate # 0 /\ Place = 2 + m
              /\ (Head(plan) = "hci") => Place > 2 + m
  <2> DEFINE k == n - l + 1
  <2>1. k \in 1..n /\ Head(plan) = Steps(opt)[k]
    BY <1>2, <1>3, <1>5, <1>7, <1>9
  <2>2. Place = k - d
    BY <1>4, <1>7, <1>2
  <2> HIDE DEF k
  <2>3. /\ (k = d) <=> (Place = 0)
        /\ (k = d + 1) <=> (Place = 1)
        /\ (k = 1) <=> (Place = 1 - d)
        /\ (k = d + 2) <=> (Place = 2)
        /\ (k = d - 1) <=> (Place = 0 - 1)
        /\ (k = d + 2 + m) <=> (Place = 2 + m)
        /\ (k > d + 2 + m) <=> (Place > 2 + m)
    BY <1>2, <2>1, <2>2
  <2>4. /\ (Steps(opt)[k] = "minidriver") <=> (k = d)
        /\ (Steps(opt)[k] = "record") <=> (k = d + 1)
        /\ (Steps(opt)[k] = "reset") <=> (k = 1 \/ k = d + 2)
        /\ (Steps(opt)[k] = "baud") <=>
             \/ opt.early /\ opt.rate # 0 /\ k = d - 1
             \/ opt.rate # 0 /\ k = d + 2 + m
        /\ (Steps(opt)[k] = "hci") => k > d + 2 + m
    BY <1>2, <2>1
  <2> QED
    BY <2>1, <2>3, <2>4
<1> QED
  BY <1>1, <1>2, <1>8, <1>9 DEF n, d, m, l

LEMMA WhereInit == Init => WhereInv
BY DEF Init, WhereInv, Active

\* Staying at a step, and going on to the next.
LEMMA StayIs ==
  ASSUME opt' = opt, argv' = argv, plan' = plan
  PROVE  Place' = Place /\ \A p : RateAt(p)' = RateAt(p)
BY DEF Place, RateAt, AskedRate, Given

LEMMA MoveIs ==
  ASSUME TypeInv, WhereInv, Active, opt.patch, opt' = opt, argv' = argv,
         plan # <<>>, plan' = Tail(plan)
  PROVE  /\ Place' = Place + 1 /\ EndOf(plan, Steps(opt))'
         /\ \A p : RateAt(p)' = RateAt(p)
<1>1. plan \in Seq(PlanStep) /\ Len(Steps(opt)) \in Nat /\ Driver(opt) \in Nat
  BY PlaceIs DEF TypeInv, PlanInv, MayBe
<1>2. Len(plan') = Len(plan) - 1 /\ Len(plan) \in Nat
  BY <1>1, TailIs
<1>3. Place' = Place + 1
  <2>1. Place' = Len(Steps(opt)) - Len(plan') + 1 - Driver(opt)
    BY DEF Place
  <2> QED
    BY <1>1, <1>2, <2>1 DEF Place
<1>4. EndOf(plan', Steps(opt))
  BY <1>1, EndTail DEF WhereInv
<1> QED
  BY <1>3, <1>4 DEF RateAt, AskedRate, Given

LEMMA RateMoves ==
  ASSUME TypeInv, ArgInv, AskInv, WhereInv, Active, opt.patch, plan # <<>>
  PROVE  /\ Head(plan) = "baud" => RateAt(Place + 1) = opt.rate
         /\ Head(plan) \notin {"baud", "record"} => RateAt(Place + 1) = RateAt(Place)
         /\ Head(plan) = "record" => RateAt(Place + 1) = IF opt.early THEN Base ELSE RateAt(Place)
<1> DEFINE m == Len(Later(opt))
           p == Place
           h == Head(plan)
<1>1. /\ p \in Int /\ m \in 0..2 /\ ((m = 0) <=> (opt.rate = 0))
      /\ (h = "record") <=> (p = 1)
      /\ (h = "baud") <=> \/ opt.early /\ opt.rate # 0 /\ p = 0 - 1
                          \/ opt.rate # 0 /\ p = 2 + m
  BY PlaceIs
<1>2. AskedRate = IF opt.rate = 0 THEN Base ELSE opt.rate
  BY AskedAll DEF Active, Running
<1>3. \A q : RateAt(q) = IF (opt.early /\ q \in {0, 1}) \/ q > 2 + m THEN AskedRate ELSE Base
  BY DEF RateAt
<1> HIDE DEF m, p, h
<1>4. h = "baud" => RateAt(p + 1) = opt.rate
  <2> SUFFICES ASSUME h = "baud" PROVE RateAt(p + 1) = opt.rate
    OBVIOUS
  <2>1. AskedRate = opt.rate
    BY <1>1, <1>2
  <2>2. (opt.early /\ p + 1 \in {0, 1}) \/ p + 1 > 2 + m
    BY <1>1
  <2> QED
    BY <1>3, <2>1, <2>2
<1>5. h \notin {"baud", "record"} => RateAt(p + 1) = RateAt(p)
  <2> SUFFICES ASSUME h \notin {"baud", "record"} PROVE RateAt(p + 1) = RateAt(p)
    OBVIOUS
  <2>1. CASE opt.rate = 0
    BY <1>2, <1>3, <2>1
  <2>2. CASE opt.rate # 0
    <3>1. p # 1 /\ p # 2 + m /\ (opt.early => p # 0 - 1)
      BY <1>1, <2>2
    <3>2. ((opt.early /\ p + 1 \in {0, 1}) \/ p + 1 > 2 + m)
            <=> ((opt.early /\ p \in {0, 1}) \/ p > 2 + m)
      BY <1>1, <3>1
    <3> QED
      BY <1>3, <3>2
  <2> QED
    BY <2>1, <2>2
<1>6. h = "record" => RateAt(p + 1) = IF opt.early THEN Base ELSE RateAt(p)
  <2> SUFFICES ASSUME h = "record"
               PROVE  RateAt(p + 1) = IF opt.early THEN Base ELSE RateAt(p)
    OBVIOUS
  <2>1. p = 1 /\ ~(p + 1 \in {0, 1}) /\ ~(p + 1 > 2 + m) /\ ~(p > 2 + m)
    BY <1>1
  <2> QED
    BY <1>3, <2>1
<1> QED
  BY <1>4, <1>5, <1>6 DEF p, h

LEMMA WhereNext ==
  TypeInv /\ ArgInv /\ AskInv /\ WhereInv /\ [Next]_vars => WhereInv'
<1> SUFFICES ASSUME TypeInv, ArgInv, AskInv, WhereInv, [Next]_vars PROVE WhereInv'
  OBVIOUS
<1>k. argv' = argv /\ file' = file
  BY KeptNext
<1>t. /\ plan \in Seq(PlanStep) /\ (pc \in {"read", "disarm", "two"} => plan # <<>>)
      /\ opt \in Opts /\ pos \in 1..(Len(file) + 1) /\ Len(file) \in Nat
  <2>1. Len(file) \in Nat
    BY FileType, Assumptions DEF TypeInv, TypeOK
  <2> QED
    BY <2>1 DEF TypeInv, PlanInv, MayBe, TypeOK, Opts
<1>1. CASE UNCHANGED <<pc, opt, plan, pos, buf, alarm, rate>>
  BY <1>k, <1>1, StayIs DEF WhereInv, Active
<1>2. CASE pc' \in {"parse", "exited", "asleep"} /\ buf' = buf /\ alarm' = alarm /\ pc # "read"
           /\ pc # "disarm"
  BY <1>2 DEF WhereInv, Active
<1>3. CASE OpenUart
  <2>1. /\ pc = "parse" /\ pc' = "send" /\ plan' = Steps(opt) /\ rate' = Base /\ opt' = opt
        /\ buf' = buf /\ alarm' = alarm /\ pos' = pos
    BY <1>3 DEF OpenUart, args
  <2>2. pos = 1 /\ buf = <<>> /\ ~alarm
    BY <2>1 DEF ArgInv, WhereInv
  <2>3. ASSUME opt.patch
        PROVE  EndOf(plan, Steps(opt))' /\ Place' <= 0 /\ rate' = RateAt(Place)'
    <3>1. Len(Steps(opt)) \in Nat /\ Driver(opt) \in 2..4 /\ Len(Later(opt)) \in 0..2
          /\ ((Driver(opt) = 2) <=> ~(opt.early /\ opt.rate # 0))
      BY <1>t, <2>3, StepsAre
    <3>2. EndOf(plan, Steps(opt))'
      <4>1. \A i \in 1..Len(Steps(opt)) : Len(Steps(opt)) - Len(Steps(opt)) + i = i
        BY <3>1
      <4> QED
        BY <2>1, <3>1, <4>1 DEF EndOf
    <3>3. Place' = 1 - Driver(opt)
      BY <2>1, <3>1 DEF Place
    <3>4. Place' < 0 /\ ~(Place' \in {0, 1}) /\ ~(Place' > 2 + Len(Later(opt)))
      BY <3>1, <3>3
    <3>5. RateAt(Place)' = Base
      BY <2>1, <3>4 DEF RateAt
    <3> QED
      BY <2>1, <3>1, <3>2, <3>3, <3>4, <3>5
  <2>4. Place' <= 0 => ~(Place' = 1)
    OBVIOUS
  <2> QED
    BY <2>1, <2>2, <2>3, <2>4 DEF WhereInv
<1>4. ASSUME NEW op \in Simple, SendCmd(op) PROVE WhereInv'
  <2>1. /\ pc = "send" /\ pc' = "read" /\ plan # <<>> /\ Head(plan) = op
        /\ alarm' = (op = "reset") /\ UNCHANGED <<opt, plan, pos, buf, rate>>
    BY <1>4 DEF SendCmd, At, args
  <2>2. Place' = Place /\ RateAt(Place)' = RateAt(Place)
    BY <1>k, <2>1, StayIs
  <2>3. op # "record"
    BY DEF Simple
  <2>4. Active /\ opt.patch => Place # 1
    BY <2>1, <2>3, PlaceIs
  <2>5. alarm' => Head(plan') = "reset"
    BY <2>1
  <2> QED
    BY <2>1, <2>2, <2>4, <2>5 DEF WhereInv, Active
<1>5. CASE SendRecord
  <2>1. /\ pc = "send" /\ pc' = "read" /\ plan # <<>> /\ Head(plan) = "record"
        /\ UNCHANGED <<opt, plan, buf, alarm, rate>> /\ pos <= Len(file)
        /\ pos' = IF file[pos] = "error" THEN pos ELSE pos + 1
    BY <1>5 DEF SendRecord, At, args
  <2>2. Place' = Place /\ RateAt(Place)' = RateAt(Place)
    BY <1>k, <2>1, StayIs
  <2>3. Active /\ opt.patch => Place = 1
    BY <2>1, PlaceIs
  <2>4. file = Image => pos' > 1
    <3> SUFFICES ASSUME file = Image PROVE pos' > 1
      OBVIOUS
    <3>1. pos \in 1..(Records + 1)
      <4>1. Len(Image) = Records + 1
        BY Assumptions DEF Image
      <4> QED
        BY <1>t, <2>1, <4>1
    <3>2. file[pos] = "all"
      BY <3>1 DEF Image
    <3> QED
      BY <1>t, <2>1, <3>2
  <2>5. ~alarm
    BY <2>1 DEF WhereInv
  <2>6. ~(Place' <= 0) \/ ~(Active /\ opt.patch)
    BY <2>2, <2>3
  <2> QED
    BY <1>k, <2>1, <2>2, <2>4, <2>5, <2>6 DEF WhereInv, Active
<1>6. CASE EndDownload
  <2>1. /\ pc = "send" /\ pc' = "send" /\ plan # <<>> /\ Head(plan) = "record"
        /\ plan' = Tail(plan) /\ UNCHANGED <<opt, buf, alarm, pos>>
        /\ rate' = IF opt.early THEN Base ELSE rate
    BY <1>6 DEF EndDownload, At, args
  <2>2. ~alarm /\ buf = <<>>
    BY <2>1 DEF WhereInv
  <2>3. ASSUME opt.patch
        PROVE  EndOf(plan, Steps(opt))' /\ Place' = 2 /\ rate' = RateAt(Place)'
    <3>1. Active /\ Place = 1 /\ rate = RateAt(Place)
      BY <2>1, <2>3, PlaceIs DEF Active, WhereInv
    <3>2. /\ EndOf(plan, Steps(opt))' /\ Place' = Place + 1
          /\ RateAt(Place)' = RateAt(Place + 1)
      BY <1>k, <2>1, <2>3, <3>1, MoveIs
    <3> QED
      BY <2>1, <2>3, <3>1, <3>2, RateMoves
  <2> QED
    BY <2>1, <2>2, <2>3 DEF WhereInv
<1>7. CASE ReadLast
  <2>1. /\ pc = "read" /\ buf' = <<>> /\ UNCHANGED <<opt, pos, alarm>> /\ plan # <<>>
        /\ pc' = CASE Head(plan) = "reset"                     -> "disarm"
                   [] Head(plan) = "minidriver" /\ ~opt.no2    -> "two"
                   [] OTHER                                    -> "send"
        /\ plan' = IF pc' = "send" /\ Head(plan) # "record" THEN Tail(plan) ELSE plan
        /\ rate' = IF Head(plan) = "baud" THEN opt.rate ELSE rate
    BY <1>7, <1>t DEF ReadLast, args
  <2>2. /\ pc' \in {"disarm", "two", "send"} /\ (pc' = "disarm" <=> Head(plan) = "reset")
        /\ (pc' = "two" => Head(plan) = "minidriver")
        /\ (Head(plan) = "baud" => pc' = "send")
    BY <2>1
  <2>3. pc' = "disarm" => Head(plan') = "reset"
    BY <2>1, <2>2
  <2>4. pc' = "two" => Head(plan') = "minidriver"
    BY <2>1, <2>2
  <2>5. alarm' => pc' = "disarm"
    BY <2>1, <2>2 DEF WhereInv
  <2>6. ASSUME opt.patch
        PROVE  /\ EndOf(plan, Steps(opt))' /\ (Place' <= 0 => pos = 1)
               /\ rate' = RateAt(Place)'
    <3>1. /\ Active /\ rate = RateAt(Place) /\ EndOf(plan, Steps(opt))
          /\ Place <= 0 => pos = 1
      BY <2>1, <2>6 DEF Active, WhereInv
    <3>2. CASE plan' = plan
      <4>1. Place' = Place /\ RateAt(Place)' = RateAt(Place)
        BY <1>k, <2>1, <3>2, StayIs
      <4>2. Head(plan) # "baud"
        <5> SUFFICES ASSUME Head(plan) = "baud" PROVE FALSE
          OBVIOUS
        <5>1. plan' = Tail(plan)
          BY <2>1, <2>2
        <5>2. Len(Tail(plan)) # Len(plan)
          BY <1>t, <2>1, TailIs
        <5> QED
          BY <3>2, <5>1, <5>2
      <4> QED
        BY <2>1, <3>1, <3>2, <4>1, <4>2
    <3>3. CASE plan' = Tail(plan) /\ Head(plan) # "record"
      <4>1. /\ EndOf(plan, Steps(opt))' /\ Place' = Place + 1
            /\ RateAt(Place)' = RateAt(Place + 1)
        BY <1>k, <2>1, <2>6, <3>1, <3>3, MoveIs
      <4>2. Place \in Int
        BY <2>6, <3>1, PlaceIs
      <4>3. rate' = RateAt(Place + 1)
        BY <2>1, <2>6, <3>1, <3>3, RateMoves
      <4> QED
        BY <3>1, <4>1, <4>2, <4>3
    <3> QED
      BY <2>1, <3>2, <3>3
  <2> QED
    BY <2>1, <2>2, <2>3, <2>4, <2>5, <2>6 DEF WhereInv
<1>8. CASE Disarm \/ ReadTwo
  <2>1. /\ pc \in {"disarm", "two"} /\ pc' = "send" /\ plan' = Tail(plan) /\ plan # <<>>
        /\ UNCHANGED <<opt, pos, buf, rate>> /\ ~alarm'
    <3>1. pc = "two" => ~alarm
      BY DEF WhereInv
    <3> QED
      BY <1>8, <1>t, <3>1 DEF Disarm, ReadTwo, args, line
  <2>2. buf = <<>> /\ Head(plan) \in {"reset", "minidriver"}
    BY <2>1 DEF WhereInv
  <2>3. ASSUME opt.patch
        PROVE  EndOf(plan, Steps(opt))' /\ (Place' <= 0 => pos = 1) /\ rate' = RateAt(Place)'
    <3>1. Active /\ Place \in Int /\ rate = RateAt(Place) /\ (Place <= 0 => pos = 1)
      BY <2>1, <2>3, PlaceIs DEF Active, WhereInv
    <3>2. /\ EndOf(plan, Steps(opt))' /\ Place' = Place + 1
          /\ RateAt(Place)' = RateAt(Place + 1)
      BY <1>k, <2>1, <2>3, <3>1, MoveIs
    <3> QED
      BY <2>1, <2>2, <2>3, <3>1, <3>2, RateMoves
  <2> QED
    BY <2>1, <2>2, <2>3 DEF WhereInv
<1>9. CASE ReadPart
  <2>1. pc = "read" /\ UNCHANGED <<pc, opt, plan, pos, alarm, rate>>
    BY <1>9 DEF ReadPart, args
  <2>2. Place' = Place /\ RateAt(Place)' = RateAt(Place)
    BY <1>k, <2>1, StayIs
  <2> QED
    BY <1>k, <2>1, <2>2 DEF WhereInv, Active
<1>10. CASE Restart
  BY <1>10 DEF Restart, WhereInv, Active
<1>11. CASE ParseArg \/ NoUart \/ EnableHci \/ Exit
  <2>1. /\ pc \in {"parse", "send"} /\ buf' = buf /\ alarm' = alarm
        /\ \/ pc' \in {"parse", "exited", "asleep"}
    BY <1>11 DEF ParseArg, NoUart, EnableHci, Exit, At, work
  <2> QED
    BY <1>2, <2>1
<1> QED
  BY <1>1, <1>3, <1>4, <1>5, <1>6, <1>7, <1>8, <1>9, <1>10, <1>11
  DEF Next, vars, args, work, line, Program, Chip, Expire, ExpireLate, Again, Take, Refuse,
      Ignore, Boot, Lose, Arrive

----------------------------------------------------------------------------
(* What was sent, and what of it is still in the UART's buffer.            *)

InPlace == TypeInv /\ ArgInv /\ AskInv /\ FlagInv /\ WhereInv /\ file = Image

\* The number of what was sent last: 0 is the minidriver, the pieces of the file
\* are next, and then every step has one.
Sent ==
  LET last == IF pc = "send" THEN Place - 1 ELSE Place IN
  IF Place < 1 THEN last ELSE IF Place = 1 THEN pos - 1 ELSE last + Records

InDownload(c) == c.op \in {"minidriver", "record", "launch"}
Number(c) == IF c.op = "minidriver" THEN 0 ELSE c.arg[1]

\* A command as the program makes it of a whole file.
Proper(c) ==
  /\ c.op # "bogus"
  /\ c.op = "baud" => Decoded(c.arg) = AskedRate
  /\ c.op = "record" => c.arg[1] \in 1..Records /\ c.arg[2] = 1
  /\ c.op = "launch" => c.arg[1] = Records + 1 /\ c.arg[2] = 1

\* In the download each command is followed by the next one.
Follows(c, d) ==
  /\ (InDownload(c) /\ Number(c) <= Records) <=> (InDownload(d) /\ Number(d) >= 1)
  /\ InDownload(d) /\ Number(d) >= 1 => Number(c) = Number(d) - 1

QueueInv ==
  /\ \A i \in 1..Len(cmds) : Proper(cmds[i])
  /\ \A i \in 1..(Len(cmds) - 1) : Follows(cmds[i], cmds[i + 1])
  /\ Active =>
       /\ \A i \in 1..Len(cmds) : InDownload(cmds[i]) =>
            Number(cmds[i]) <= Sent /\ Sent <= Number(cmds[i]) + (Len(cmds) - i)
       /\ cmds # <<>> /\ Sent \in 0..(Records + 1) => InDownload(cmds[Len(cmds)])

LEMMA PatchIs ==
  ASSUME InPlace, Active
  PROVE  opt.patch /\ Running /\ Len(file) = Records + 1 /\ Records \in Nat
<1>1. Running /\ Records \in Nat
  BY Assumptions DEF Active, Running
<1>2. Len(file) = Records + 1
  BY <1>1 DEF InPlace, Image
<1>3. file # <<>>
  BY <1>1, <1>2
<1> QED
  BY <1>1, <1>2, <1>3, AskedIs DEF InPlace, FlagInv

LEMMA SentIs ==
  ASSUME InPlace, Active
  PROVE  /\ Sent \in Int /\ Place \in Int /\ pos \in 1..(Records + 2) /\ Records \in Nat
         /\ Place < 1 => Sent = IF pc = "send" THEN Place - 1 ELSE Place
         /\ Place = 1 => Sent = pos - 1
         /\ Place > 1 => Sent = (IF pc = "send" THEN Place - 1 ELSE Place) + Records
         /\ Place <= 0 => pos = 1
<1>1. opt.patch /\ Records \in Nat /\ Len(file) = Records + 1
  BY PatchIs
<1>2. Place \in Int /\ (Place <= 0 => pos = 1)
  BY <1>1, PlaceIs DEF InPlace, WhereInv
<1>3. pos \in 1..(Records + 2)
  <2>1. pos \in 1..((Records + 1) + 1)
    BY <1>1 DEF InPlace, TypeInv, TypeOK
  <2> QED
    BY <1>1, <2>1
<1> QED
  BY <1>1, <1>2, <1>3 DEF Sent

\* Whatever the program does but to send leaves the number as it is.
LEMMA SameSent ==
  ASSUME InPlace, Active,
         \/ EndDownload \/ ReadPart \/ ReadLast \/ Disarm \/ ReadTwo
         \/ UNCHANGED <<pc, opt, plan, pos>>
  PROVE  Sent' = Sent /\ Active'
<1>t. /\ Sent \in Int /\ Place \in Int /\ pos \in 1..(Records + 2) /\ Records \in Nat
      /\ Place < 1 => Sent = IF pc = "send" THEN Place - 1 ELSE Place
      /\ Place = 1 => Sent = pos - 1
      /\ Place > 1 => Sent = (IF pc = "send" THEN Place - 1 ELSE Place) + Records
      /\ Place <= 0 => pos = 1
  BY SentIs
<1>p. /\ opt.patch /\ Len(file) = Records + 1 /\ plan \in Seq(PlanStep)
      /\ Len(Steps(opt)) \in Nat /\ Driver(opt) \in Nat
  BY PatchIs, PlaceIs DEF InPlace, TypeInv, PlanInv, MayBe
<1>h. plan # <<>> => /\ (Head(plan) = "record") <=> (Place = 1)
                     /\ (Head(plan) = "minidriver") <=> (Place = 0)
                     /\ Head(plan) = "reset" => Place < 0 \/ Place = 2
  <2>1. Driver(opt) \in 2..4
    BY <1>p, PlaceIs DEF InPlace
  <2> QED
    BY <1>p, <2>1, PlaceIs DEF InPlace
<1>s. Sent' = IF Place' < 1 THEN (IF pc' = "send" THEN Place' - 1 ELSE Place')
              ELSE IF Place' = 1 THEN pos' - 1
              ELSE (IF pc' = "send" THEN Place' - 1 ELSE Place') + Records
  BY DEF Sent
<1>m. ASSUME opt' = opt, plan # <<>>, plan' = Tail(plan) PROVE Place' = Place + 1
  <2>1. Len(plan') = Len(plan) - 1 /\ Len(plan) \in Nat
    BY <1>m, <1>p, TailIs
  <2>2. Place' = Len(Steps(opt)) - Len(plan') + 1 - Driver(opt)
    BY <1>m DEF Place
  <2> QED
    BY <1>p, <2>1, <2>2 DEF Place
<1>1. CASE EndDownload
  <2>1. /\ pc = "send" /\ pc' = "send" /\ plan # <<>> /\ Head(plan) = "record"
        /\ plan' = Tail(plan) /\ opt' = opt /\ pos' = pos /\ pos > Len(file)
    BY <1>1 DEF EndDownload, At, args
  <2>2. Place = 1 /\ Place' = 2 /\ pos = Records + 2
    BY <1>t, <1>p, <1>h, <1>m, <2>1
  <2> QED
    BY <1>t, <1>s, <2>1, <2>2 DEF Active
<1>2. CASE ReadPart \/ UNCHANGED <<pc, opt, plan, pos>>
  <2>1. UNCHANGED <<pc, opt, plan, pos>>
    BY <1>2 DEF ReadPart, args
  <2> QED
    BY <2>1 DEF Sent, Place, Active
<1>3. CASE Disarm \/ ReadTwo
  <2>1. /\ pc \in {"disarm", "two"} /\ pc' = "send" /\ plan' = Tail(plan) /\ plan # <<>>
        /\ opt' = opt /\ pos' = pos
    BY <1>3 DEF Disarm, ReadTwo, args, InPlace, TypeInv, PlanInv
  <2>2. Head(plan) \in {"reset", "minidriver"}
    BY <2>1 DEF InPlace, WhereInv
  <2>3. Place' = Place + 1 /\ Place # 1
    BY <1>h, <1>m, <2>1, <2>2
  <2> QED
    BY <1>t, <1>s, <2>1, <2>3 DEF Active
<1>4. CASE ReadLast
  <2>1. /\ pc = "read" /\ opt' = opt /\ pos' = pos /\ plan # <<>>
        /\ pc' \in {"disarm", "two", "send"}
        /\ plan' = IF pc' = "send" /\ Head(plan) # "record" THEN Tail(plan) ELSE plan
        /\ Head(plan) = "record" => pc' = "send"
    BY <1>4 DEF ReadLast, args, InPlace, TypeInv, PlanInv
  <2>2. CASE pc' = "send" /\ Head(plan) # "record"
    <3>1. Place' = Place + 1 /\ Place # 1
      BY <1>h, <1>m, <2>1, <2>2
    <3> QED
      BY <1>t, <1>s, <2>1, <2>2, <3>1 DEF Active
  <2>3. CASE ~(pc' = "send" /\ Head(plan) # "record")
    <3>1. Place' = Place
      BY <2>1, <2>3 DEF Place
    <3>2. pc' = "send" => Place = 1
      BY <1>h, <2>1, <2>3
    <3> QED
      BY <1>t, <1>s, <2>1, <3>1, <3>2 DEF Active
  <2> QED
    BY <2>2, <2>3
<1> QED
  BY <1>1, <1>2, <1>3, <1>4

\* What is sent is the next command of the download, or none of the download.
Sends(c) ==
  /\ cmds' = Append(cmds, c) /\ Proper(c) /\ Sent' \in {Sent, Sent + 1}
  /\ InDownload(c) => Sent' = Sent + 1 /\ Number(c) = Sent' /\ Sent' \in 0..(Records + 1)
  /\ ~InDownload(c) => Sent \notin 0..Records /\ Sent' \notin 0..(Records + 1)
  /\ c.op = "reset" \/ InDownload(c) \/ Sent > Records \/ (Sent < 0 - 1 /\ Driver(opt) # 2)

LEMMA SendIs ==
  ASSUME InPlace,
         (\E op \in Simple : SendCmd(op)) \/ SendRecord \/ Expire \/ ExpireLate
  PROVE  /\ Active /\ Active' /\ \E c \in KnownCmd : Sends(c)
         /\ UNCHANGED <<opt, plan, buf, rate, out, rx, chip>> /\ Place' = Place
<1>a. Active /\ Active'
  BY DEF SendCmd, SendRecord, Expire, ExpireLate, Again, At, Active
<1>t. /\ Sent \in Int /\ Place \in Int /\ pos \in 1..(Records + 2) /\ Records \in Nat
      /\ Place < 1 => Sent = IF pc = "send" THEN Place - 1 ELSE Place
      /\ Place = 1 => Sent = pos - 1
      /\ Place > 1 => Sent = (IF pc = "send" THEN Place - 1 ELSE Place) + Records
      /\ Place <= 0 => pos = 1
  BY <1>a, SentIs
<1>p. /\ opt.patch /\ Len(file) = Records + 1 /\ plan \in Seq(PlanStep) /\ Running
      /\ Len(Steps(opt)) \in Nat /\ Driver(opt) \in 2..4
  BY <1>a, PatchIs, PlaceIs DEF InPlace, TypeInv, PlanInv, MayBe
<1>h. plan # <<>> => /\ (Head(plan) = "record") <=> (Place = 1)
                     /\ (Head(plan) = "minidriver") <=> (Place = 0)
                     /\ Head(plan) = "reset" => Place < 0 \/ Place = 2
  BY <1>a, <1>p, PlaceIs DEF InPlace
<1>s. Sent' = IF Place' < 1 THEN (IF pc' = "send" THEN Place' - 1 ELSE Place')
              ELSE IF Place' = 1 THEN pos' - 1
              ELSE (IF pc' = "send" THEN Place' - 1 ELSE Place') + Records
  BY DEF Sent
<1>1. ASSUME NEW op \in Simple, SendCmd(op)
      PROVE  /\ \E c \in KnownCmd : Sends(c)
             /\ UNCHANGED <<opt, plan, buf, rate, out, rx, chip>> /\ Place' = Place
  <2>1. /\ pc = "send" /\ pc' = "read" /\ plan # <<>> /\ Head(plan) = op /\ At(op)
        /\ UNCHANGED <<opt, plan, pos, buf, rate, out, rx, chip>>
        /\ cmds' = Append(cmds, Command(op))
    BY <1>1 DEF SendCmd, At, args
  <2>2. Place' = Place
    BY <2>1 DEF Place
  <2>3. op # "record" /\ op # "launch" /\ op # "bogus"
    BY DEF Simple
  <2>4. Place # 1 /\ ((op = "minidriver") <=> (Place = 0))
    BY <1>h, <2>1, <2>3
  <2>5. Sent' = Sent + 1
    BY <1>t, <1>s, <2>1, <2>2, <2>4
  <2> DEFINE c == Command(op)
  <2>6. c \in KnownCmd /\ c.op = op
    BY <2>1, CommandType DEF InPlace, Command
  <2>7. c.op = "baud" => Decoded(c.arg) = AskedRate
    <3> SUFFICES ASSUME op = "baud" PROVE Decoded(c.arg) = AskedRate
      BY <2>6
    <3>1. c.arg = Encoded(opt.rate)
      BY DEF Command
    <3>2. opt.rate \in baud_rates
      <4>1. opt.rate # 0
        BY <2>1, MayBeTail DEF InPlace, TypeInv, PlanInv
      <4> QED
        BY <4>1 DEF InPlace, TypeInv, TypeOK
    <3>3. AskedRate = opt.rate
      <4>1. opt.rate # 0
        BY <3>2 DEF baud_rates
      <4> QED
        BY <1>p, <4>1, AskedAll DEF InPlace
    <3> QED
      BY <3>1, <3>2, <3>3, RateType
  <2>8. Proper(c)
    BY <2>3, <2>6, <2>7 DEF Proper
  <2>9. InDownload(c) <=> (op = "minidriver")
    BY <2>3, <2>6 DEF InDownload
  <2>10. op = "minidriver" => Number(c) = 0
    BY <2>6 DEF Number
  <2> HIDE DEF c
  <2>11. InDownload(c) => Sent = 0 - 1
    BY <1>t, <2>1, <2>4, <2>9
  <2>12. ~InDownload(c) => Sent < 0 - 1 \/ Sent >= Records + 1
    BY <1>t, <2>1, <2>4, <2>9
  <2>13. /\ InDownload(c) => Sent' = Sent + 1 /\ Number(c) = Sent' /\ Sent' \in 0..(Records + 1)
         /\ ~InDownload(c) => Sent \notin 0..Records /\ Sent' \notin 0..(Records + 1)
         /\ c.op = "reset" \/ InDownload(c) \/ Sent > Records \/ (Sent < 0 - 1 /\ Driver(opt) # 2)
    <3>1. Sent < 0 - 1 /\ Driver(opt) = 2 => c.op = "reset"
      <4> SUFFICES ASSUME Sent < 0 - 1, Driver(opt) = 2 PROVE c.op = "reset"
        OBVIOUS
      <4>1. Place < 0
        BY <1>t, <2>1, <2>4
      <4>2. Place >= 1 - Driver(opt) /\ (Place = 1 - Driver(opt) => Head(plan) = "reset")
        BY <1>a, <1>p, <2>1, PlaceIs DEF InPlace
      <4>3. Place = 1 - Driver(opt)
        BY <1>t, <4>1, <4>2
      <4> QED
        BY <2>1, <2>6, <4>2, <4>3
    <3>2. Sent >= Records + 1 => Sent > Records
      BY <1>t
    <3> QED
      BY <1>t, <2>5, <2>9, <2>10, <2>11, <2>12, <3>1, <3>2
  <2>14. Sends(c)
    BY <2>1, <2>5, <2>8, <2>13 DEF Sends, c
  <2> QED
    BY <2>1, <2>2, <2>6, <2>14 DEF c
<1>2. ASSUME SendRecord
      PROVE  /\ \E c \in KnownCmd : Sends(c)
             /\ UNCHANGED <<opt, plan, buf, rate, out, rx, chip>> /\ Place' = Place
  <2>1. /\ pc = "send" /\ pc' = "read" /\ plan # <<>> /\ Head(plan) = "record"
        /\ UNCHANGED <<opt, plan, buf, rate, out, rx, chip>> /\ pos <= Len(file)
        /\ pos' = IF file[pos] = "error" THEN pos ELSE pos + 1
        /\ cmds' = Append(cmds, Piece(pos))
    BY <1>2 DEF SendRecord, At, args
  <2>2. Place' = Place /\ Place = 1
    BY <1>h, <2>1 DEF Place
  <2>3. pos \in 1..(Records + 1) /\ pos \in 1..Len(file)
    BY <1>t, <1>p, <2>1
  <2>4. file[pos] = "all"
    BY <2>3 DEF InPlace, Image
  <2>5. Sent = pos - 1 /\ Sent' = Sent + 1 /\ Sent' = pos
    BY <1>t, <1>s, <2>1, <2>2, <2>4
  <2> DEFINE c == Piece(pos)
  <2>6. c \in KnownCmd
    BY <2>3, PieceType DEF InPlace
  <2>7. c = [op |-> IF pos <= Records THEN "record" ELSE "launch", arg |-> <<pos, 1>>]
    BY <2>4 DEF Piece
  <2>8. Proper(c) /\ InDownload(c) /\ Number(c) = pos
    <3>1. /\ c.op = (IF pos <= Records THEN "record" ELSE "launch")
          /\ c.arg[1] = pos /\ c.arg[2] = 1
      BY <2>7
    <3>2. (c.op = "record" /\ pos <= Records) \/ (c.op = "launch" /\ ~(pos <= Records))
      BY <3>1
    <3> HIDE DEF c
    <3>3. (pos <= Records => pos \in 1..Records) /\ (~(pos <= Records) => pos = Records + 1)
      BY <1>t, <2>3
    <3> QED
      BY <3>1, <3>2, <3>3 DEF Proper, InDownload, Number
  <2> HIDE DEF c
  <2>9. Sent' \in 0..(Records + 1) /\ Sent \in 0 - 1..Records /\ Sent' \in {Sent, Sent + 1}
    BY <1>t, <2>3, <2>5
  <2>10. Sends(c)
    BY <2>1, <2>5, <2>8, <2>9 DEF Sends, c
  <2> QED
    BY <2>1, <2>2, <2>6, <2>10 DEF c
<1>3. ASSUME Again
      PROVE  /\ \E c \in KnownCmd : Sends(c)
             /\ UNCHANGED <<opt, plan, buf, rate, out, rx, chip>> /\ Place' = Place
  <2> DEFINE c == [op |-> "reset", arg |-> <<>>]
  <2>1. /\ alarm /\ pc \in {"read", "disarm"} /\ cmds' = Append(cmds, c)
        /\ UNCHANGED <<pc, opt, plan, pos, buf, rate, out, rx, chip>>
    BY <1>3 DEF Again, args, work
  <2>2. Sent' = Sent /\ Place' = Place
    BY <2>1 DEF Sent, Place
  <2>3. plan # <<>> /\ Head(plan) = "reset"
    BY <2>1 DEF InPlace, WhereInv, TypeInv, PlanInv
  <2>4. Sent < 0 \/ Sent = Records + 2
    BY <1>t, <1>h, <2>1, <2>3
  <2>5. c \in KnownCmd /\ Proper(c) /\ ~InDownload(c) /\ c.op = "reset"
    BY EmptySeq DEF KnownCmd, Ops, Simple, Proper, InDownload
  <2> HIDE DEF c
  <2>6. Sent \notin 0..Records /\ Sent' \notin 0..(Records + 1)
    BY <1>t, <2>2, <2>4
  <2>7. Sends(c)
    BY <2>1, <2>2, <2>5, <2>6 DEF Sends
  <2> QED
    BY <2>1, <2>2, <2>5, <2>7
<1> QED
  BY <1>a, <1>1, <1>2, <1>3 DEF Expire, ExpireLate

LEMMA QueueInit == Init => QueueInv
<1> SUFFICES ASSUME Init PROVE QueueInv
  OBVIOUS
<1>1. cmds = <<>> /\ ~Active
  BY DEF Init, Active
<1>2. Len(cmds) = 0 /\ 1..Len(cmds) = {} /\ 1..(Len(cmds) - 1) = {}
  BY <1>1
<1> QED
  BY <1>1, <1>2 DEF QueueInv

\* What the program and the chip do to the buffer.
LEMMA CmdsIs ==
  ASSUME InPlace, [Next]_vars
  PROVE  \/ OpenUart
         \/ Active /\ Active' /\ \E c \in KnownCmd : Sends(c)
         \/ /\ cmds' = cmds \/ (cmds # <<>> /\ cmds' = Tail(cmds))
            /\ Active' => Active /\ Sent' = Sent
<1>1. CASE OpenUart
  BY <1>1
<1>2. CASE (\E op \in Simple : SendCmd(op)) \/ SendRecord \/ Expire \/ ExpireLate
  BY <1>2, SendIs
<1>3. CASE EndDownload \/ ReadPart \/ ReadLast \/ Disarm \/ ReadTwo
  <2>1. cmds' = cmds /\ Active
    BY <1>3 DEF EndDownload, ReadPart, ReadLast, Disarm, ReadTwo, line, Active, At
  <2> QED
    BY <1>3, <2>1, SameSent
<1>4. CASE UNCHANGED vars \/ Chip \/ Lose \/ Arrive
  <2>1. UNCHANGED <<pc, opt, plan, pos>>
    BY <1>4 DEF vars, args, work, Chip, Take, Refuse, Ignore, Boot, Lose, Arrive
  <2>2. cmds' = cmds \/ (cmds # <<>> /\ cmds' = Tail(cmds))
    BY <1>4 DEF vars, line, Chip, Take, Refuse, Ignore, Boot, Lose, Arrive, Listens
  <2>3. Active' => Active
    BY <2>1 DEF Active
  <2> QED
    BY <2>1, <2>2, <2>3, SameSent
<1>5. CASE ParseArg \/ NoUart \/ EnableHci \/ Exit \/ Restart
  BY <1>5 DEF ParseArg, NoUart, EnableHci, Exit, Restart, line, Active
<1> QED
  BY <1>1, <1>2, <1>3, <1>4, <1>5 DEF Next, Program

LEMMA AppendIs ==
  ASSUME NEW S, NEW s \in Seq(S), NEW c \in S
  PROVE  /\ Append(s, c) \in Seq(S) /\ Len(s) \in Nat /\ Len(Append(s, c)) = Len(s) + 1
         /\ \A i \in 1..Len(s) : Append(s, c)[i] = s[i]
         /\ Append(s, c)[Len(s) + 1] = c /\ Append(s, c) # <<>>
         /\ s # <<>> => Head(Append(s, c)) = Head(s) /\ Head(s) = s[1] /\ Len(s) >= 1
         /\ s = <<>> => Head(Append(s, c)) = c /\ Len(s) = 0
<1>1. /\ Append(s, c) \in Seq(S) /\ Len(s) \in Nat /\ Len(Append(s, c)) = Len(s) + 1
      /\ \A i \in 1..Len(s) : Append(s, c)[i] = s[i]
      /\ Append(s, c)[Len(s) + 1] = c
  BY AppendProperties
<1>2. s # <<>> => Len(s) >= 1
  BY <1>1, EmptySeq
<1>3. Head(Append(s, c)) = Append(s, c)[1] /\ Head(s) = s[1]
  OBVIOUS
<1>4. s = <<>> => Len(s) = 0
  OBVIOUS
<1>5. Append(s, c) # <<>>
  BY <1>1, <1>4
<1> QED
  BY <1>1, <1>2, <1>3, <1>4, <1>5

LEMMA RestIs ==
  ASSUME NEW S, NEW s \in Seq(S), s # <<>>
  PROVE  /\ Tail(s) \in Seq(S) /\ Len(s) \in Nat /\ Len(s) >= 1 /\ Len(Tail(s)) = Len(s) - 1
         /\ Head(s) = s[1] /\ Head(s) \in S
         /\ \A i \in 1..(Len(s) - 1) : Tail(s)[i] = s[i + 1]
         /\ Tail(s) # <<>> => Len(s) >= 2 /\ Head(Tail(s)) = s[2]
         /\ Tail(s) = <<>> => Len(s) = 1
<1>1. /\ Tail(s) \in Seq(S) /\ Len(s) \in Nat /\ Len(s) >= 1 /\ Len(Tail(s)) = Len(s) - 1
      /\ Head(s) = s[1] /\ Head(s) \in S
      /\ \A i \in 1..(Len(s) - 1) : Tail(s)[i] = s[i + 1]
  BY HeadTailProperties, EmptySeq
<1>2. Tail(s) # <<>> => Len(Tail(s)) >= 1
  BY <1>1, EmptySeq
<1>3. Tail(s) # <<>> => Len(s) >= 2 /\ Head(Tail(s)) = s[2]
  <2> SUFFICES ASSUME Tail(s) # <<>> PROVE Len(s) >= 2 /\ Head(Tail(s)) = s[2]
    OBVIOUS
  <2>1. Len(s) >= 2 /\ 1 \in 1..(Len(s) - 1) /\ 1 + 1 = 2
    BY <1>1, <1>2
  <2>2. Head(Tail(s)) = Tail(s)[1]
    OBVIOUS
  <2> QED
    BY <1>1, <2>1, <2>2
<1>4. Tail(s) = <<>> => Len(s) = 1
  <2>1. Tail(s) = <<>> => Len(Tail(s)) = 0
    BY <1>1, EmptySeq
  <2> QED
    BY <1>1, <2>1
<1> QED
  BY <1>1, <1>3, <1>4

LEMMA QueueNext == InPlace /\ QueueInv /\ [Next]_vars => QueueInv'
<1> SUFFICES ASSUME InPlace, QueueInv, [Next]_vars PROVE QueueInv'
  OBVIOUS
<1>k. argv' = argv
  BY KeptNext DEF InPlace
<1>p. (\A c : Proper(c)' <=> Proper(c)) /\ AskedRate' = AskedRate
  BY <1>k DEF Proper, AskedRate, Given
<1>t. cmds \in Seq(KnownCmd) /\ Len(cmds) \in Nat /\ Records \in Nat
  BY Assumptions, LenProperties DEF InPlace, TypeInv, LineInv
<1>n. \A c \in KnownCmd : Proper(c) /\ InDownload(c) => Number(c) \in 0..(Records + 1)
  BY <1>t DEF Proper, InDownload, Number
<1>q. /\ \A i \in 1..Len(cmds) : Proper(cmds[i])
      /\ \A i \in 1..(Len(cmds) - 1) : Follows(cmds[i], cmds[i + 1])
      /\ Active =>
           /\ \A i \in 1..Len(cmds) : InDownload(cmds[i]) =>
                Number(cmds[i]) <= Sent /\ Sent <= Number(cmds[i]) + (Len(cmds) - i)
           /\ cmds # <<>> /\ Sent \in 0..(Records + 1) => InDownload(cmds[Len(cmds)])
  BY DEF QueueInv
<1>s. Active => Sent \in Int
  BY SentIs
<1>1. CASE OpenUart
  <2>1. cmds' = <<>>
    BY <1>1 DEF OpenUart
  <2>2. Len(cmds') = 0 /\ 1..Len(cmds') = {} /\ 1..(Len(cmds') - 1) = {}
    BY <2>1
  <2> QED
    BY <2>1, <2>2 DEF QueueInv
<1>2. ASSUME Active, Active', NEW c \in KnownCmd, Sends(c) PROVE QueueInv'
  <2>1. /\ cmds' = Append(cmds, c) /\ Proper(c) /\ Sent' \in {Sent, Sent + 1}
        /\ InDownload(c) => Sent' = Sent + 1 /\ Number(c) = Sent' /\ Sent' \in 0..(Records + 1)
        /\ ~InDownload(c) => Sent \notin 0..Records /\ Sent' \notin 0..(Records + 1)
    BY <1>2 DEF Sends
  <2>2. /\ Len(cmds') = Len(cmds) + 1 /\ cmds'[Len(cmds) + 1] = c
        /\ \A i \in 1..Len(cmds) : cmds'[i] = cmds[i]
        /\ cmds # <<>> => Len(cmds) >= 1
        /\ cmds = <<>> => Len(cmds) = 0
    BY <1>t, <2>1, AppendIs
  <2>3. ASSUME NEW i \in 1..Len(cmds') PROVE Proper(cmds'[i])
    <3>1. i \in 1..Len(cmds) \/ i = Len(cmds) + 1
      BY <1>t, <2>2
    <3> QED
      BY <1>q, <2>1, <2>2, <3>1
  <2>4. ASSUME NEW i \in 1..(Len(cmds') - 1) PROVE Follows(cmds'[i], cmds'[i + 1])
    <3>1. CASE i \in 1..(Len(cmds) - 1)
      <4>1. i \in 1..Len(cmds) /\ i + 1 \in 1..Len(cmds)
        BY <1>t, <3>1
      <4> QED
        BY <1>q, <2>2, <3>1, <4>1
    <3>2. CASE i = Len(cmds)
      <4> DEFINE d == cmds[i]
      <4>1. /\ i \in 1..Len(cmds) /\ cmds # <<>> /\ cmds'[i] = d /\ cmds'[i + 1] = c
            /\ Len(cmds) - i = 0 /\ cmds[Len(cmds)] = d /\ d \in KnownCmd
        BY <1>t, <2>2, <3>2, ElementOfSeq
      <4>2. InDownload(d) => Number(d) <= Sent /\ Sent <= Number(d) + (Len(cmds) - i)
        BY <1>2, <1>q, <4>1
      <4>3. Sent \in 0..(Records + 1) => InDownload(d)
        BY <1>2, <1>q, <4>1
      <4>4. Proper(d)
        BY <1>q, <4>1
      <4> HIDE DEF d
      <4>5. InDownload(d) => Number(d) = Sent
        <5>1. InDownload(d) => Number(d) \in 0..(Records + 1)
          BY <1>n, <4>1, <4>4
        <5> QED
          BY <1>2, <1>s, <1>t, <4>1, <4>2, <5>1
      <4>6. Follows(d, c)
        <5>1. Sent \in Int
          BY <1>2, <1>s
        <5>2. ASSUME InDownload(c), Number(c) >= 1
              PROVE  InDownload(d) /\ Number(d) <= Records /\ Number(d) = Number(c) - 1
          <6>1. Sent \in 0..Records /\ Sent \in 0..(Records + 1) /\ Sent = Number(c) - 1
            BY <1>t, <2>1, <5>1, <5>2
          <6> QED
            BY <1>t, <4>3, <4>5, <6>1
        <5>3. ASSUME InDownload(d), Number(d) <= Records
              PROVE  InDownload(c) /\ Number(c) >= 1
          <6>1. Number(d) \in 0..(Records + 1) /\ Number(d) = Sent
            BY <1>n, <4>1, <4>4, <4>5, <5>3
          <6>2. Sent \in 0..Records
            BY <1>t, <5>3, <6>1
          <6> QED
            BY <1>t, <2>1, <6>2
        <5> QED
          BY <5>2, <5>3 DEF Follows
      <4> QED
        BY <4>1, <4>6
    <3> QED
      BY <1>t, <2>2, <3>1, <3>2
  <2>5. ASSUME NEW i \in 1..Len(cmds'), InDownload(cmds'[i])
        PROVE  Number(cmds'[i]) <= Sent' /\ Sent' <= Number(cmds'[i]) + (Len(cmds') - i)
    <3>1. CASE i \in 1..Len(cmds)
      <4> DEFINE d == cmds[i]
      <4>1. cmds'[i] = d /\ InDownload(d) /\ d \in KnownCmd /\ Proper(d)
        BY <1>q, <1>t, <2>2, <2>5, <3>1, ElementOfSeq
      <4>2. Number(d) <= Sent /\ Sent <= Number(d) + (Len(cmds) - i)
        BY <1>2, <1>q, <3>1, <4>1
      <4>3. Number(d) \in 0..(Records + 1) /\ Sent \in Int
        BY <1>2, <1>n, <1>s, <4>1
      <4> HIDE DEF d
      <4> QED
        BY <1>t, <2>1, <2>2, <3>1, <4>1, <4>2, <4>3
    <3>2. CASE i = Len(cmds) + 1
      <4>1. Number(c) = Sent' /\ Sent' \in 0..(Records + 1) /\ Len(cmds') - i = 0 /\ cmds'[i] = c
        BY <1>t, <2>1, <2>2, <2>5, <3>2
      <4> QED
        BY <1>t, <4>1
    <3> QED
      BY <1>t, <2>2, <3>1, <3>2
  <2>6. Sent' \in 0..(Records + 1) => InDownload(cmds'[Len(cmds')])
    BY <2>1, <2>2
  <2> QED
    BY <1>p, <2>3, <2>4, <2>5, <2>6 DEF QueueInv
<1>3. ASSUME cmds' = cmds, Active' => Active /\ Sent' = Sent PROVE QueueInv'
  BY <1>3, <1>p, <1>q DEF QueueInv
<1>4. ASSUME cmds # <<>>, cmds' = Tail(cmds), Active' => Active /\ Sent' = Sent PROVE QueueInv'
  <2>1. /\ Len(cmds) >= 1 /\ Len(cmds') = Len(cmds) - 1
        /\ \A i \in 1..(Len(cmds) - 1) : cmds'[i] = cmds[i + 1]
        /\ cmds' # <<>> => Len(cmds) >= 2
    BY <1>4, <1>t, RestIs
  <2>2. ASSUME NEW i \in 1..Len(cmds')
        PROVE  i + 1 \in 1..Len(cmds) /\ cmds'[i] = cmds[i + 1]
               /\ Len(cmds') - i = Len(cmds) - (i + 1)
    BY <1>t, <2>1
  <2>3. \A i \in 1..Len(cmds') : Proper(cmds'[i])
    BY <1>q, <2>2
  <2>4. ASSUME NEW i \in 1..(Len(cmds') - 1) PROVE Follows(cmds'[i], cmds'[i + 1])
    <3>1. i \in 1..Len(cmds') /\ i + 1 \in 1..Len(cmds') /\ i + 1 \in 1..(Len(cmds) - 1)
      BY <1>t, <2>1
    <3>2. cmds'[i] = cmds[i + 1] /\ cmds'[i + 1] = cmds[(i + 1) + 1]
      BY <2>2, <3>1
    <3> QED
      BY <1>q, <3>1, <3>2
  <2>5. ASSUME Active', NEW i \in 1..Len(cmds'), InDownload(cmds'[i])
        PROVE  Number(cmds'[i]) <= Sent' /\ Sent' <= Number(cmds'[i]) + (Len(cmds') - i)
    <3>1. Active /\ Sent' = Sent
      BY <1>4, <2>5
    <3> QED
      BY <1>q, <2>2, <2>5, <3>1
  <2>6. ASSUME Active', cmds' # <<>>, Sent' \in 0..(Records + 1)
        PROVE  InDownload(cmds'[Len(cmds')])
    <3>1. Active /\ Sent' = Sent
      BY <1>4, <2>6
    <3>2. Len(cmds') \in 1..Len(cmds') /\ Len(cmds') + 1 = Len(cmds)
      BY <1>t, <2>1, <2>6
    <3>3. cmds'[Len(cmds')] = cmds[Len(cmds)]
      BY <2>2, <3>2
    <3> QED
      BY <1>4, <1>q, <2>6, <3>1, <3>3
  <2> QED
    BY <1>p, <2>3, <2>4, <2>5, <2>6 DEF QueueInv
<1> QED
  BY <1>1, <1>2, <1>3, <1>4, CmdsIs

----------------------------------------------------------------------------
(* What the chip has in its memory.                                        *)

\* The first three are what no answer tells the program; the others name the
\* file that NoTornLaunch is hardest for.
Tame ==
  /\ odd \cap {"refused", "noise"} = {} /\ ("late" \in odd => troubles <= 2)
  /\ file = Image /\ Records > 0

Split  == Given("use_baudrate_for_download") /\ AskedRate # Base
Loader == chip.mode = "loader"

\* The loader is started anew by a launch only, and keeps its rate.
SteadyInv ==
  /\ rate \in {Base, AskedRate} /\ chip.rate \in {Base, AskedRate}
  /\ chip.next \in {0, Base, AskedRate} /\ (out = <<>> => chip.next = 0)
  /\ Loader => chip.up /\ chip.next \in {0, chip.rate}
  /\ chip.mode # "crashed"

\* All that comes before the next piece is in the memory.
Piecewise(c) == InDownload(c) /\ Number(c) >= 1 => chip.ram = 1..(Number(c) - 1)
Full ==
  /\ cmds # <<>> => Piecewise(Head(cmds))
  /\ cmds = <<>> /\ Active /\ Sent \in 0..Records => chip.ram = 1..Sent
FullInv == Loader /\ rate = chip.rate => Full

LEMMA TameNext ==
  ASSUME TypeInv, [Next]_vars, Tame'
  PROVE  /\ Tame /\ ~Refuse /\ troubles \in Nat /\ troubles' \in Nat /\ troubles <= troubles'
         /\ "late" \in odd => "late" \in odd'
         /\ Arrive => rate = chip.rate /\ rx' = Append(rx, Head(out))
<1>1. odd \subseteq odd' /\ file' = file
  BY KeptNext
<1>2. /\ troubles \in Nat /\ troubles' \in Nat /\ troubles <= troubles'
  <2>1. troubles \in 0..MaxTroubles /\ MaxTroubles \in Nat
    BY Assumptions DEF TypeInv, TypeOK
  <2>2. troubles' = troubles \/ troubles' = troubles + 1
    BY DEF Next, vars, past, Program, Chip, ParseArg, OpenUart, NoUart, SendCmd, SendRecord,
         EndDownload, EnableHci, Exit, ReadPart, ReadLast, Disarm, ReadTwo, Expire,
         ExpireLate, Again, Take, Refuse, Ignore, Boot, Lose, Arrive, Restart, Trouble
  <2> QED
    BY <2>1, <2>2
<1>3. Tame
  BY <1>1, <1>2 DEF Tame
<1>4. ~Refuse
  BY DEF Refuse, Tame
<1>5. Arrive => rate = chip.rate /\ rx' = Append(rx, Head(out))
  BY DEF Arrive, Tame
<1> QED
  BY <1>1, <1>2, <1>3, <1>4, <1>5

LEMMA ExecutedUp ==
  ASSUME chip \in Chips, NEW c \in KnownCmd, Able(c)
  PROVE  /\ c.op # "launch" => Executed(c).up = chip.up
         /\ c.op \in {"record", "launch"} => chip.mode = "loader"
         /\ c.op = "launch" => Executed(c).mode # "loader"
<1> USE DEF Chips
<1>1. c.op \in Ops /\ c.op # "bogus"
  BY SMT DEF KnownCmd, Able
<1>2. CASE c.op \in {"reset", "minidriver", "addr"}
  BY <1>2 DEF Executed
<1>3. CASE c.op \in {"record", "launch"}
  <2>1. chip.mode = "loader"
    BY <1>3, SMT DEF Able
  <2>2. CASE c.op = "record"
    BY <2>1, <2>2 DEF Executed
  <2>3. CASE c.op = "launch"
    <3> DEFINE m == IF c.arg[2] = 1 /\ chip.ram = 1..Records THEN "patched" ELSE "crashed"
    <3>1. m # "loader"
      OBVIOUS
    <3>2. Executed(c) = [chip EXCEPT !.mode = m, !.up = FALSE, !.next = Base, !.set = {}]
      BY <2>3 DEF Executed
    <3> HIDE DEF m
    <3>3. Executed(c).mode = m
      BY <3>2
    <3> QED
      BY <2>1, <2>3, <3>1, <3>3
  <2> QED
    BY <1>3, <2>1, <2>2, <2>3
<1>4. CASE c.op \in {"baud", "clock", "lpm", "sco", "pcm", "i2s"}
  BY <1>4 DEF Executed
<1> QED
  BY <1>1, <1>2, <1>3, <1>4 DEF Ops, Simple

\* The chip's command, while its loader runs at the program's rate.
LEMMA HeadIs ==
  ASSUME TypeInv, QueueInv, cmds # <<>>
  PROVE  /\ Head(cmds) \in KnownCmd /\ Proper(Head(cmds)) /\ Head(cmds) = cmds[1]
         /\ Tail(cmds) \in Seq(KnownCmd) /\ Len(cmds) \in Nat /\ Len(cmds) >= 1
         /\ Len(Tail(cmds)) = Len(cmds) - 1
         /\ Tail(cmds) # <<>> =>
              /\ Head(Tail(cmds)) \in KnownCmd /\ Proper(Head(Tail(cmds)))
              /\ Follows(Head(cmds), Head(Tail(cmds)))
         /\ Tail(cmds) = <<>> => Len(cmds) = 1
<1>1. cmds \in Seq(KnownCmd)
  BY DEF TypeInv, LineInv
<1>2. /\ Tail(cmds) \in Seq(KnownCmd) /\ Len(cmds) \in Nat /\ Len(cmds) >= 1
      /\ Head(cmds) = cmds[1] /\ Head(cmds) \in KnownCmd
      /\ Len(Tail(cmds)) = Len(cmds) - 1
      /\ Tail(cmds) # <<>> => Len(cmds) >= 2 /\ Head(Tail(cmds)) = cmds[2]
      /\ Tail(cmds) = <<>> => Len(cmds) = 1
  BY <1>1, RestIs
<1>3. 1 \in 1..Len(cmds) /\ Proper(cmds[1])
  BY <1>2 DEF QueueInv
<1>4. ASSUME Tail(cmds) # <<>>
      PROVE  /\ Head(Tail(cmds)) \in KnownCmd /\ Proper(Head(Tail(cmds)))
             /\ Follows(Head(cmds), Head(Tail(cmds)))
  <2>1. 2 \in 1..Len(cmds) /\ 1 \in 1..(Len(cmds) - 1) /\ 1 + 1 = 2
    BY <1>2, <1>4
  <2>2. Proper(cmds[2]) /\ Follows(cmds[1], cmds[2])
    BY <2>1 DEF QueueInv
  <2>3. cmds[2] \in KnownCmd
    BY <1>1, <2>1, ElementOfSeq
  <2> QED
    BY <1>2, <1>4, <2>2, <2>3
<1> QED
  BY <1>2, <1>3, <1>4

\* With one command left, it is the one that was sent last.
LEMMA LastIs ==
  ASSUME InPlace, QueueInv, Active, cmds # <<>>, Tail(cmds) = <<>>
  PROVE  /\ InDownload(Head(cmds)) => Number(Head(cmds)) = Sent
         /\ Sent \in 0..(Records + 1) => InDownload(Head(cmds))
<1>1. /\ Head(cmds) \in KnownCmd /\ Proper(Head(cmds)) /\ Head(cmds) = cmds[1] /\ Len(cmds) = 1
  BY HeadIs DEF InPlace
<1>2. Sent \in Int /\ Records \in Nat
  BY SentIs
<1>3. 1 \in 1..Len(cmds) /\ Len(cmds) - 1 = 0 /\ cmds[Len(cmds)] = cmds[1]
  BY <1>1
<1>4. /\ InDownload(cmds[1]) => Number(cmds[1]) <= Sent /\ Sent <= Number(cmds[1]) + (Len(cmds) - 1)
      /\ Sent \in 0..(Records + 1) => InDownload(cmds[1])
  BY <1>3 DEF QueueInv
<1> DEFINE c == cmds[1]
<1> HIDE DEF c
<1>5. InDownload(c) => Number(c) \in Int
  BY <1>1, <1>2 DEF Proper, InDownload, Number, c
<1>6. InDownload(c) => Number(c) = Sent
  <2>1. InDownload(c) => Number(c) <= Sent /\ Sent <= Number(c) + 0
    BY <1>3, <1>4 DEF c
  <2> QED
    BY <1>2, <1>5, <2>1
<1> QED
  BY <1>1, <1>4, <1>6 DEF c

LEMMA TakeFull ==
  ASSUME InPlace, QueueInv, SteadyInv, FullInv, Take
  PROVE  chip'.mode # "crashed" /\ (Loader' => Full')
<1> DEFINE c == Head(cmds)
<1>1. /\ cmds # <<>> /\ Able(c) /\ chip' = Executed(c) /\ cmds' = Tail(cmds) /\ rate = chip.rate
      /\ UNCHANGED <<pc, opt, plan, pos>>
  BY DEF Take, Listens, args, work
<1>2. /\ c \in KnownCmd /\ Proper(c)
      /\ Tail(cmds) # <<>> => /\ Head(Tail(cmds)) \in KnownCmd /\ Proper(Head(Tail(cmds)))
                              /\ Follows(c, Head(Tail(cmds)))
  BY <1>1, HeadIs DEF InPlace
<1>t. chip \in Chips /\ Records \in Nat
  BY Assumptions DEF InPlace, TypeInv, TypeOK, Chips, Modes
<1>3. Loader => Piecewise(c)
  BY <1>1 DEF FullInv, Full
<1>4. Active' => Active /\ Sent' = Sent
  BY <1>1, SameSent DEF Active
<1>5. Active /\ Tail(cmds) = <<>> =>
        /\ InDownload(c) => Number(c) = Sent
        /\ Sent \in 0..(Records + 1) => InDownload(c)
  BY <1>1, LastIs
<1> HIDE DEF c
<1>6. c.op = "launch" => chip'.mode = "patched"
  <2> SUFFICES ASSUME c.op = "launch" PROVE chip'.mode = "patched"
    OBVIOUS
  <2>1. Loader
    BY <1>1, <1>2, <1>t, ExecutedUp DEF Loader
  <2>2. InDownload(c) /\ Number(c) = Records + 1 /\ c.arg[2] = 1
    BY <1>2 DEF InDownload, Number, Proper
  <2>3. chip.ram = 1..Records
    BY <1>3, <1>t, <2>1, <2>2 DEF Piecewise
  <2> QED
    BY <1>1, <1>2, <1>t, <2>2, <2>3, ExecutedSays
<1>7. c.op # "launch" => chip'.mode # "crashed"
  BY <1>1, <1>2, <1>t, ExecutedSays DEF SteadyInv
<1>8. ASSUME Loader' PROVE Full'
  <2>1. c.op # "launch" /\ c.op # "reset"
    <3>1. c.op = "reset" => chip'.mode # "loader"
      BY <1>1, <1>2, <1>t, ExecutedSays
    <3> QED
      BY <1>6, <1>8, <3>1 DEF Loader
  <2>2. InDownload(c) => /\ Number(c) \in 0..Records
                         /\ chip'.ram = 1..Number(c)
    <3> SUFFICES ASSUME InDownload(c)
                 PROVE  Number(c) \in 0..Records /\ chip'.ram = 1..Number(c)
      OBVIOUS
    <3>1. CASE c.op = "minidriver"
      <4>1. Number(c) = 0 /\ chip'.ram = {}
        BY <1>1, <1>2, <1>t, <3>1, ExecutedSays DEF Number
      <4>2. 1..0 = {}
        OBVIOUS
      <4> QED
        BY <1>t, <4>1, <4>2
    <3>2. CASE c.op = "record"
      <4>1. Loader
        BY <1>1, <1>2, <1>t, <3>2, ExecutedUp DEF Loader
      <4>2. /\ Number(c) = c.arg[1] /\ Number(c) \in 1..Records /\ c.arg[2] = 1
        BY <1>2, <3>2 DEF Number, Proper
      <4>3. chip'.ram = chip.ram \cup {Number(c)}
        BY <1>1, <1>2, <1>t, <3>2, <4>2, ExecutedSays
      <4>4. chip.ram = 1..(Number(c) - 1)
        BY <1>3, <4>1, <4>2 DEF Piecewise, InDownload
      <4> DEFINE n == Number(c)
      <4> HIDE DEF n
      <4>5. n \in 1..Records => (1..(n - 1)) \cup {n} = 1..n
        BY <1>t
      <4> QED
        BY <1>t, <4>2, <4>3, <4>4, <4>5 DEF n
    <3> QED
      BY <2>1, <3>1, <3>2 DEF InDownload
  <2>3. ASSUME cmds' # <<>> PROVE Piecewise(Head(cmds))'
    <3> DEFINE d == Head(Tail(cmds))
    <3>1. d = Head(cmds') /\ d \in KnownCmd /\ Proper(d) /\ Follows(c, d)
      BY <1>1, <1>2, <2>3
    <3> HIDE DEF d
    <3>2. InDownload(d) /\ Number(d) >= 1 => InDownload(c) /\ Number(c) = Number(d) - 1
      BY <3>1 DEF Follows
    <3>3. InDownload(d) /\ Number(d) >= 1 => chip'.ram = 1..(Number(d) - 1)
      BY <2>2, <3>2
    <3> QED
      BY <3>1, <3>3 DEF Piecewise, InDownload, Number
  <2>4. ASSUME cmds' = <<>>, Active', Sent' \in 0..Records PROVE chip'.ram = 1..Sent'
    <3>1. Active /\ Sent' = Sent /\ Tail(cmds) = <<>>
      BY <1>1, <1>4, <2>4
    <3>2. Sent \in 0..(Records + 1)
      BY <1>t, <2>4, <3>1
    <3>3. InDownload(c) /\ Number(c) = Sent
      BY <1>5, <3>1, <3>2
    <3> QED
      BY <2>2, <3>1, <3>3
  <2> QED
    BY <2>3, <2>4 DEF Full
<1> QED
  BY <1>6, <1>7, <1>8

\* Whatever changes neither the buffer, the memory nor what was sent last.
LEMMA KeepFull ==
  ASSUME Full, cmds' = cmds, chip'.ram = chip.ram, Active' => Active /\ Sent' = Sent
  PROVE  Full'
<1>1. cmds' # <<>> => Piecewise(Head(cmds))'
  BY DEF Full, Piecewise, InDownload, Number
<1>2. cmds' = <<>> /\ Active' /\ Sent' \in 0..Records => chip'.ram = 1..Sent'
  BY DEF Full
<1> QED
  BY <1>1, <1>2 DEF Full

LEMMA SendFull ==
  ASSUME InPlace, Full, Active, NEW c \in KnownCmd, Sends(c), chip' = chip
  PROVE  Full'
<1>1. cmds' = Append(cmds, c) /\ cmds \in Seq(KnownCmd)
  BY DEF Sends, InPlace, TypeInv, LineInv
<1>2. /\ cmds' # <<>> /\ (cmds # <<>> => Head(cmds') = Head(cmds))
      /\ (cmds = <<>> => Head(cmds') = c)
  BY <1>1, AppendIs
<1>3. CASE cmds # <<>>
  BY <1>2, <1>3 DEF Full, Piecewise, InDownload, Number
<1>4. CASE cmds = <<>>
  <2>1. Sent \in Int /\ Records \in Nat
    BY SentIs
  <2>2. InDownload(c) => Sent' = Sent + 1 /\ Number(c) = Sent' /\ Sent' \in 0..(Records + 1)
    BY DEF Sends
  <2>3. ASSUME InDownload(c), Number(c) >= 1 PROVE chip.ram = 1..(Number(c) - 1)
    <3>1. Sent \in 0..Records /\ Number(c) - 1 = Sent
      BY <2>1, <2>2, <2>3
    <3> QED
      BY <1>4, <3>1 DEF Full
  <2> QED
    BY <1>2, <1>4, <2>3 DEF Full, Piecewise, InDownload, Number
<1> QED
  BY <1>3, <1>4

\* Nothing of the download was sent when the UART has just been opened.
LEMMA OpenSent ==
  ASSUME TypeInv, OpenUart, opt.patch
  PROVE  /\ Sent' = 0 - Driver(opt) /\ Place' = 1 - Driver(opt) /\ Driver(opt) \in 2..4
         /\ plan' = Steps(opt) /\ pc' = "send" /\ opt' = opt /\ Active'
<1>1. /\ pc' = "send" /\ plan' = Steps(opt) /\ opt' = opt
  BY DEF OpenUart, args
<1>2. Len(Steps(opt)) \in Nat /\ Driver(opt) \in 2..4
  BY StepsAre DEF TypeInv, TypeOK, Opts
<1>3. Place' = 1 - Driver(opt)
  BY <1>1, <1>2 DEF Place
<1>4. Sent' = Place' - 1
  BY <1>1, <1>2, <1>3 DEF Sent
<1> QED
  BY <1>1, <1>2, <1>3, <1>4 DEF Active

LEMMA OpenPatch ==
  ASSUME InPlace, OpenUart
  PROVE  opt.patch /\ (opt.early <=> Given("use_baudrate_for_download"))
<1>1. pc = "parse" /\ argi > Len(argv) /\ argi \in 1..(Len(argv) + 1) /\ Len(argv) \in Nat
  BY Assumptions, LenProperties DEF OpenUart, InPlace, TypeInv, TypeOK
<1>2. argi = Len(argv) + 1
  BY <1>1
<1>3. \A x : SoFar(x) <=> Given(x)
  BY <1>1, <1>2 DEF SoFar, Given
<1>4. file # <<>>
  <2>1. Len(Image) = Records + 1 /\ Records \in Nat
    BY Assumptions DEF Image
  <2> QED
    BY <2>1 DEF InPlace
<1> QED
  BY <1>3, <1>4 DEF InPlace, ArgInv, FlagInv

LEMMA FullNext ==
  ASSUME InPlace, QueueInv, SteadyInv, FullInv, Tame', [Next]_vars,
         ~OpenUart /\ Loader /\ rate' = chip.rate => rate = chip.rate
  PROVE  FullInv'
<1> SUFFICES ASSUME Loader', rate' = chip'.rate PROVE Full'
  BY DEF FullInv
<1>t. chip \in Chips /\ Records \in Nat /\ TypeInv
  BY Assumptions DEF InPlace, TypeInv, TypeOK, Chips, Modes
<1>1. CASE OpenUart
  <2>1. chip' = chip /\ cmds' = <<>>
    BY <1>1 DEF OpenUart
  <2>2. Active' => Sent' \notin 0..Records
    <3>1. Sent' = 0 - Driver(opt) /\ Driver(opt) \in 2..4
      BY <1>1, <1>t, OpenPatch, OpenSent
    <3> QED
      BY <3>1, <1>t
  <2> QED
    BY <2>1, <2>2 DEF Full
<1>2. CASE ~OpenUart /\ (UNCHANGED cmds) /\ ~Boot /\ ~Arrive
  <2>1. Active' => Active /\ Sent' = Sent
    <3>1. \A c : cmds' # Append(cmds, c)
      <4>1. ASSUME NEW c, Append(cmds, c) = cmds PROVE FALSE
        <5>1. Len(Append(cmds, c)) = Len(cmds) + 1 /\ Len(cmds) \in Nat
          BY <1>t, AppendProperties, LenProperties DEF TypeInv, LineInv
        <5> QED
          BY <4>1, <5>1
      <4> QED
        BY <1>2, <4>1
    <3>2. ~\E c \in KnownCmd : Sends(c)
      BY <3>1 DEF Sends
    <3> QED
      BY <1>2, <3>2, CmdsIs
  <2>2. chip' = chip
    BY <1>2, TameNext, <1>t DEF Next, vars, line, Program, Chip, ParseArg, NoUart, SendCmd, SendRecord,
      EndDownload, EnableHci, Exit, ReadPart, ReadLast, Disarm, ReadTwo, Expire,
      ExpireLate, Again, Take, Refuse, Ignore, Lose, Restart, Listens
  <2> QED
    BY <1>2, <2>1, <2>2, KeepFull DEF FullInv, Loader
<1>3. CASE Boot \/ Arrive
  <2>1. \/ chip' = [chip EXCEPT !.up = TRUE]
        \/ chip' = [chip EXCEPT !.rate = chip.next, !.next = 0] /\ chip.next # 0
        \/ chip' = chip
    BY <1>3, Zenon DEF Boot, Arrive
  <2>2. UNCHANGED <<pc, opt, plan, pos, cmds, rate>>
    BY <1>3 DEF Boot, Arrive, args, work, line
  <2>3. chip'.ram = chip.ram /\ chip'.mode = chip.mode
    BY <1>t, <2>1 DEF Chips
  <2>4. Loader /\ chip'.rate = chip.rate
    BY <1>t, <2>1, <2>3 DEF Chips, Loader, SteadyInv
  <2>5. Active' => Active /\ Sent' = Sent
    BY <2>2, SameSent DEF Active
  <2> QED
    BY <2>2, <2>3, <2>4, <2>5, KeepFull DEF FullInv
<1>4. CASE (\E op \in Simple : SendCmd(op)) \/ SendRecord \/ Expire \/ ExpireLate
  <2>1. Active /\ chip' = chip /\ rate' = rate /\ \E c \in KnownCmd : Sends(c)
    BY <1>4, SendIs
  <2> QED
    BY <2>1, SendFull DEF FullInv, Loader
<1>5. CASE Take
  BY <1>5, TakeFull
<1>6. CASE Ignore \/ Lose
  BY <1>6 DEF Ignore, Lose, Listens, SteadyInv, Loader, line
<1> QED
  <2>1. ~Refuse
    BY <1>t, TameNext
  <2>2. \/ UNCHANGED cmds \/ OpenUart \/ Take \/ Ignore \/ Lose
        \/ (\E op \in Simple : SendCmd(op)) \/ SendRecord \/ Expire \/ ExpireLate
    BY <2>1 DEF Next, vars, line, Program, Chip, ParseArg, NoUart,
      EndDownload, EnableHci, Exit, ReadPart, ReadLast, Disarm, ReadTwo, Boot, Arrive, Restart
  <2> QED
    BY <1>1, <1>2, <1>3, <1>4, <1>5, <1>6, <2>2

LEMMA AnswerMore ==
  ASSUME TypeInv, NEW c \in KnownCmd, NEW status \in {0, 1}
  PROVE  Answer(c, status) # <<>>
<1>1. Len(Answer(c, status)) = Length(c)
  BY AnswerIs
<1>2. Length(c) \in {7, 9}
  BY DEF Length
<1> QED
  BY <1>1, <1>2

\* The rate that the program sets, and when.
LEMMA RateSteps ==
  ASSUME InPlace, [Next]_vars
  PROVE  \/ OpenUart /\ rate' = Base
         \/ EndDownload /\ Active /\ Place = 1 /\ rate' = IF opt.early THEN Base ELSE rate
         \/ /\ ReadLast /\ pc = "read" /\ Active /\ plan # <<>> /\ Head(plan) = "baud"
            /\ opt.rate # 0 /\ rate' = opt.rate /\ AskedRate = opt.rate /\ pc' = "send"
            /\ \/ opt.early /\ Place = 0 - 1
               \/ Place = 2 + Len(Later(opt))
         \/ ~OpenUart /\ ~EndDownload /\ rate' = rate
<1>1. CASE OpenUart
  BY <1>1 DEF OpenUart
<1>2. CASE EndDownload
  <2>1. /\ Active /\ plan # <<>> /\ Head(plan) = "record"
        /\ rate' = IF opt.early THEN Base ELSE rate
    BY <1>2 DEF EndDownload, At, Active
  <2> QED
    BY <1>2, <2>1, PatchIs, PlaceIs DEF InPlace
<1>3. CASE ReadLast
  <2>1. /\ pc = "read" /\ Active /\ plan # <<>>
        /\ rate' = IF Head(plan) = "baud" THEN opt.rate ELSE rate
        /\ Head(plan) = "baud" => pc' = "send"
    BY <1>3 DEF ReadLast, Active, InPlace, TypeInv, PlanInv
  <2>2. CASE Head(plan) = "baud"
    <3>1. /\ opt.rate # 0
          /\ \/ opt.early /\ Place = 0 - 1
             \/ Place = 2 + Len(Later(opt))
      BY <2>1, <2>2, PatchIs, PlaceIs DEF InPlace
    <3>2. AskedRate = opt.rate
      BY <2>1, <3>1, PatchIs, AskedAll DEF InPlace
    <3> QED
      BY <1>3, <2>1, <2>2, <3>1, <3>2
  <2>3. CASE Head(plan) # "baud"
    BY <1>3, <2>1, <2>3 DEF OpenUart, EndDownload, At
  <2> QED
    BY <2>2, <2>3
<1>4. CASE ~OpenUart /\ ~EndDownload /\ ~ReadLast
  <2>1. ASSUME NEW op \in Simple, SendCmd(op) PROVE rate' = rate
    BY <2>1 DEF SendCmd
  <2>2. rate' = rate
    BY <1>4, <2>1 DEF Next, vars, line, Program, Chip, ParseArg, NoUart, SendRecord,
      EnableHci, Exit, ReadPart, Disarm, ReadTwo, Expire,
      ExpireLate, Again, Take, Refuse, Ignore, Boot, Lose, Arrive, Restart
  <2> QED
    BY <1>4, <2>2
<1> QED
  BY <1>1, <1>2, <1>3, <1>4

LEMMA SteadyNext ==
  ASSUME InPlace, QueueInv, SteadyInv, FullInv, Tame', [Next]_vars,
         Loader /\ rate = chip.rate /\ cmds # <<>> /\ Head(cmds).op = "baud"
           => chip.rate = AskedRate
  PROVE  SteadyInv'
<1>k. TypeInv /\ argv' = argv /\ AskedRate' = AskedRate
  <2>1. TypeInv
    BY DEF InPlace
  <2>2. argv' = argv
    BY <2>1, KeptNext
  <2> QED
    BY <2>1, <2>2 DEF AskedRate, Given
<1>t. chip \in Chips /\ out \in Seq(Byte)
  BY <1>k DEF TypeInv, TypeOK, LineInv, Chips, Modes
<1>s. /\ rate \in {Base, AskedRate} /\ chip.rate \in {Base, AskedRate}
      /\ chip.next \in {0, Base, AskedRate} /\ (out = <<>> => chip.next = 0)
      /\ Loader => chip.up /\ chip.next \in {0, chip.rate}
      /\ chip.mode # "crashed"
  BY DEF SteadyInv
<1>1. rate' \in {Base, AskedRate}
  BY <1>s, RateSteps
<1>2. CASE UNCHANGED <<chip, out>>
  BY <1>1, <1>2, <1>k, <1>s DEF SteadyInv, Loader
<1>3. CASE Boot
  <2>1. chip' = [chip EXCEPT !.up = TRUE] /\ out' = out
    BY <1>3 DEF Boot, line
  <2>2. /\ chip'.rate = chip.rate /\ chip'.next = chip.next /\ chip'.mode = chip.mode
        /\ chip'.up = TRUE
    BY <1>t, <2>1 DEF Chips
  <2> QED
    BY <1>1, <1>k, <1>s, <2>1, <2>2 DEF SteadyInv, Loader
<1>4. CASE Arrive
  <2>1. /\ out # <<>> /\ out' = Tail(out)
        /\ chip' = IF Len(out) = 1 /\ chip.next # 0
                   THEN [chip EXCEPT !.rate = chip.next, !.next = 0] ELSE chip
    BY <1>4, Zenon DEF Arrive
  <2>2. Tail(out) = <<>> => Len(out) = 1
    BY <1>t, <2>1, RestIs
  <2>3. CASE Len(out) = 1 /\ chip.next # 0
    <3>1. chip' = [chip EXCEPT !.rate = chip.next, !.next = 0]
      BY <2>1, <2>3
    <3>2. /\ chip'.rate = chip.next /\ chip'.next = 0 /\ chip'.mode = chip.mode
          /\ chip'.up = chip.up
      BY <1>t, <3>1 DEF Chips
    <3> QED
      BY <1>1, <1>k, <1>s, <2>3, <3>2 DEF SteadyInv, Loader
  <2>4. CASE ~(Len(out) = 1 /\ chip.next # 0)
    <3>1. chip' = chip
      BY <2>1, <2>4
    <3>2. out' = <<>> => chip.next = 0
      BY <2>1, <2>2, <2>4
    <3> QED
      BY <1>1, <1>k, <1>s, <3>1, <3>2 DEF SteadyInv, Loader
  <2> QED
    BY <2>3, <2>4
<1>5. CASE Take
  <2> DEFINE c == Head(cmds)
  <2>1. /\ cmds # <<>> /\ Able(c) /\ chip' = Executed(c) /\ rate = chip.rate /\ out = <<>>
        /\ out' = Answer(c, 0) /\ chip.up
    BY <1>5 DEF Take, Listens
  <2>2. c \in KnownCmd /\ Proper(c)
    BY <1>k, <2>1, HeadIs
  <2>3. out' # <<>>
    BY <1>k, <2>1, <2>2, AnswerMore
  <2>4. chip'.mode # "crashed"
    BY <1>5, TakeFull
  <2>l. Loader /\ c.op = "baud" => chip.rate = AskedRate
    BY <2>1
  <2> HIDE DEF c
  <2>5. /\ chip'.rate = chip.rate
        /\ chip'.next = CASE c.op = "baud" -> Decoded(c.arg) [] c.op = "launch" -> Base
                          [] c.op \notin {"baud", "launch"} -> chip.next
    BY <1>t, <2>1, <2>2, ExecutedIs
  <2>6. chip'.next \in {0, Base, AskedRate}
    BY <1>s, <2>1, <2>2, <2>5 DEF Proper
  <2>7. Loader' => chip'.up /\ chip'.next \in {0, chip'.rate}
    <3> SUFFICES ASSUME Loader' PROVE chip'.up /\ chip'.next \in {0, chip'.rate}
      OBVIOUS
    <3>1. c.op # "launch" /\ chip'.up
      BY <1>t, <2>1, <2>2, ExecutedUp DEF Loader
    <3>2. c.op = "baud" => Loader
      BY <1>t, <2>1, <2>2, ExecutedSays DEF Loader
    <3>3. c.op = "baud" => chip'.next = chip'.rate
      BY <2>2, <2>5, <2>l, <3>2 DEF Proper
    <3>4. c.op # "baud" => chip'.next = 0
      BY <1>s, <2>1, <2>5, <3>1
    <3> QED
      BY <3>1, <3>3, <3>4
  <2> QED
    BY <1>1, <1>k, <1>s, <2>3, <2>4, <2>5, <2>6, <2>7 DEF SteadyInv
<1> QED
  <2>1. ~Refuse
    BY <1>k, TameNext
  <2>2. ASSUME NEW op \in Simple, SendCmd(op) PROVE UNCHANGED <<chip, out>>
    BY <2>2 DEF SendCmd
  <2> QED
    BY <1>2, <1>3, <1>4, <1>5, <2>1, <2>2
    DEF Next, vars, line, Program, Chip, ParseArg, OpenUart, NoUart, SendRecord, EndDownload,
      EnableHci, Exit, ReadPart, ReadLast, Disarm, ReadTwo, Expire,
      ExpireLate, Again, Ignore, Lose, Restart

----------------------------------------------------------------------------
(* The chip keeps another rate than the program starts with.               *)

Deaf ==
  /\ rate = Base /\ chip.rate # Base /\ rx = <<>> /\ buf = <<>>
  /\ pc \in {"send", "read"} /\ plan = Steps(opt)

LEMMA OpenDeaf ==
  ASSUME InPlace, OpenUart, chip.rate # Base
  PROVE  Deaf'
BY DEF InPlace, WhereInv, OpenUart, Deaf, args

\* Only bytes that are none can come in.
LEMMA DeafStays ==
  ASSUME InPlace, Deaf, Tame', [Next]_vars, Active'
  PROVE  Deaf' /\ Place' = Place /\ ~Take /\ ~EndDownload /\ ~ReadLast
<1>t. TypeInv /\ chip \in Chips
  BY DEF InPlace, TypeInv, TypeOK, Chips, Modes
<1>p. /\ Active /\ plan # <<>> /\ Head(plan) = "reset" /\ pc \in {"send", "read"}
      /\ plan = Steps(opt) /\ rx = <<>> /\ rate # chip.rate
  <2>1. Active /\ opt.patch
    BY PatchIs DEF Deaf, Active
  <2>2. Len(plan) = Len(Steps(opt))
    BY DEF Deaf
  <2>3. /\ Place = 1 - Driver(opt) /\ Driver(opt) \in 2..4
        /\ Place <= 2 + Len(Later(opt)) => plan # <<>>
        /\ Len(Later(opt)) \in 0..2
        /\ plan # <<>> => (Head(plan) = "reset") <=> (Place = 1 - Driver(opt) \/ Place = 2)
    BY <2>1, <2>2, PlaceIs DEF InPlace
  <2>4. plan # <<>>
    BY <2>3
  <2> QED
    BY <2>1, <2>3, <2>4 DEF Deaf
<1>n. ~Take /\ ~EndDownload /\ ~ReadLast /\ ~Arrive /\ ~Refuse
  BY <1>p, <1>t, TameNext DEF Take, EndDownload, At, ReadLast
<1>2. CASE \/ UNCHANGED vars \/ (\E op \in Simple : SendCmd(op)) \/ Expire \/ ExpireLate
           \/ Ignore \/ Lose
  <2>1. UNCHANGED <<plan, opt, rate, rx, buf, chip>> /\ pc' \in {pc, "read"}
    BY <1>2 DEF vars, args, work, line, SendCmd, Expire, ExpireLate, Again, Ignore, Lose
  <2> QED
    BY <1>p, <1>n, <2>1 DEF Deaf, Place
<1>3. CASE Boot
  <2>1. UNCHANGED <<plan, opt, rate, rx, buf, pc>> /\ chip' = [chip EXCEPT !.up = TRUE]
    BY <1>3 DEF Boot, args, work, line
  <2>2. chip'.rate = chip.rate
    BY <1>t, <2>1 DEF Chips
  <2> QED
    BY <1>n, <2>1, <2>2 DEF Deaf, Place
<1>4. ~ParseArg /\ ~OpenUart /\ ~NoUart /\ ~Exit /\ ~EnableHci /\ ~Restart
  BY <1>p DEF ParseArg, OpenUart, NoUart, Exit, EnableHci, Restart, Active
<1>5. ~SendRecord /\ ~ReadPart /\ ~Disarm /\ ~ReadTwo
  BY <1>p DEF SendRecord, At, ReadPart, Disarm, ReadTwo
<1> QED
  BY <1>n, <1>2, <1>3, <1>4, <1>5 DEF Next, Program, Chip

----------------------------------------------------------------------------
(* One rate in the download.                                               *)

\* Between the minidriver and the launch the loader hears nothing else.
NarrowInv ==
  AskedRate # Base /\ Loader /\ rate = chip.rate =>
    IF cmds # <<>> THEN Head(cmds).op \in {"reset", "minidriver", "record", "launch"}
    ELSE Active => Sent <= Records
DeafInv == Loader /\ Active /\ rate = Base /\ chip.rate # Base => Deaf

LEMMA NotEarly ==
  ASSUME InPlace, Active, ~Split, AskedRate # Base
  PROVE  ~opt.early /\ Driver(opt) = 2
<1>1. ~opt.early
  BY PatchIs, FlagIs DEF Split, InPlace
<1>2. Driver(opt) = 2
  BY <1>1, PatchIs, PlaceIs DEF InPlace
<1> QED
  BY <1>1, <1>2

LEMMA NarrowNext ==
  ASSUME InPlace, QueueInv, SteadyInv, NarrowInv, Tame', [Next]_vars, ~Split,
         ~OpenUart /\ Loader /\ rate' = chip.rate => rate = chip.rate
  PROVE  NarrowInv'
<1>k. TypeInv /\ AskedRate' = AskedRate
  <2>1. TypeInv
    BY DEF InPlace
  <2>2. argv' = argv
    BY <2>1, KeptNext
  <2> QED
    BY <2>1, <2>2 DEF AskedRate, Given
<1> SUFFICES ASSUME AskedRate # Base, Loader', rate' = chip'.rate
             PROVE  IF cmds' # <<>>
                    THEN Head(cmds').op \in {"reset", "minidriver", "record", "launch"}
                    ELSE Active' => Sent' <= Records
  BY <1>k DEF NarrowInv
<1>t. chip \in Chips /\ Records \in Nat
  BY <1>k, Assumptions DEF TypeInv, TypeOK, Chips, Modes
<1>1. CASE OpenUart
  <2>1. cmds' = <<>>
    BY <1>1 DEF OpenUart
  <2>2. Sent' <= Records
    <3>1. Sent' = 0 - Driver(opt) /\ Driver(opt) \in 2..4
      BY <1>1, <1>k, OpenPatch, OpenSent
    <3> QED
      BY <1>t, <3>1
  <2> QED
    BY <2>1, <2>2
<1>2. ASSUME ~OpenUart, cmds' = cmds, Loader, chip'.rate = chip.rate,
             Active' => Active /\ Sent' = Sent
      PROVE  IF cmds' # <<>>
             THEN Head(cmds').op \in {"reset", "minidriver", "record", "launch"}
             ELSE Active' => Sent' <= Records
  BY <1>2 DEF NarrowInv
<1>3. CASE (\E op \in Simple : SendCmd(op)) \/ SendRecord \/ Expire \/ ExpireLate
  <2>1. PICK c \in KnownCmd : Sends(c)
    BY <1>3, SendIs
  <2>2. Active /\ chip' = chip /\ rate' = rate
    BY <1>3, SendIs
  <2>3. cmds' = Append(cmds, c) /\ cmds \in Seq(KnownCmd)
    BY <1>k, <2>1 DEF Sends, TypeInv, LineInv
  <2>4. /\ cmds' # <<>> /\ (cmds # <<>> => Head(cmds') = Head(cmds))
        /\ (cmds = <<>> => Head(cmds') = c)
    BY <2>3, AppendIs
  <2>5. cmds = <<>> => Sent <= Records
    BY <2>2 DEF NarrowInv, Loader
  <2>6. cmds = <<>> => c.op = "reset" \/ InDownload(c)
    <3>1. Driver(opt) = 2 /\ Sent \in Int
      BY <2>2, NotEarly, SentIs
    <3>2. c.op = "reset" \/ InDownload(c) \/ Sent > Records \/ (Sent < 0 - 1 /\ Driver(opt) # 2)
      BY <2>1 DEF Sends
    <3> QED
      BY <1>t, <2>5, <3>1, <3>2
  <2>7. cmds # <<>> => Head(cmds).op \in {"reset", "minidriver", "record", "launch"}
    BY <2>2 DEF NarrowInv, Loader
  <2> QED
    BY <2>4, <2>6, <2>7 DEF InDownload
<1>4. CASE Take
  <2> DEFINE c == Head(cmds)
             d == Head(Tail(cmds))
  <2>1. /\ cmds # <<>> /\ Able(c) /\ chip' = Executed(c) /\ cmds' = Tail(cmds)
        /\ rate = chip.rate /\ UNCHANGED <<pc, opt, plan, pos>>
    BY <1>4 DEF Take, Listens, args, work
  <2>2. /\ c \in KnownCmd /\ Proper(c)
        /\ Tail(cmds) # <<>> => d \in KnownCmd /\ Proper(d) /\ Follows(c, d)
    BY <1>k, <2>1, HeadIs
  <2>3. Active' => Active /\ Sent' = Sent
    BY <2>1, SameSent DEF Active
  <2>4. Active /\ Tail(cmds) = <<>> => (InDownload(c) => Number(c) = Sent)
    BY <2>1, LastIs
  <2>n. Loader => c.op \in {"reset", "minidriver", "record", "launch"}
    BY <2>1 DEF NarrowInv
  <2>d. Tail(cmds) = cmds' /\ (cmds' # <<>> => d = Head(cmds'))
    BY <2>1
  <2> HIDE DEF c, d
  <2>5. c.op \in {"minidriver", "record"}
    <3>1. /\ c.op = "reset" => chip'.mode # "loader"
          /\ c.op = "launch" => chip'.mode # "loader"
          /\ c.op \notin {"reset", "minidriver", "record", "launch"} => chip'.mode = chip.mode
      BY <1>t, <2>1, <2>2, ExecutedSays, ExecutedUp
    <3> QED
      BY <2>n, <3>1 DEF Loader
  <2>6. InDownload(c) /\ Number(c) <= Records /\ Number(c) \in Nat
    BY <1>t, <2>2, <2>5 DEF InDownload, Number, Proper
  <2>7. cmds' # <<>> => InDownload(d)
    BY <2>2, <2>6, <2>d DEF Follows
  <2> QED
    BY <2>3, <2>4, <2>6, <2>7, <2>d DEF InDownload
<1>5. CASE Boot \/ Arrive
  <2>1. \/ chip' = [chip EXCEPT !.up = TRUE]
        \/ chip' = [chip EXCEPT !.rate = chip.next, !.next = 0] /\ chip.next # 0
        \/ chip' = chip
    BY <1>5, Zenon DEF Boot, Arrive
  <2>2. UNCHANGED <<pc, opt, plan, pos, cmds, rate>>
    BY <1>5 DEF Boot, Arrive, args, work, line
  <2>4. Loader /\ chip'.rate = chip.rate
    BY <1>t, <2>1 DEF Chips, Loader, SteadyInv
  <2>5. Active' => Active /\ Sent' = Sent
    BY <2>2, SameSent DEF Active
  <2> QED
    BY <2>2, <2>4, <2>5 DEF NarrowInv
<1>6. CASE Ignore \/ Lose
  <2>1. chip' = chip /\ rate' = rate /\ (rate # chip.rate \/ ~chip.up)
    BY <1>6 DEF Ignore, Lose, Listens
  <2> QED
    BY <2>1 DEF SteadyInv, Loader
<1>7. CASE ParseArg \/ NoUart \/ EnableHci \/ Exit \/ Restart
  <2>1. UNCHANGED <<cmds, chip, rate>> /\ ~Active'
    BY <1>7 DEF ParseArg, NoUart, EnableHci, Exit, Restart, line, Active
  <2> QED
    BY <2>1 DEF NarrowInv, Loader
<1>8. CASE EndDownload \/ ReadPart \/ ReadLast \/ Disarm \/ ReadTwo \/ UNCHANGED vars
  <2>1. cmds' = cmds /\ chip' = chip /\ (Active' => Active) /\ ~OpenUart
    BY <1>8 DEF EndDownload, ReadPart, ReadLast, Disarm, ReadTwo, vars, line, Active, At, OpenUart
  <2>2. Active' => Sent' = Sent
    <3>1. UNCHANGED vars => UNCHANGED <<pc, opt, plan, pos>>
      BY DEF vars, args, work
    <3> QED
      BY <1>8, <2>1, <3>1, SameSent
  <2> QED
    BY <1>2, <2>1, <2>2 DEF Loader
<1> QED
  <2>1. ~Refuse
    BY <1>k, TameNext
  <2> QED
    BY <1>1, <1>3, <1>4, <1>5, <1>6, <1>7, <1>8, <2>1 DEF Next, Program, Chip

\* What becomes a loader is one already, or has just been given its minidriver.
LEMMA LoaderWas ==
  ASSUME InPlace, QueueInv, SteadyInv, [Next]_vars, Loader'
  PROVE  \/ Loader /\ chip'.rate = chip.rate
         \/ /\ Take /\ Head(cmds).op = "minidriver" /\ rate = chip.rate /\ chip'.rate = rate
            /\ UNCHANGED <<rate, pc, opt, plan, pos>>
<1>t. chip \in Chips /\ TypeInv
  BY DEF InPlace, TypeInv, TypeOK, Chips, Modes
<1>1. CASE chip' = chip
  BY <1>1 DEF Loader
<1>2. CASE Boot \/ Arrive
  <2>1. \/ chip' = [chip EXCEPT !.up = TRUE]
        \/ chip' = [chip EXCEPT !.rate = chip.next, !.next = 0] /\ chip.next # 0
        \/ chip' = chip
    BY <1>2, Zenon DEF Boot, Arrive
  <2> QED
    BY <1>t, <2>1 DEF Chips, Loader, SteadyInv
<1>3. CASE Take
  <2> DEFINE c == Head(cmds)
  <2>1. /\ cmds # <<>> /\ Able(c) /\ chip' = Executed(c) /\ rate = chip.rate
        /\ UNCHANGED <<rate, pc, opt, plan, pos>>
    BY <1>3 DEF Take, Listens, args, work
  <2>2. c \in KnownCmd
    BY <1>t, <2>1, HeadIs
  <2> HIDE DEF c
  <2>3. chip'.rate = chip.rate
    BY <1>t, <2>1, <2>2, ExecutedIs
  <2>4. c.op # "minidriver" => chip.mode = "loader"
    BY <1>t, <2>1, <2>2, ExecutedSays, ExecutedUp DEF Loader
  <2> QED
    BY <1>3, <2>1, <2>3, <2>4 DEF c, Loader
<1> QED
  <2>1. ASSUME NEW op \in Simple, SendCmd(op) PROVE chip' = chip
    BY <2>1 DEF SendCmd
  <2> QED
    BY <1>1, <1>2, <1>3, <2>1
    DEF Next, vars, Program, Chip, ParseArg, OpenUart, NoUart, SendRecord, EndDownload,
      EnableHci, Exit, ReadPart, ReadLast, Disarm, ReadTwo, Expire,
      ExpireLate, Again, Refuse, Ignore, Lose, Restart

LEMMA ActiveWas ==
  ASSUME InPlace, [Next]_vars, Active', ~OpenUart
  PROVE  Active
<1>1. ASSUME NEW op \in Simple, SendCmd(op) PROVE Active
  BY <1>1 DEF SendCmd, At, Active
<1>2. UNCHANGED vars => pc' = pc
  BY DEF vars
<1> QED
  BY <1>1, <1>2
  DEF Active, Next, Program, Chip, ParseArg, NoUart, SendRecord, EndDownload, At,
      EnableHci, Exit, ReadPart, ReadLast, Disarm, ReadTwo, Expire, args,
      ExpireLate, Again, Take, Refuse, Ignore, Boot, Lose, Arrive, Restart

LEMMA DeafNext ==
  ASSUME InPlace, QueueInv, SteadyInv, DeafInv, Tame', [Next]_vars, ~Split
  PROVE  DeafInv'
<1> SUFFICES ASSUME Loader', Active', rate' = Base, chip'.rate # Base PROVE Deaf'
  BY DEF DeafInv
<1>1. Loader /\ chip'.rate = chip.rate
  <2>1. ~(Take /\ rate = chip.rate /\ chip'.rate = rate /\ rate' = rate)
    OBVIOUS
  <2> QED
    BY <2>1, LoaderWas
<1>2. CASE OpenUart
  BY <1>1, <1>2, OpenDeaf
<1>3. CASE ~OpenUart
  <2>1. Active
    BY <1>3, ActiveWas
  <2>2. AskedRate # Base
    BY <1>1 DEF SteadyInv
  <2>3. rate = Base
    BY <1>3, <2>1, <2>2, NotEarly, RateSteps
  <2>4. Deaf
    BY <1>1, <2>1, <2>3 DEF DeafInv
  <2> QED
    BY <2>4, DeafStays
<1> QED
  BY <1>2, <1>3

\* A command line without an early rate, or with the rate the chip has anyway.
LEMMA OneRateNext ==
  ASSUME InPlace, QueueInv, SteadyInv, FullInv, NarrowInv, DeafInv, Tame', [Next]_vars, ~Split
  PROVE  SteadyInv' /\ FullInv' /\ NarrowInv' /\ DeafInv'
<1>1. ~OpenUart /\ Loader /\ rate' = chip.rate => rate = chip.rate
  <2> SUFFICES ASSUME ~OpenUart, Loader, rate' = chip.rate, rate # chip.rate PROVE FALSE
    OBVIOUS
  <2>1. AskedRate # Base
    BY DEF SteadyInv
  <2>2. rate' # rate
    OBVIOUS
  <2>3. Active
    BY <2>2, RateSteps
  <2>4. ~opt.early
    BY <2>1, <2>3, NotEarly
  <2>5. /\ rate' = AskedRate /\ Place = 2 + Len(Later(opt))
    BY <2>2, <2>4, RateSteps
  <2>6. rate = Base
    BY <2>2, <2>5 DEF SteadyInv
  <2>7. Deaf
    BY <2>1, <2>3, <2>5, <2>6 DEF DeafInv
  <2>8. Place = 1 - Driver(opt) /\ Driver(opt) \in 2..4 /\ Len(Later(opt)) \in 0..2
    BY <2>3, <2>7, PatchIs, PlaceIs DEF Deaf, InPlace
  <2> QED
    BY <2>5, <2>8
<1>2. Loader /\ rate = chip.rate /\ cmds # <<>> /\ Head(cmds).op = "baud" => chip.rate = AskedRate
  BY DEF NarrowInv, SteadyInv
<1> QED
  BY <1>1, <1>2, SteadyNext, FullNext, NarrowNext, DeafNext

----------------------------------------------------------------------------
(* How far behind the answers are.                                         *)

\* From position a to b a stream has answers of seven bytes that end at b: the
\* first four bytes of each are known.
Framed(s, a, b) ==
  \A i \in a..b, q \in Nat :
    /\ b - i = 7 * q + 6 => s[i] = 4
    /\ b - i = 7 * q + 5 => s[i] = 14
    /\ b - i = 7 * q + 4 => s[i] = 4
    /\ b - i = 7 * q + 3 => s[i] = 1

\* What read_event wants of a stream.
Wanted(s) == IF Len(s) < 3 THEN 7 ELSE 3 + s[3]

\* With k commands to be answered and a bytes that are waited for, a stream s is
\* behind by no more than b answers and two bytes.
Behind(s, k, a, b) == Framed(s, 1, Len(s)) /\ 7 * k + Len(s) - a <= 7 * b + 2

\* Two bytes more are somewhere in it, after position n.
Gap(s, n) ==
  /\ Framed(s, 1, n) /\ Framed(s, n + 1, Len(s))
  /\ \E q \in Nat : Len(s) = n + 2 + 7 * q
Gapped(s, k, a, b) ==
  \E n \in Nat : Gap(s, n) /\ 7 * k + Len(s) - a + (IF a <= n THEN 5 ELSE 0) <= 7 * b + 2
About(s, k, a, b) == Behind(s, k, a, b) \/ Gapped(s, k, a, b)

LEMMA ByteIs == Byte \subseteq Nat
BY DEF Byte

LEMMA SevenIs ==
  ASSUME NEW l \in Nat
  PROVE  \E q \in Nat, r \in 0..6 : l = 7 * q + r
<1>1. l \div 7 \in Nat
  OBVIOUS
<1>2. l - 7 * (l \div 7) \in 0..6
  OBVIOUS
<1> DEFINE q == l \div 7
<1> HIDE DEF q
<1>3. q \in Nat /\ l - 7 * q \in 0..6
  BY <1>1, <1>2 DEF q
<1>4. l = 7 * q + (l - 7 * q)
  BY <1>3
<1> QED
  BY <1>3, <1>4

\* Where a framed stream begins, read_event takes as many bytes from it as make
\* it lighter by an answer.
LEMMA WantedIs ==
  ASSUME NEW s \in Seq(Byte), NEW n \in 3..Len(s), Framed(s, 1, n)
  PROVE  /\ Wanted(s) \in Nat /\ Wanted(s) >= 3
         /\ \A x \in Int : n <= 7 * x + 2 => n - Wanted(s) <= 7 * (x - 1) + 2
         /\ \A q \in Nat : n = 7 * q => Wanted(s) = 7
<1>1. Len(s) \in Nat /\ s[3] \in Nat /\ n \in Nat /\ n >= 3 /\ Len(s) >= 3
  <2>1. Len(s) \in Nat
    BY LenProperties
  <2>2. n \in Nat /\ n >= 3 /\ Len(s) >= 3 /\ 3 \in 1..Len(s)
    BY <2>1
  <2>3. s[3] \in Byte
    BY <2>2, ElementOfSeq
  <2>4. s[3] \in Nat
    BY <2>3, ByteIs
  <2> QED
    BY <2>1, <2>2, <2>4
<1>2. Wanted(s) = 3 + s[3]
  BY <1>1 DEF Wanted
<1>3. PICK q \in Nat, r \in 0..6 : n - 3 = 7 * q + r
  <2>1. n - 3 \in Nat
    BY <1>1
  <2> QED
    BY <2>1, SevenIs
<1>4. /\ r = 6 => s[3] = 4
      /\ r = 5 => s[3] = 14
      /\ r = 4 => s[3] = 4
      /\ r = 3 => s[3] = 1
  BY <1>1, <1>3 DEF Framed
<1> DEFINE w == s[3]
<1> HIDE DEF w
<1>5. w \in Nat /\ Wanted(s) = 3 + w
  BY <1>1, <1>2 DEF w
<1>6. /\ r = 6 => w = 4
      /\ r = 5 => w = 14
      /\ r = 4 => w = 4
      /\ r = 3 => w = 1
  BY <1>4 DEF w
<1>7. n = 7 * q + r + 3
  BY <1>1, <1>3
<1>8. ASSUME NEW x \in Int, n <= 7 * x + 2 PROVE n - Wanted(s) <= 7 * (x - 1) + 2
  BY <1>5, <1>6, <1>7, <1>8
<1>10. ASSUME NEW p \in Nat, n = 7 * p PROVE Wanted(s) = 7
  BY <1>5, <1>6, <1>7, <1>10
<1> QED
  BY <1>5, <1>8, <1>10

\* Another command is sent, when the program waited for nothing.
LEMMA SendAbout ==
  ASSUME NEW s \in Seq(Byte), NEW k \in Nat, NEW b \in Int
  PROVE  /\ Behind(s, k, 0, b) => Behind(s, k + 1, Wanted(s), b)
         /\ About(s, k, 0, b) => About(s, k + 1, Wanted(s), b)
<1> DEFINE l == Len(s)
           w == Wanted(s)
<1>1. l \in Nat
  BY LenProperties
<1>2. l < 3 => w = 7
  BY DEF Wanted
<1>3. ASSUME NEW n \in 3..l, Framed(s, 1, n)
      PROVE  /\ w \in Nat /\ w >= 3
             /\ \A x \in Int : n <= 7 * x + 2 => n - w <= 7 * (x - 1) + 2
  BY <1>3, WantedIs
<1>4. l >= 3 => w \in Nat /\ w >= 3
  <2> SUFFICES ASSUME l >= 3 PROVE w \in Nat /\ w >= 3
    OBVIOUS
  <2>1. s[3] \in Byte
    BY <1>1, ElementOfSeq
  <2>2. s[3] \in Nat
    BY <2>1, ByteIs
  <2>3. w = 3 + s[3]
    BY <1>1 DEF Wanted
  <2> QED
    BY <2>2, <2>3
<1> HIDE DEF l, w
<1>5. ASSUME Behind(s, k, 0, b) PROVE Behind(s, k + 1, w, b)
  <2>1. Framed(s, 1, l) /\ 7 * k + l - 0 <= 7 * b + 2
    BY <1>5 DEF Behind, l
  <2>2. 7 * (k + 1) + l - w <= 7 * b + 2
    <3>1. CASE l < 3
      BY <1>1, <1>2, <2>1, <3>1
    <3>2. CASE l >= 3
      <4>1. l \in 3..l /\ b - k \in Int /\ l <= 7 * (b - k) + 2
        BY <1>1, <2>1, <3>2
      <4>2. w \in Nat /\ l - w <= 7 * ((b - k) - 1) + 2
        BY <1>3, <2>1, <4>1
      <4> QED
        BY <1>1, <4>2
    <3> QED
      BY <1>1, <3>1, <3>2
  <2> QED
    BY <2>1, <2>2 DEF Behind, l
<1>6. ASSUME Gapped(s, k, 0, b) PROVE Gapped(s, k + 1, w, b)
  <2>1. PICK n \in Nat : Gap(s, n) /\ 7 * k + l - 0 + (IF 0 <= n THEN 5 ELSE 0) <= 7 * b + 2
    BY <1>6 DEF Gapped, l
  <2>2. Framed(s, 1, n) /\ \E q \in Nat : l = n + 2 + 7 * q
    BY <2>1 DEF Gap, l
  <2>3. PICK q \in Nat : l = n + 2 + 7 * q
    BY <2>2
  <2>4. 7 * k + l + 5 <= 7 * b + 2
    BY <1>1, <2>1
  <2>5. 7 * (k + 1) + l - w + (IF w <= n THEN 5 ELSE 0) <= 7 * b + 2
    <3>1. CASE l < 3
      BY <1>1, <1>2, <2>3, <2>4, <3>1
    <3>2. CASE l >= 3 /\ ~(w <= n)
      BY <1>1, <1>4, <2>4, <3>2
    <3>3. CASE l >= 3 /\ w <= n
      <4>1. n \in 3..l
        BY <1>1, <1>4, <2>3, <3>3
      <4>2. b - k - q - 1 \in Int /\ n <= 7 * (b - k - q - 1) + 2
        BY <1>1, <2>3, <2>4
      <4>3. w \in Nat /\ n - w <= 7 * ((b - k - q - 1) - 1) + 2
        BY <1>3, <2>2, <4>1, <4>2
      <4> QED
        BY <1>1, <2>3, <3>3, <4>3
    <3> QED
      BY <1>1, <3>1, <3>2, <3>3
  <2> QED
    BY <2>1, <2>5 DEF Gapped, l
<1> QED
  BY <1>5, <1>6 DEF About, w

\* Bytes are read, as many as were waited for or more.
LEMMA DropFramed ==
  ASSUME NEW s \in Seq(Byte), NEW t \in 0..Len(s), NEW a \in Nat \ {0}, NEW c \in 0..Len(s),
         NEW d \in Nat \ {0}, a <= d + t, t <= c, Framed(s, a, c)
  PROVE  Framed(From(s, t + 1), d, c - t)
<1>1. Len(s) \in Nat
  BY LenProperties
<1>2. From(s, t + 1) = SubSeq(s, t + 1, Len(s))
  BY DEF From
<1>3. \A i \in 1..(Len(s) - t) : From(s, t + 1)[i] = s[i + t]
  <2>1. t + 1 \in Nat /\ \A i \in (t + 1)..Len(s) : s[i] \in Byte
    BY <1>1, ElementOfSeq
  <2>2. \A i \in 1..(IF t + 1 <= Len(s) THEN Len(s) - (t + 1) + 1 ELSE 0) :
          SubSeq(s, t + 1, Len(s))[i] = s[(t + 1) + i - 1]
    BY <1>1, <2>1, SubSeqProperties
  <2> SUFFICES ASSUME NEW i \in 1..(Len(s) - t) PROVE From(s, t + 1)[i] = s[i + t]
    OBVIOUS
  <2>3. i \in 1..(IF t + 1 <= Len(s) THEN Len(s) - (t + 1) + 1 ELSE 0) /\ (t + 1) + i - 1 = i + t
    BY <1>1
  <2> QED
    BY <1>2, <2>2, <2>3
<1> SUFFICES ASSUME NEW i \in d..(c - t), NEW q \in Nat
             PROVE  /\ (c - t) - i = 7 * q + 6 => From(s, t + 1)[i] = 4
                    /\ (c - t) - i = 7 * q + 5 => From(s, t + 1)[i] = 14
                    /\ (c - t) - i = 7 * q + 4 => From(s, t + 1)[i] = 4
                    /\ (c - t) - i = 7 * q + 3 => From(s, t + 1)[i] = 1
  BY DEF Framed
<1>4. i + t \in a..c /\ i \in 1..(Len(s) - t) /\ (c - t) - i = c - (i + t)
  BY <1>1
<1>5. From(s, t + 1)[i] = s[i + t]
  BY <1>3, <1>4
<1>6. /\ c - (i + t) = 7 * q + 6 => s[i + t] = 4
      /\ c - (i + t) = 7 * q + 5 => s[i + t] = 14
      /\ c - (i + t) = 7 * q + 4 => s[i + t] = 4
      /\ c - (i + t) = 7 * q + 3 => s[i + t] = 1
  BY <1>4 DEF Framed
<1> QED
  BY <1>4, <1>5, <1>6

LEMMA FromIs ==
  ASSUME NEW s \in Seq(Byte), NEW t \in 0..Len(s)
  PROVE  /\ From(s, t + 1) \in Seq(Byte) /\ Len(From(s, t + 1)) = Len(s) - t
         /\ Len(s) \in Nat /\ Len(From(s, t + 1)) \in Nat
<1>1. Len(s) \in Nat /\ t + 1 \in Nat /\ \A i \in (t + 1)..Len(s) : s[i] \in Byte
  BY LenProperties, ElementOfSeq
<1>2. /\ SubSeq(s, t + 1, Len(s)) \in Seq(Byte)
      /\ Len(SubSeq(s, t + 1, Len(s))) = IF t + 1 <= Len(s) THEN Len(s) - (t + 1) + 1 ELSE 0
  BY <1>1, SubSeqProperties
<1> QED
  BY <1>1, <1>2 DEF From

LEMMA DropAbout ==
  ASSUME NEW s \in Seq(Byte), NEW t \in 0..Len(s), NEW k \in Nat, NEW a \in Nat, NEW b \in Int,
         a <= t
  PROVE  /\ Behind(s, k, a, b) => Behind(From(s, t + 1), k, 0, b)
         /\ About(s, k, a, b) => About(From(s, t + 1), k, 0, b)
<1> DEFINE l == Len(s)
           r == From(s, t + 1)
<1>1. r \in Seq(Byte) /\ Len(r) = l - t /\ l \in Nat /\ t \in Nat /\ t <= l
  BY FromIs
<1>2. ASSUME Framed(s, 1, l) PROVE Framed(r, 1, Len(r))
  <2>1. 1 \in Nat \ {0} /\ l \in 0..Len(s) /\ 1 <= 1 + t /\ t <= l
    BY <1>1
  <2>2. Framed(r, 1, l - t)
    BY <1>2, <2>1, DropFramed
  <2> QED
    BY <1>1, <2>2
<1>3. ASSUME Behind(s, k, a, b) PROVE Behind(r, k, 0, b)
  <2>1. Framed(s, 1, l) /\ 7 * k + l - a <= 7 * b + 2
    BY <1>3 DEF Behind
  <2>2. 7 * k + Len(r) - 0 <= 7 * b + 2
    <3> HIDE DEF l, r
    <3> QED
      BY <1>1, <2>1
  <2> QED
    BY <1>2, <2>1, <2>2 DEF Behind
<1>4. ASSUME Gapped(s, k, a, b) PROVE About(r, k, 0, b)
  <2>1. PICK n \in Nat : Gap(s, n) /\ 7 * k + l - a + (IF a <= n THEN 5 ELSE 0) <= 7 * b + 2
    BY <1>4 DEF Gapped
  <2>2. Framed(s, 1, n) /\ Framed(s, n + 1, l) /\ \E q \in Nat : l = n + 2 + 7 * q
    BY <2>1 DEF Gap
  <2>3. PICK q \in Nat : l = n + 2 + 7 * q
    BY <2>2
  <2>4. CASE t <= n
    <3>1. n \in 0..l /\ n + 1 \in Nat \ {0} /\ 1 <= 1 + t /\ n - t \in Nat
          /\ 1 \in Nat \ {0}
      BY <1>1, <2>3, <2>4
    <3>2. Framed(r, 1, n - t)
      BY <2>2, <2>4, <3>1, DropFramed
    <3>3. Framed(r, n - t + 1, Len(r))
      <4>1. /\ n - t + 1 \in Nat \ {0} /\ n + 1 <= (n - t + 1) + t /\ t <= l /\ l \in 0..Len(s)
        BY <1>1, <3>1
      <4>2. Framed(r, n - t + 1, l - t)
        BY <2>2, <3>1, <4>1, DropFramed
      <4> QED
        BY <1>1, <4>2
    <3> HIDE DEF l, r
    <3>4. Len(r) = (n - t) + 2 + 7 * q
      BY <1>1, <2>3
    <3>5. 7 * k + Len(r) - 0 + (IF 0 <= n - t THEN 5 ELSE 0) <= 7 * b + 2
      BY <1>1, <2>1, <2>4
    <3>6. Gap(r, n - t)
      BY <3>2, <3>3, <3>4 DEF Gap
    <3> QED
      BY <3>1, <3>5, <3>6 DEF About, Gapped
  <2>5. CASE t > n
    <3>1. Framed(r, 1, Len(r))
      <4>1. 1 \in Nat \ {0} /\ n + 1 \in Nat \ {0} /\ n + 1 <= 1 + t /\ t <= l /\ l \in 0..Len(s)
        BY <1>1, <2>5
      <4>2. Framed(r, 1, l - t)
        BY <2>2, <4>1, DropFramed
      <4> QED
        BY <1>1, <4>2
    <3> HIDE DEF l, r
    <3>2. 7 * k + Len(r) - 0 <= 7 * b + 2
      BY <1>1, <2>1
    <3> QED
      BY <3>1, <3>2 DEF About, Behind
  <2> QED
    BY <1>1, <2>4, <2>5
<1>5. Behind(r, k, 0, b) => About(r, k, 0, b)
  BY DEF About
<1> QED
  BY <1>3, <1>4, <1>5 DEF About, r

\* The beginning of every answer.
Answers(r) == r \in Seq(Byte) /\ r[1] = 4 /\ r[2] = 14 /\ r[3] = 4 /\ r[4] = 1

LEMMA AnswerBegins ==
  ASSUME TypeInv, NEW c \in KnownCmd, NEW status \in {0, 1}
  PROVE  Answers(Answer(c, status)) /\ Len(Answer(c, status)) = Length(c)
<1>1. Answer(c, status) \in Seq(Byte) /\ Len(Answer(c, status)) = Length(c)
  BY AnswerIs
<1>2. Opcode(c.op) \in Seq(Byte) /\ <<4, 14, 4, 1>> \in Seq(Byte) /\ <<status>> \in Seq(Byte)
      /\ If(c.op = "minidriver" /\ chip.two, <<0, 0>>) \in Seq(Byte)
  <2>1. c.op \in Ops
    BY DEF KnownCmd
  <2>2. \A x, y \in Byte : <<x, y>> \in Seq(Byte)
    OBVIOUS
  <2>3. {0, 1, 3, 12, 14, 46, 252, 76, 78, 24, 39, 28, 30, 109, 69, 4} \subseteq Byte
    BY DEF Byte
  <2>4. c.op \in {"reset", "minidriver", "record", "launch", "baud", "addr"}
          => \E x, y \in Byte : Opcode(c.op) = <<x, y>>
    BY <2>3 DEF Opcode
  <2>5. c.op \in {"lpm", "sco", "pcm", "i2s", "clock", "bogus"}
          => \E x, y \in Byte : Opcode(c.op) = <<x, y>>
    BY <2>3 DEF Opcode
  <2>6. Opcode(c.op) \in Seq(Byte)
    BY <2>1, <2>2, <2>4, <2>5 DEF Ops, Simple
  <2>7. <<4, 14, 4, 1>> \in Seq(Byte) /\ <<status>> \in Seq(Byte) /\ <<0, 0>> \in Seq(Byte)
    BY <2>3
  <2>8. If(c.op = "minidriver" /\ chip.two, <<0, 0>>) \in Seq(Byte)
    <3>1. <<>> \in Seq(Byte)
      OBVIOUS
    <3> QED
      BY <2>7, <3>1 DEF If
  <2> QED
    BY <2>6, <2>7, <2>8
<1>c. ASSUME NEW u \in Seq(Byte), NEW v \in Seq(Byte), Len(u) >= 4
      PROVE  /\ u \o v \in Seq(Byte) /\ Len(u \o v) >= 4
             /\ \A i \in 1..4 : (u \o v)[i] = u[i]
  <2>1. Len(u) \in Nat /\ Len(v) \in Nat
    BY LenProperties
  <2>2. /\ u \o v \in Seq(Byte) /\ Len(u \o v) = Len(u) + Len(v)
        /\ \A i \in 1..Len(u) + Len(v) : (u \o v)[i] = IF i <= Len(u) THEN u[i] ELSE v[i - Len(u)]
    BY ConcatProperties
  <2>3. \A i \in 1..4 : i \in 1..Len(u) + Len(v) /\ i <= Len(u)
    BY <1>c, <2>1
  <2> QED
    BY <1>c, <2>1, <2>2, <2>3
<1> DEFINE a == <<4, 14, 4, 1>>
           b == Opcode(c.op)
           d == <<status>>
           e == If(c.op = "minidriver" /\ chip.two, <<0, 0>>)
           f == a \o b
           g == f \o d
<1>3. Len(a) >= 4 /\ a[1] = 4 /\ a[2] = 14 /\ a[3] = 4 /\ a[4] = 1
  OBVIOUS
<1>t. a \in Seq(Byte) /\ b \in Seq(Byte) /\ d \in Seq(Byte) /\ e \in Seq(Byte)
  BY <1>2
<1>9. Answer(c, status) = g \o e
  BY DEF Answer
<1> HIDE DEF a, b, d, e
<1>4. f \in Seq(Byte) /\ Len(f) >= 4 /\ \A i \in 1..4 : f[i] = a[i]
  BY <1>3, <1>t, <1>c
<1> HIDE DEF f
<1>5. g \in Seq(Byte) /\ Len(g) >= 4 /\ \A i \in 1..4 : g[i] = f[i]
  BY <1>4, <1>t, <1>c
<1> HIDE DEF g
<1>6. \A i \in 1..4 : (g \o e)[i] = g[i]
  BY <1>5, <1>t, <1>c
<1> DEFINE h == g \o e
<1> HIDE DEF h
<1>7. h[1] = 4 /\ h[2] = 14 /\ h[3] = 4 /\ h[4] = 1
  <2>1. \A i \in 1..4 : h[i] = a[i]
    BY <1>4, <1>5, <1>6 DEF h
  <2> QED
    BY <1>3, <2>1
<1>8. Answer(c, status) = h
  BY <1>9 DEF h
<1> QED
  BY <1>1, <1>7, <1>8 DEF Answers

\* An answer is appended.
LEMMA AnswerFramed ==
  ASSUME NEW s \in Seq(Byte), NEW r, Answers(r), NEW m \in Nat, Len(r) = 7 + m,
         NEW a \in Nat \ {0}, a <= Len(s) + 1, Framed(s, a, Len(s))
  PROVE  /\ s \o r \in Seq(Byte) /\ Len(s \o r) = Len(s) + 7 + m /\ Len(s) \in Nat
         /\ \A i \in 1..Len(s) : (s \o r)[i] = s[i]
         /\ Framed(s \o r, a, Len(s) + 7)
<1> DEFINE t == s \o r
           l == Len(s)
<1>1. l \in Nat /\ Len(r) \in Nat /\ r \in Seq(Byte)
  BY LenProperties DEF Answers
<1>2. /\ t \in Seq(Byte) /\ Len(t) = l + Len(r)
      /\ \A i \in 1..l + Len(r) : t[i] = IF i <= l THEN s[i] ELSE r[i - l]
  BY <1>1, ConcatProperties
<1> HIDE DEF t
<1>3. Len(t) = l + 7 + m
  BY <1>1, <1>2
<1>4. \A i \in 1..l : t[i] = s[i]
  BY <1>1, <1>2
<1>5. t[l + 1] = 4 /\ t[l + 2] = 14 /\ t[l + 3] = 4 /\ t[l + 4] = 1
  <2>1. \A j \in 1..4 : t[l + j] = r[j]
    <3> SUFFICES ASSUME NEW j \in 1..4 PROVE t[l + j] = r[j]
      OBVIOUS
    <3>1. l + j \in 1..l + Len(r) /\ ~(l + j <= l) /\ (l + j) - l = j
      BY <1>1
    <3> QED
      BY <1>2, <3>1
  <2> QED
    BY <2>1 DEF Answers
<1>6. Framed(t, a, l + 7)
  <2> SUFFICES ASSUME NEW i \in a..(l + 7), NEW q \in Nat
               PROVE  /\ (l + 7) - i = 7 * q + 6 => t[i] = 4
                      /\ (l + 7) - i = 7 * q + 5 => t[i] = 14
                      /\ (l + 7) - i = 7 * q + 4 => t[i] = 4
                      /\ (l + 7) - i = 7 * q + 3 => t[i] = 1
    BY DEF Framed
  <2>1. CASE i <= l
    <3>1. i \in a..l /\ i \in 1..l
      BY <1>1, <2>1
    <3>2. \A p \in Nat :
            /\ l - i = 7 * p + 6 => s[i] = 4
            /\ l - i = 7 * p + 5 => s[i] = 14
            /\ l - i = 7 * p + 4 => s[i] = 4
            /\ l - i = 7 * p + 3 => s[i] = 1
      BY <3>1 DEF Framed
    <3>3. t[i] = s[i]
      BY <1>4, <3>1
    <3> DEFINE w == s[i]
    <3> HIDE DEF l, w
    <3>4. \A p \in Nat :
            /\ l - i = 7 * p + 6 => w = 4
            /\ l - i = 7 * p + 5 => w = 14
            /\ l - i = 7 * p + 4 => w = 4
            /\ l - i = 7 * p + 3 => w = 1
      BY <3>2 DEF w, l
    <3>5. q = 0 \/ q - 1 \in Nat
      OBVIOUS
    <3>6. q # 0 => /\ l - i = 7 * (q - 1) + 6 => w = 4
                   /\ l - i = 7 * (q - 1) + 5 => w = 14
                   /\ l - i = 7 * (q - 1) + 4 => w = 4
                   /\ l - i = 7 * (q - 1) + 3 => w = 1
      BY <3>4, <3>5
    <3>7. /\ (l + 7) - i = 7 * q + 6 => w = 4
          /\ (l + 7) - i = 7 * q + 5 => w = 14
          /\ (l + 7) - i = 7 * q + 4 => w = 4
          /\ (l + 7) - i = 7 * q + 3 => w = 1
      BY <1>1, <2>1, <3>1, <3>6
    <3> QED
      BY <3>3, <3>7 DEF w
  <2>2. CASE i > l
    <3> HIDE DEF l
    <3>1. i \in Nat /\ i <= l + 7
      BY <1>1, <2>2
    <3>2. /\ (l + 7) - i = 7 * q + 6 => i = l + 1
          /\ (l + 7) - i = 7 * q + 5 => i = l + 2
          /\ (l + 7) - i = 7 * q + 4 => i = l + 3
          /\ (l + 7) - i = 7 * q + 3 => i = l + 4
      BY <1>1, <2>2, <3>1
    <3> QED
      BY <1>5, <3>2
  <2> QED
    BY <1>1, <2>1, <2>2
<1> QED
  BY <1>1, <1>2, <1>3, <1>4, <1>6 DEF t

LEMMA WantedMore ==
  ASSUME NEW s \in Seq(Byte), NEW r, Answers(r), NEW m \in Nat, Len(r) = 7 + m
  PROVE  Wanted(s) \in Nat /\ Wanted(s \o r) \in Nat /\ Wanted(s) <= Wanted(s \o r)
<1> DEFINE t == s \o r
           l == Len(s)
<1>1. l \in Nat /\ Len(r) \in Nat /\ r \in Seq(Byte)
  BY LenProperties DEF Answers
<1>2. /\ t \in Seq(Byte) /\ Len(t) = l + Len(r)
      /\ \A i \in 1..l + Len(r) : t[i] = IF i <= l THEN s[i] ELSE r[i - l]
  BY <1>1, ConcatProperties
<1> HIDE DEF t
<1>3. Len(t) >= 7
  BY <1>1, <1>2
<1>4. Wanted(t) = 3 + t[3]
  BY <1>3 DEF Wanted
<1>5. l >= 3 => Wanted(s) = 3 + s[3] /\ t[3] = s[3] /\ s[3] \in Nat
  <2> SUFFICES ASSUME l >= 3 PROVE Wanted(s) = 3 + s[3] /\ t[3] = s[3] /\ s[3] \in Nat
    OBVIOUS
  <2>1. 3 \in 1..l + Len(r) /\ 3 <= l /\ 3 \in 1..l
    BY <1>1
  <2>2. t[3] = s[3]
    BY <1>2, <2>1
  <2>3. s[3] \in Nat
    BY <2>1, ElementOfSeq, ByteIs
  <2>4. Wanted(s) = 3 + s[3]
    BY <1>1 DEF Wanted
  <2> QED
    BY <2>2, <2>3, <2>4
<1>6. l < 3 => Wanted(s) = 7 /\ t[3] \in {4, 14}
  <2> SUFFICES ASSUME l < 3 PROVE Wanted(s) = 7 /\ t[3] \in {4, 14}
    OBVIOUS
  <2>1. Wanted(s) = 7
    BY DEF Wanted
  <2>2. 3 \in 1..l + Len(r) /\ ~(3 <= l) /\ 3 - l \in 1..3
    BY <1>1
  <2>3. t[3] = r[3 - l]
    BY <1>2, <2>2
  <2>4. \A j \in 1..3 : r[j] \in {4, 14}
    BY DEF Answers
  <2> QED
    BY <2>1, <2>2, <2>3, <2>4
<1>7. l < 3 \/ l >= 3
  BY <1>1
<1> DEFINE w == t[3]
<1> HIDE DEF w, l
<1>8. CASE l < 3
  <2>1. Wanted(s) = 7 /\ w \in {4, 14} /\ Wanted(t) = 3 + w
    BY <1>4, <1>6, <1>8 DEF w
  <2> QED
    BY <2>1 DEF t
<1>9. CASE l >= 3
  <2>1. Wanted(s) = Wanted(t) /\ Wanted(s) = 3 + w /\ w \in Nat
    BY <1>4, <1>5, <1>9 DEF w
  <2> QED
    BY <2>1 DEF t
<1> QED
  BY <1>7, <1>8, <1>9

\* A command is taken and answered.
LEMMA TakeAbout ==
  ASSUME NEW s \in Seq(Byte), NEW r, Answers(r), NEW k \in Nat \ {0}, NEW b \in Int,
         NEW a \in Nat, NEW c \in Nat, a <= c
  PROVE  /\ Len(r) = 7 /\ Behind(s, k, a, b) => Behind(s \o r, k - 1, c, b)
         /\ Len(r) = 7 /\ About(s, k, a, b) => About(s \o r, k - 1, c, b)
         /\ Len(r) = 9 /\ Behind(s, k, a, b) => About(s \o r, k - 1, c, b + 1)
<1> DEFINE l == Len(s)
           t == s \o r
<1>1. l \in Nat
  BY LenProperties
<1>2. ASSUME Len(r) = 7, Behind(s, k, a, b) PROVE Behind(t, k - 1, c, b)
  <2>1. Framed(s, 1, l) /\ 7 * k + l - a <= 7 * b + 2
    BY <1>2 DEF Behind
  <2>2. Len(r) = 7 + 0 /\ 0 \in Nat /\ 1 \in Nat \ {0} /\ 1 <= l + 1
    BY <1>1, <1>2
  <2>3. Len(t) = l + 7 + 0 /\ Framed(t, 1, l + 7)
    BY <2>1, <2>2, AnswerFramed
  <2> HIDE DEF l, t
  <2>4. Len(t) = l + 7
    BY <1>1, <2>3
  <2>5. 7 * (k - 1) + Len(t) - c <= 7 * b + 2
    BY <1>1, <2>1, <2>4
  <2> QED
    BY <2>3, <2>4, <2>5 DEF Behind
<1>3. ASSUME Len(r) = 7, Gapped(s, k, a, b) PROVE Gapped(t, k - 1, c, b)
  <2>1. PICK n \in Nat : Gap(s, n) /\ 7 * k + l - a + (IF a <= n THEN 5 ELSE 0) <= 7 * b + 2
    BY <1>3 DEF Gapped
  <2>2. Framed(s, 1, n) /\ Framed(s, n + 1, l) /\ \E q \in Nat : l = n + 2 + 7 * q
    BY <2>1 DEF Gap
  <2>3. PICK q \in Nat : l = n + 2 + 7 * q
    BY <2>2
  <2>4. Len(r) = 7 + 0 /\ 0 \in Nat /\ n + 1 \in Nat \ {0} /\ n + 1 <= l + 1
    BY <1>1, <1>3, <2>3
  <2>5. /\ Len(t) = l + 7 + 0 /\ Framed(t, n + 1, l + 7)
        /\ \A i \in 1..l : t[i] = s[i]
    BY <2>2, <2>4, AnswerFramed
  <2> HIDE DEF l, t
  <2>6. Len(t) = l + 7 /\ Len(t) = n + 2 + 7 * (q + 1)
    BY <1>1, <2>3, <2>5
  <2>7. Framed(t, 1, n)
    <3>1. \A i \in 1..n : t[i] = s[i]
      BY <1>1, <2>3, <2>5
    <3> QED
      BY <2>2, <3>1 DEF Framed
  <2>8. 7 * (k - 1) + Len(t) - c + (IF c <= n THEN 5 ELSE 0) <= 7 * b + 2
    BY <1>1, <2>1, <2>6 DEF l
  <2>9. Gap(t, n)
    <3>1. Framed(t, n + 1, Len(t))
      BY <2>5, <2>6
    <3>2. q + 1 \in Nat /\ Len(t) = n + 2 + 7 * (q + 1)
      BY <2>6
    <3> QED
      BY <2>7, <3>1, <3>2 DEF Gap
  <2> QED
    BY <2>8, <2>9 DEF Gapped
<1>4. ASSUME Len(r) = 9, Behind(s, k, a, b) PROVE Gapped(t, k - 1, c, b + 1)
  <2>1. Framed(s, 1, l) /\ 7 * k + l - a <= 7 * b + 2
    BY <1>4 DEF Behind
  <2>2. Len(r) = 7 + 2 /\ 2 \in Nat /\ 1 \in Nat \ {0} /\ 1 <= l + 1
    BY <1>1, <1>4
  <2>3. Len(t) = l + 7 + 2 /\ Framed(t, 1, l + 7)
    BY <2>1, <2>2, AnswerFramed
  <2> DEFINE n == l + 7
  <2> HIDE DEF l, t
  <2>4. n \in Nat /\ Len(t) = n + 2 + 7 * 0
    BY <1>1, <2>3
  <2>5. Framed(t, n + 1, Len(t))
    <3> HIDE DEF n
    <3> SUFFICES ASSUME NEW i \in (n + 1)..Len(t), NEW q \in Nat
                 PROVE  Len(t) - i # 7 * q + 6 /\ Len(t) - i # 7 * q + 5
                        /\ Len(t) - i # 7 * q + 4 /\ Len(t) - i # 7 * q + 3
      BY DEF Framed
    <3> QED
      BY <2>4
  <2>6. 7 * (k - 1) + Len(t) - c + (IF c <= n THEN 5 ELSE 0) <= 7 * (b + 1) + 2
    BY <1>1, <2>1, <2>4
  <2>7. Gap(t, n)
    BY <2>3, <2>4, <2>5 DEF Gap
  <2> QED
    BY <2>4, <2>6, <2>7 DEF Gapped
<1> QED
  BY <1>2, <1>3, <1>4 DEF About

\* Fewer commands, or a bound that has risen with them.
LEMMA MoreAbout ==
  ASSUME NEW s \in Seq(Byte), NEW k \in Nat, NEW a \in Nat, NEW b \in Int,
         NEW j \in Nat, NEW d \in Int, j - d <= k - b
  PROVE  /\ Behind(s, k, a, b) => Behind(s, j, a, d)
         /\ About(s, k, a, b) => About(s, j, a, d)
<1>1. Len(s) \in Nat
  BY LenProperties
<1> DEFINE l == Len(s)
<1> HIDE DEF l
<1>2. l \in Nat /\ 7 * j - 7 * d <= 7 * k - 7 * b
  BY <1>1 DEF l
<1>3. ASSUME Behind(s, k, a, b) PROVE Behind(s, j, a, d)
  <2>1. 7 * k + l - a <= 7 * b + 2
    BY <1>3 DEF Behind, l
  <2>2. 7 * j + l - a <= 7 * d + 2
    BY <1>2, <2>1
  <2> QED
    BY <1>3, <2>2 DEF Behind, l
<1>4. ASSUME Gapped(s, k, a, b) PROVE Gapped(s, j, a, d)
  <2>1. PICK n \in Nat : Gap(s, n) /\ 7 * k + l - a + (IF a <= n THEN 5 ELSE 0) <= 7 * b + 2
    BY <1>4 DEF Gapped, l
  <2>2. 7 * j + l - a + (IF a <= n THEN 5 ELSE 0) <= 7 * d + 2
    BY <1>2, <2>1
  <2> QED
    BY <2>1, <2>2 DEF Gapped, l
<1> QED
  BY <1>3, <1>4 DEF About

\* An alarm with nothing on its way.
LEMMA QuietAbout ==
  ASSUME NEW s \in Seq(Byte), Len(s) < Wanted(s), NEW b \in Nat
  PROVE  /\ b >= 1 /\ Behind(s, 0, Wanted(s), b) => Behind(s, 1, Wanted(s), b)
         /\ b >= 1 /\ About(s, 0, Wanted(s), b) => About(s, 1, Wanted(s), b)
         /\ Framed(s, 1, Len(s)) /\ (\E q \in Nat : Len(s) = 7 * q) => Behind(s, 1, Wanted(s), b)
<1> DEFINE l == Len(s)
           w == Wanted(s)
<1>1. l \in Nat
  BY LenProperties
<1>2. w \in Nat
  <2>1. CASE l < 3
    BY <2>1 DEF Wanted
  <2>2. CASE l >= 3
    <3>1. 3 \in 1..l
      BY <1>1, <2>2
    <3>2. s[3] \in Nat
      BY <3>1, ElementOfSeq, ByteIs
    <3>3. w = 3 + s[3]
      BY <1>1, <2>2 DEF Wanted
    <3> QED
      BY <3>2, <3>3
  <2> QED
    BY <1>1, <2>1, <2>2
<1>3. ASSUME Framed(s, 1, l), NEW q \in Nat, l = 7 * q PROVE l = 0
  <2>1. l >= 3 => w = 7
    <3> SUFFICES ASSUME l >= 3 PROVE w = 7
      OBVIOUS
    <3>1. l \in 3..l
      BY <1>1
    <3> QED
      BY <1>3, <3>1, WantedIs
  <2> HIDE DEF l, w
  <2>2. l < w
    BY DEF l, w
  <2> QED
    BY <1>1, <1>3, <2>1, <2>2
<1>4. l = 0 => w = 7
  BY DEF Wanted
<1>5. l < w
  OBVIOUS
<1> HIDE DEF l, w
<1>6. 7 * 1 + l - w <= 6
  BY <1>1, <1>2, <1>5
<1>7. b >= 1 => 7 * 1 + l - w <= 7 * b + 2
  BY <1>1, <1>2, <1>6
<1>8. l = 0 => 7 * 1 + l - w <= 7 * b + 2
  BY <1>4
<1>9. ASSUME b >= 1, Gapped(s, 0, w, b) PROVE Gapped(s, 1, w, b)
  <2>1. PICK n \in Nat : Gap(s, n)
    BY <1>9 DEF Gapped
  <2>2. PICK q \in Nat : l = n + 2 + 7 * q
    BY <2>1 DEF Gap, l
  <2>3. ~(w <= n)
    BY <1>1, <1>2, <1>5, <2>2
  <2>4. 7 * 1 + l - w + (IF w <= n THEN 5 ELSE 0) <= 7 * b + 2
    BY <1>1, <1>2, <1>7, <1>9, <2>3
  <2> QED
    BY <2>1, <2>4 DEF Gapped, l
<1>10. b >= 1 /\ Behind(s, 0, w, b) => Behind(s, 1, w, b)
  BY <1>7 DEF Behind, l
<1>11. ASSUME Framed(s, 1, Len(s)), \E q \in Nat : Len(s) = 7 * q PROVE Behind(s, 1, w, b)
  <2>1. l = 0
    BY <1>3, <1>11 DEF l
  <2> QED
    BY <1>8, <1>11, <2>1 DEF Behind, l
<1> QED
  BY <1>9, <1>10, <1>11 DEF About, w

----------------------------------------------------------------------------
(* How far ahead the program is.                                           *)

\* What read_event waits for, and how many answers the program may be ahead:
\* one more for every alarm while an answer was on its way.
Awaited == IF pc = "read" THEN Wanted(Stream) ELSE 0
Bound   == IF "late" \in odd THEN troubles ELSE Least(1, troubles)

\* The minidriver, whose answer may have two bytes more, is not yet executed.
Driven == \E i \in 1..Len(cmds) : cmds[i].op = "minidriver"
Fresh  == Sent < 0 \/ Driven
Ledger ==
  IF Fresh
  THEN /\ Behind(Stream, Len(cmds), Awaited, Bound)
       /\ troubles = 0 => \E q \in Nat : Len(Stream) = 7 * q
  ELSE About(Stream, Len(cmds), Awaited, Bound + 1)

LEMMA BoundIs ==
  ASSUME TypeInv
  PROVE  /\ Bound \in Nat /\ troubles \in Nat /\ (troubles # 0 => Bound >= 1)
         /\ Tame => Bound <= 2
<1>1. troubles \in Nat
  BY Assumptions DEF TypeInv, TypeOK
<1> QED
  BY <1>1 DEF Bound, Least, Tame

LEMMA BoundNext ==
  ASSUME TypeInv, [Next]_vars, Tame'
  PROVE  /\ Bound' \in Nat /\ Bound' <= 2 /\ Bound <= Bound' /\ (troubles' = 0 => troubles = 0)
         /\ troubles' \in Nat /\ (troubles' # 0 => Bound' >= 1)
         /\ ExpireLate => Bound + 1 <= Bound' /\ troubles' # 0
<1>1. troubles \in Nat /\ troubles' \in Nat /\ troubles <= troubles'
      /\ ("late" \in odd => "late" \in odd')
  BY TameNext
<1>2. ExpireLate => troubles' = troubles + 1 /\ "late" \in odd'
  BY DEF ExpireLate, Trouble
<1>3. Bound' = IF "late" \in odd' THEN troubles' ELSE Least(1, troubles')
  BY DEF Bound
<1>4. "late" \in odd' => troubles' <= 2
  BY DEF Tame
<1> QED
  BY <1>1, <1>2, <1>3, <1>4 DEF Bound, Least

LEMMA AwaitedIs ==
  ASSUME TypeInv
  PROVE  /\ Awaited \in Nat /\ Stream \in Seq(Byte) /\ Len(Stream) \in Nat
         /\ Wanted(Stream) \in Nat
         /\ pc = "read" /\ rx = <<>> /\ out = <<>> => Len(Stream) < Wanted(Stream)
<1>1. /\ buf \in Seq(Byte) /\ Len(buf) \in Nat /\ Len(rx) \in Nat /\ Len(out) \in Nat
      /\ Stream \in Seq(Byte) /\ Len(Stream) = Len(buf) + Len(rx) + Len(out)
      /\ \A i \in 1..Len(buf) : Stream[i] = buf[i]
      /\ rx = <<>> <=> Len(rx) = 0
      /\ out = <<>> <=> Len(out) = 0
  BY StreamIs
<1>2. Len(Stream) \in Nat
  BY <1>1
<1>3. Wanted(Stream) \in Nat
  <2>1. CASE Len(Stream) < 3
    BY <2>1 DEF Wanted
  <2>2. CASE Len(Stream) >= 3
    <3>1. 3 \in 1..Len(Stream)
      BY <1>2, <2>2
    <3>2. Stream[3] \in Nat
      BY <1>1, <3>1, ElementOfSeq, ByteIs
    <3>3. Wanted(Stream) = 3 + Stream[3]
      BY <1>2, <2>2 DEF Wanted
    <3> QED
      BY <3>2, <3>3
  <2> QED
    BY <1>2, <2>1, <2>2
<1>4. ASSUME rx = <<>>, out = <<>> PROVE Len(Stream) < Wanted(Stream)
  <2>1. Len(Stream) = Len(buf)
    BY <1>1, <1>4
  <2>2. Len(buf) >= 3 => Len(buf) < 3 + buf[3]
    BY DEF TypeInv, TypeOK
  <2>3. CASE Len(buf) >= 3
    <3>1. 3 \in 1..Len(buf)
      BY <1>1, <2>3
    <3>2. Stream[3] = buf[3]
      BY <1>1, <3>1
    <3>3. Wanted(Stream) = 3 + Stream[3]
      BY <1>1, <2>1, <2>3 DEF Wanted
    <3> QED
      BY <2>1, <2>2, <2>3, <3>2, <3>3
  <2>4. CASE Len(buf) < 3
    <3>1. Wanted(Stream) = 7
      BY <2>1, <2>4 DEF Wanted
    <3> QED
      BY <2>1, <2>4, <3>1
  <2> QED
    BY <1>1, <2>3, <2>4
<1> QED
  BY <1>1, <1>2, <1>3, <1>4 DEF Awaited

\* What is left of a stream when its beginning is read.
LEMMA RestOf ==
  ASSUME NEW u \in Seq(Byte), NEW v \in Seq(Byte)
  PROVE  /\ From(u \o v, Len(u) + 1) = v
         /\ Len(u) \in 0..Len(u \o v) /\ <<>> \o v = v /\ u \o v \in Seq(Byte)
<1>1. /\ u \o v \in Seq(Byte) /\ Len(u \o v) = Len(u) + Len(v) /\ Len(u) \in Nat /\ Len(v) \in Nat
      /\ \A i \in 1..Len(u) + Len(v) : (u \o v)[i] = IF i <= Len(u) THEN u[i] ELSE v[i - Len(u)]
  BY ConcatProperties, LenProperties
<1> DEFINE s == u \o v
           t == Len(u)
           r == From(s, t + 1)
<1>2. t \in 0..Len(s)
  BY <1>1
<1>3. r \in Seq(Byte) /\ Len(r) = Len(v)
  <2>1. r \in Seq(Byte) /\ Len(r) = Len(s) - t
    BY <1>1, <1>2, FromIs
  <2> QED
    BY <1>1, <2>1
<1>4. \A i \in 1..Len(r) : r[i] = v[i]
  <2> SUFFICES ASSUME NEW i \in 1..Len(v) PROVE r[i] = v[i]
    BY <1>3
  <2>1. r = SubSeq(s, t + 1, Len(s))
    BY DEF From
  <2>2. \A j \in (t + 1)..Len(s) : s[j] \in Byte
    BY <1>1, ElementOfSeq
  <2>3. i \in 1..(Len(s) - (t + 1) + 1) /\ t + 1 \in Int /\ Len(s) \in Int
    BY <1>1
  <2>4. r[i] = s[(t + 1) + i - 1]
    <3> HIDE DEF s, t, r
    <3>1. \A j \in 1..(Len(s) - (t + 1) + 1) : SubSeq(s, t + 1, Len(s))[j] = s[(t + 1) + j - 1]
      BY <2>2, <2>3, SubSeqProperties
    <3> QED
      BY <2>1, <2>3, <3>1
  <2>5. (t + 1) + i - 1 = t + i /\ t + i \in 1..Len(u) + Len(v) /\ ~(t + i <= Len(u))
        /\ (t + i) - Len(u) = i
    BY <1>1
  <2> QED
    BY <1>1, <2>4, <2>5
<1>5. r = v
  BY <1>3, <1>4, SeqEqual
<1>6. <<>> \o v = v
  BY ConcatEmptySeq
<1> QED
  BY <1>1, <1>2, <1>5, <1>6

LEMMA LastStream ==
  ASSUME TypeInv, ReadLast
  PROVE  /\ Stream' = From(Stream, Wanted(Stream) + 1) /\ Wanted(Stream) \in 0..Len(Stream)
         /\ Awaited = Wanted(Stream) /\ Awaited' = 0 /\ Wanted(Stream) >= 3
<1>1. /\ rx # <<>> /\ Len(Got) >= 3 /\ Len(Got) = 3 + Got[3] /\ pc = "read" /\ pc' # "read"
      /\ buf' = <<>> /\ rx' = From(rx, Count + 1) /\ out' = out
  BY DEF ReadLast, Complete
<1>2. /\ Got \o (From(rx, Count + 1) \o out) = Stream
      /\ Got \in Seq(Byte) /\ Len(Got) \in Nat
      /\ From(rx, Count + 1) \in Seq(Byte)
      /\ \A i \in 1..Len(Got) : Got[i] = Stream[i]
  BY <1>1, ReadIs
<1> DEFINE v == From(rx, Count + 1) \o out
<1>3. v \in Seq(Byte)
  BY <1>2, StreamIs, ConcatProperties
<1>4. Stream' = <<>> \o v
  BY <1>1 DEF Stream
<1>5. Stream = Got \o v
  BY <1>2
<1> HIDE DEF v
<1>6. Stream' = From(Stream, Len(Got) + 1) /\ Len(Got) \in 0..Len(Stream)
  BY <1>2, <1>3, <1>4, <1>5, RestOf
<1>7. Wanted(Stream) = Len(Got)
  <2>1. Len(Stream) \in Nat
    BY AwaitedIs
  <2>2. Len(Stream) >= 3 /\ 3 \in 1..Len(Got)
    BY <1>1, <1>2, <1>6, <2>1
  <2>3. Got[3] = Stream[3]
    BY <1>2, <2>2
  <2> QED
    BY <1>1, <2>1, <2>2, <2>3 DEF Wanted
<1> QED
  BY <1>1, <1>6, <1>7 DEF Awaited

LEMMA TwoStream ==
  ASSUME TypeInv, WhereInv, ReadTwo
  PROVE  \E t \in 0..Len(Stream) : Stream' = From(Stream, t + 1)
<1>1. buf = <<>> /\ rx # <<>> /\ buf' = buf /\ out' = out
      /\ rx' = From(rx, Least(2, Len(rx)) + 1)
  BY DEF ReadTwo, WhereInv
<1> DEFINE t == Least(2, Len(rx))
           u == SubSeq(rx, 1, t)
           w == From(rx, t + 1)
<1>2. rx \in Seq(Byte) /\ out \in Seq(Byte) /\ Len(rx) \in Nat
  BY StreamIs
<1>3. t \in 0..Len(rx)
  BY <1>2 DEF Least
<1> HIDE DEF t
<1>4. u \in Seq(Byte) /\ Len(u) = t
  <2>1. \A i \in 1..t : rx[i] \in Byte
    BY <1>2, <1>3, ElementOfSeq
  <2>2. t \in Int /\ 1 \in Int
    BY <1>3
  <2>3. u \in Seq(Byte) /\ Len(u) = IF 1 <= t THEN t - 1 + 1 ELSE 0
    BY <2>1, <2>2, SubSeqProperties
  <2> QED
    BY <1>2, <1>3, <2>3
<1>5. u \o w = rx
  <2>1. 1 \in 1..Len(rx) + 1 /\ t \in (1 - 1)..Len(rx) /\ Len(rx) \in t..Len(rx)
    BY <1>2, <1>3
  <2>2. u \o SubSeq(rx, t + 1, Len(rx)) = SubSeq(rx, 1, Len(rx))
    BY <1>2, <2>1, ConcatAdjacentSubSeq
  <2> QED
    BY <1>2, <2>2, SubSeqFull DEF From
<1>6. w \in Seq(Byte)
  BY <1>2, <1>3, FromIs
<1> HIDE DEF u, w
<1>7. w \o out \in Seq(Byte)
  BY <1>2, <1>6, ConcatProperties
<1>8. Stream = u \o (w \o out)
  <2>1. rx \o out \in Seq(Byte)
    BY <1>2, ConcatProperties
  <2>2. Stream = rx \o out
    BY <1>1, <2>1, ConcatEmptySeq DEF Stream
  <2>3. (u \o w) \o out = u \o (w \o out)
    <3>1. \A x, y, z \in Seq(Byte) : (x \o y) \o z = x \o (y \o z)
      BY ConcatAssociative
    <3> QED
      BY <1>2, <1>4, <1>6, <3>1
  <2> QED
    BY <1>5, <2>2, <2>3
<1>9. Stream' = <<>> \o (w \o out)
  BY <1>1 DEF Stream, w, t
<1>10. Stream' = From(Stream, t + 1) /\ t \in 0..Len(Stream)
  BY <1>4, <1>7, <1>8, <1>9, RestOf
<1> QED
  BY <1>10

LEMMA TakeStream ==
  ASSUME TypeInv, NEW r \in Seq(Byte), out = <<>>, out' = r, buf' = buf, rx' = rx
  PROVE  Stream' = Stream \o r
<1>1. buf \in Seq(Byte) /\ rx \in Seq(Byte)
  BY StreamIs
<1>2. Stream = buf \o rx
  BY <1>1, ConcatEmptySeq DEF Stream
<1>3. Stream' = buf \o (rx \o r)
  BY DEF Stream
<1>4. (buf \o rx) \o r = buf \o (rx \o r)
  BY <1>1, ConcatAssociative
<1> QED
  BY <1>2, <1>3, <1>4

\* Only one minidriver is on its way, and it is sent at the rate that was asked for.
DriverInv ==
  \A i \in 1..Len(cmds) : cmds[i].op = "minidriver" =>
    rate = AskedRate /\ \A j \in 1..Len(cmds) : cmds[j].op = "minidriver" => j = i

LEMMA FreshSend ==
  ASSUME InPlace, QueueInv, Active, NEW c \in KnownCmd, Sends(c)
  PROVE  /\ Fresh' <=> Fresh
         /\ Len(cmds) \in Nat /\ Len(cmds') = Len(cmds) + 1
         /\ \A i \in 1..Len(cmds) : cmds'[i] = cmds[i]
         /\ cmds'[Len(cmds) + 1] = c
         /\ c.op = "minidriver" => Sent < 0 /\ ~Driven
<1>1. cmds' = Append(cmds, c) /\ cmds \in Seq(KnownCmd)
  BY DEF Sends, InPlace, TypeInv, LineInv
<1>2. /\ Len(cmds) \in Nat /\ Len(cmds') = Len(cmds) + 1
      /\ \A i \in 1..Len(cmds) : cmds'[i] = cmds[i]
      /\ cmds'[Len(cmds) + 1] = c
  BY <1>1, AppendIs
<1>3. Driven' <=> (Driven \/ c.op = "minidriver")
  <2>1. \A i \in 1..Len(cmds') : i \in 1..Len(cmds) \/ i = Len(cmds) + 1
    BY <1>2
  <2>2. (\A i \in 1..Len(cmds) : i \in 1..Len(cmds')) /\ Len(cmds) + 1 \in 1..Len(cmds')
    BY <1>2
  <2> QED
    BY <1>2, <2>1, <2>2 DEF Driven
<1>4. Sent \in Int /\ Records \in Nat
  BY SentIs
<1>5. /\ Sent' \in {Sent, Sent + 1} /\ Proper(c)
      /\ InDownload(c) => Sent' = Sent + 1 /\ Number(c) = Sent' /\ Sent' \in 0..(Records + 1)
      /\ ~InDownload(c) => Sent \notin 0..Records /\ Sent' \notin 0..(Records + 1)
  BY DEF Sends
<1>6. c.op = "minidriver" => InDownload(c) /\ Number(c) = 0
  BY DEF InDownload, Number
<1>7. c.op # "minidriver" /\ InDownload(c) => Number(c) >= 1
  <2> SUFFICES ASSUME c.op # "minidriver", InDownload(c) PROVE Number(c) >= 1
    OBVIOUS
  <2>1. Number(c) = c.arg[1] /\ c.op \in {"record", "launch"}
    BY DEF Number, InDownload
  <2> QED
    BY <1>4, <1>5, <2>1 DEF Proper
<1>8. c.op = "minidriver" => Sent = 0 - 1 /\ Sent' = 0
  BY <1>4, <1>5, <1>6
<1>9. c.op # "minidriver" => (Sent' < 0 <=> Sent < 0)
  <2>1. InDownload(c) /\ c.op # "minidriver" => Sent >= 0 /\ Sent' >= 0
    BY <1>4, <1>5, <1>7
  <2>2. ~InDownload(c) => (Sent' < 0 <=> Sent < 0)
    BY <1>4, <1>5
  <2> QED
    BY <1>4, <1>5, <2>1, <2>2
<1>10. Fresh' <=> Fresh
  <2>1. Fresh' <=> (Sent' < 0 \/ Driven')
    BY DEF Fresh
  <2> QED
    BY <1>3, <1>4, <1>8, <1>9, <2>1 DEF Fresh
<1>11. c.op = "minidriver" => Sent < 0 /\ ~Driven
  <2> SUFFICES ASSUME c.op = "minidriver", NEW i \in 1..Len(cmds), cmds[i].op = "minidriver"
               PROVE  FALSE
    BY <1>4, <1>8 DEF Driven
  <2>1. InDownload(cmds[i]) /\ Number(cmds[i]) = 0
    BY DEF InDownload, Number
  <2>2. Number(cmds[i]) <= Sent
    BY <2>1 DEF QueueInv
  <2> QED
    BY <1>8, <2>1, <2>2
<1> QED
  BY <1>2, <1>10, <1>11

\* A command leaves the buffer.
LEMMA FreshTail ==
  ASSUME InPlace, QueueInv, Active, cmds # <<>>, cmds' = Tail(cmds), Sent' = Sent
  PROVE  /\ Len(cmds) \in Nat /\ Len(cmds) >= 1 /\ Len(cmds') = Len(cmds) - 1
         /\ \A i \in 1..Len(cmds') : cmds'[i] = cmds[i + 1] /\ i + 1 \in 1..Len(cmds)
         /\ Fresh' => Fresh
         /\ Head(cmds).op # "minidriver" => (Fresh' <=> Fresh)
         /\ DriverInv /\ Head(cmds).op = "minidriver" => Fresh /\ ~Fresh'
         /\ Driven => Sent >= 0
<1>1. cmds \in Seq(KnownCmd)
  BY DEF InPlace, TypeInv, LineInv
<1>2. /\ Len(cmds) \in Nat /\ Len(cmds) >= 1 /\ Len(cmds') = Len(cmds) - 1
      /\ \A i \in 1..(Len(cmds) - 1) : cmds'[i] = cmds[i + 1]
      /\ Head(cmds) = cmds[1]
  BY <1>1, RestIs
<1>3. \A i \in 1..Len(cmds') : cmds'[i] = cmds[i + 1] /\ i + 1 \in 1..Len(cmds)
  BY <1>2
<1>4. Driven' => Driven
  BY <1>3 DEF Driven
<1>5. Head(cmds).op # "minidriver" => (Driven => Driven')
  <2> SUFFICES ASSUME Head(cmds).op # "minidriver",
                      NEW i \in 1..Len(cmds), cmds[i].op = "minidriver"
               PROVE  Driven'
    BY DEF Driven
  <2>1. i # 1
    BY <1>2
  <2>2. i - 1 \in 1..Len(cmds') /\ (i - 1) + 1 = i
    BY <1>2, <2>1
  <2>3. cmds'[i - 1] = cmds[i]
    BY <1>3, <2>2
  <2> QED
    BY <2>2, <2>3 DEF Driven
<1>6. ASSUME Driven PROVE Sent >= 0
  <2>1. PICK i \in 1..Len(cmds) : cmds[i].op = "minidriver"
    BY <1>6 DEF Driven
  <2>2. InDownload(cmds[i]) /\ Number(cmds[i]) = 0
    BY <2>1 DEF InDownload, Number
  <2>3. Number(cmds[i]) <= Sent
    BY <2>2 DEF QueueInv
  <2>4. Sent \in Int
    BY SentIs
  <2> QED
    BY <2>2, <2>3, <2>4
<1>7. ASSUME DriverInv, Head(cmds).op = "minidriver" PROVE Driven /\ ~Driven'
  <2>1. 1 \in 1..Len(cmds) /\ cmds[1].op = "minidriver"
    BY <1>2, <1>7
  <2>2. ASSUME NEW i \in 1..Len(cmds'), cmds'[i].op = "minidriver" PROVE FALSE
    <3>1. i + 1 \in 1..Len(cmds) /\ cmds[i + 1].op = "minidriver"
      BY <1>3, <2>2
    <3>2. i + 1 = 1
      BY <1>7, <2>1, <3>1 DEF DriverInv
    <3> QED
      BY <3>2
  <2> QED
    BY <2>1, <2>2 DEF Driven
<1>8. Fresh' <=> (Sent < 0 \/ Driven')
  BY DEF Fresh
<1>9. Sent \in Int
  BY SentIs
<1>10. DriverInv /\ Head(cmds).op = "minidriver" => Fresh /\ ~Fresh'
  <2> SUFFICES ASSUME DriverInv, Head(cmds).op = "minidriver" PROVE Fresh /\ ~Fresh'
    OBVIOUS
  <2>1. Driven /\ ~Driven'
    BY <1>7
  <2>2. ~(Sent < 0)
    BY <1>6, <1>9, <2>1
  <2> QED
    BY <1>8, <2>1, <2>2 DEF Fresh
<1> QED
  BY <1>2, <1>3, <1>4, <1>5, <1>6, <1>8, <1>10 DEF Fresh

\* What follows from the ledger, whatever was executed.
LEMMA LedgerSays ==
  ASSUME TypeInv, Ledger
  PROVE  About(Stream, Len(cmds), Awaited, Bound + 1)
<1>1. /\ Awaited \in Nat /\ Stream \in Seq(Byte) /\ Bound \in Nat /\ Len(cmds) \in Nat
  BY AwaitedIs, BoundIs, LenProperties DEF TypeInv, LineInv
<1>2. Behind(Stream, Len(cmds), Awaited, Bound) => About(Stream, Len(cmds), Awaited, Bound)
  BY DEF About
<1>3. Len(cmds) - (Bound + 1) <= Len(cmds) - Bound
  BY <1>1
<1>4. About(Stream, Len(cmds), Awaited, Bound) => About(Stream, Len(cmds), Awaited, Bound + 1)
  BY <1>1, <1>3, MoreAbout
<1> QED
  BY <1>2, <1>4 DEF Ledger

LEMMA LedgerSame ==
  ASSUME InPlace, QueueInv, Active, Ledger, Tame', [Next]_vars,
         Stream' = Stream, Awaited' = Awaited, cmds' = cmds, Sent' = Sent
  PROVE  Ledger'
<1>1. /\ Awaited \in Nat /\ Stream \in Seq(Byte) /\ Bound \in Nat /\ Len(cmds) \in Nat
      /\ Bound' \in Nat /\ Bound <= Bound' /\ (troubles' = 0 => troubles = 0)
  BY AwaitedIs, BoundIs, BoundNext, LenProperties DEF InPlace, TypeInv, LineInv
<1>2. Fresh' <=> Fresh
  BY DEF Fresh, Driven
<1>3. CASE Fresh
  <2>1. Len(cmds) - Bound' <= Len(cmds) - Bound
    BY <1>1
  <2>2. Behind(Stream, Len(cmds), Awaited, Bound')
    BY <1>1, <1>3, <2>1, MoreAbout DEF Ledger
  <2> QED
    BY <1>1, <1>2, <1>3, <2>2 DEF Ledger
<1>4. CASE ~Fresh
  <2>1. Len(cmds) - (Bound' + 1) <= Len(cmds) - (Bound + 1)
    BY <1>1
  <2>2. About(Stream, Len(cmds), Awaited, Bound' + 1)
    BY <1>1, <1>4, <2>1, MoreAbout DEF Ledger
  <2> QED
    BY <1>2, <1>4, <2>2 DEF Ledger
<1> QED
  BY <1>3, <1>4

LEMMA LedgerDrop ==
  ASSUME InPlace, QueueInv, Active, Ledger, Tame', Ignore \/ Lose
  PROVE  Ledger' /\ (chip.up => About(Stream, Len(cmds), Awaited, Bound)')
<1>1. /\ Awaited \in Nat /\ Stream \in Seq(Byte) /\ Bound \in Nat /\ Len(cmds) \in Nat
      /\ Bound' \in Nat /\ Bound <= Bound' /\ (troubles' = 0 => troubles = 0)
  BY AwaitedIs, BoundIs, BoundNext, LenProperties DEF InPlace, TypeInv, LineInv, Next, Chip
<1>2. /\ cmds # <<>> /\ cmds' = Tail(cmds) /\ UNCHANGED <<pc, opt, plan, pos, buf, rx, out>>
  BY DEF Ignore, Lose, Listens, args, work
<1>3. Stream' = Stream /\ Awaited' = Awaited /\ Sent' = Sent
  BY <1>2, SameSent DEF Stream, Awaited
<1>4. /\ Len(cmds) \in Nat /\ Len(cmds') = Len(cmds) - 1 /\ Len(cmds) >= 1
      /\ Fresh' => Fresh
  BY <1>2, <1>3, FreshTail
<1>5. About(Stream, Len(cmds), Awaited, Bound + 1)
  BY LedgerSays DEF InPlace
<1>6. About(Stream, Len(cmds'), Awaited, Bound') /\ About(Stream, Len(cmds'), Awaited, Bound' + 1)
  <2>1. Len(cmds') \in Nat /\ Len(cmds') - Bound' <= Len(cmds) - (Bound + 1)
        /\ Len(cmds') - (Bound' + 1) <= Len(cmds) - (Bound + 1)
        /\ Bound + 1 \in Int /\ Bound' \in Int /\ Bound' + 1 \in Int
    BY <1>1, <1>4
  <2>2. \A d \in Int : Len(cmds') - d <= Len(cmds) - (Bound + 1)
                       => About(Stream, Len(cmds'), Awaited, d)
    BY <1>1, <1>5, <2>1, MoreAbout
  <2> QED
    BY <2>1, <2>2
<1>7. ASSUME Fresh' PROVE Ledger'
  <2>1. Behind(Stream, Len(cmds), Awaited, Bound) /\ (troubles = 0 => \E q \in Nat : Len(Stream) = 7 * q)
    BY <1>4, <1>7 DEF Ledger
  <2>2. Len(cmds') \in Nat /\ Len(cmds') - Bound' <= Len(cmds) - Bound
    BY <1>1, <1>4
  <2>3. Behind(Stream, Len(cmds'), Awaited, Bound')
    BY <1>1, <2>1, <2>2, MoreAbout
  <2> QED
    BY <1>1, <1>3, <1>7, <2>1, <2>3 DEF Ledger
<1> QED
  BY <1>3, <1>6, <1>7 DEF Ledger

LEMMA LedgerSend ==
  ASSUME InPlace, QueueInv, Active, Ledger, Tame',
         (\E op \in Simple : SendCmd(op)) \/ SendRecord
  PROVE  /\ Ledger'
         /\ About(Stream, Len(cmds), Awaited, Bound) => About(Stream, Len(cmds), Awaited, Bound)'
<1>1. /\ Awaited \in Nat /\ Stream \in Seq(Byte) /\ Bound \in Nat /\ Len(cmds) \in Nat
  BY AwaitedIs, BoundIs, LenProperties DEF InPlace, TypeInv, LineInv
<1>2. /\ pc = "send" /\ pc' = "read" /\ UNCHANGED <<odd, troubles>>
  BY DEF SendCmd, SendRecord, At, past
<1>3. UNCHANGED <<opt, plan, buf, rate, out, rx, chip>> /\ \E c \in KnownCmd : Sends(c)
  BY SendIs
<1>4. Stream' = Stream /\ Awaited = 0 /\ Awaited' = Wanted(Stream) /\ Bound' = Bound
  BY <1>2, <1>3 DEF Stream, Awaited, Bound
<1>5. (Fresh' <=> Fresh) /\ Len(cmds') = Len(cmds) + 1
  BY <1>3, FreshSend
<1>6. /\ \A b \in Int : Behind(Stream, Len(cmds), 0, b) => Behind(Stream, Len(cmds) + 1, Wanted(Stream), b)
      /\ \A b \in Int : About(Stream, Len(cmds), 0, b) => About(Stream, Len(cmds) + 1, Wanted(Stream), b)
  BY <1>1, SendAbout
<1>7. Bound \in Int /\ Bound + 1 \in Int
  BY <1>1
<1> QED
  BY <1>2, <1>4, <1>5, <1>6, <1>7 DEF Ledger

LEMMA LedgerExpire ==
  ASSUME InPlace, QueueInv, Active, Ledger, Tame', [Next]_vars, Expire \/ ExpireLate
  PROVE  /\ Ledger'
         /\ cmds # <<>> /\ About(Stream, Len(cmds), Awaited, Bound)
              => About(Stream, Len(cmds), Awaited, Bound)'
<1>1. /\ Awaited \in Nat /\ Stream \in Seq(Byte) /\ Bound \in Nat /\ Len(cmds) \in Nat
      /\ Wanted(Stream) \in Nat
      /\ pc = "read" /\ rx = <<>> /\ out = <<>> => Len(Stream) < Wanted(Stream)
      /\ troubles \in Nat /\ (troubles # 0 => Bound >= 1)
      /\ Bound' \in Nat /\ Bound <= Bound' /\ (troubles' = 0 => troubles = 0)
      /\ ExpireLate => Bound + 1 <= Bound' /\ troubles' # 0
  BY AwaitedIs, BoundIs, BoundNext, LenProperties DEF InPlace, TypeInv, LineInv
<1>2. pc' = pc
  BY DEF Expire, ExpireLate, Again
<1>3. UNCHANGED <<opt, plan, buf, rate, out, rx, chip>> /\ \E c \in KnownCmd : Sends(c)
  BY SendIs
<1>4. Stream' = Stream /\ Awaited' = Awaited
  BY <1>2, <1>3 DEF Stream, Awaited
<1>5. (Fresh' <=> Fresh) /\ Len(cmds') = Len(cmds) + 1
  BY <1>3, FreshSend
<1>6. CASE ExpireLate
  <2>1. Bound + 1 <= Bound' /\ troubles' # 0
    BY <1>1, <1>6
  <2>2. /\ Len(cmds') \in Nat /\ Len(cmds') - Bound' <= Len(cmds) - Bound
        /\ Len(cmds') - (Bound' + 1) <= Len(cmds) - (Bound + 1)
        /\ Bound \in Int /\ Bound + 1 \in Int /\ Bound' \in Int /\ Bound' + 1 \in Int
    BY <1>1, <1>5, <2>1
  <2>l. \A b, d \in Int : Len(cmds') - d <= Len(cmds) - b =>
          /\ Behind(Stream, Len(cmds), Awaited, b) => Behind(Stream, Len(cmds'), Awaited, d)
          /\ About(Stream, Len(cmds), Awaited, b) => About(Stream, Len(cmds'), Awaited, d)
    BY <1>1, <2>2, MoreAbout
  <2>3. /\ Behind(Stream, Len(cmds), Awaited, Bound) => Behind(Stream, Len(cmds'), Awaited, Bound')
        /\ About(Stream, Len(cmds), Awaited, Bound) => About(Stream, Len(cmds'), Awaited, Bound')
    BY <2>2, <2>l
  <2>4. About(Stream, Len(cmds), Awaited, Bound + 1) => About(Stream, Len(cmds'), Awaited, Bound' + 1)
    BY <2>2, <2>l
  <2> QED
    BY <1>4, <1>5, <2>1, <2>3, <2>4 DEF Ledger
<1>7. CASE Expire
  <2>1. cmds = <<>> /\ Len(Stream) < Wanted(Stream) /\ Awaited = Wanted(Stream)
        /\ UNCHANGED <<odd, troubles>>
    BY <1>1, <1>7 DEF Expire, Quiet, Awaited
  <2>2. Len(cmds) = 0 /\ Len(cmds') = 1 /\ Bound' = Bound
    BY <1>5, <2>1 DEF Bound
  <2>3. /\ Bound >= 1 /\ Behind(Stream, 0, Wanted(Stream), Bound) => Behind(Stream, 1, Wanted(Stream), Bound)
        /\ Framed(Stream, 1, Len(Stream)) /\ (\E q \in Nat : Len(Stream) = 7 * q)
             => Behind(Stream, 1, Wanted(Stream), Bound)
    BY <1>1, <2>1, QuietAbout
  <2>4. About(Stream, 0, Wanted(Stream), Bound + 1) => About(Stream, 1, Wanted(Stream), Bound + 1)
    <3>1. Bound + 1 \in Nat /\ Bound + 1 >= 1
      BY <1>1
    <3> QED
      BY <1>1, <2>1, <3>1, QuietAbout
  <2>5. CASE Fresh
    <3>1. Behind(Stream, 0, Wanted(Stream), Bound) /\ (troubles = 0 => \E q \in Nat : Len(Stream) = 7 * q)
      BY <2>1, <2>2, <2>5 DEF Ledger
    <3>2. Behind(Stream, 1, Wanted(Stream), Bound)
      BY <1>1, <2>3, <3>1 DEF Behind
    <3> QED
      BY <1>4, <1>5, <2>1, <2>2, <2>5, <3>1, <3>2 DEF Ledger
  <2>6. CASE ~Fresh
    BY <1>4, <1>5, <2>1, <2>2, <2>4, <2>6 DEF Ledger
  <2> QED
    BY <2>1, <2>5, <2>6
<1> QED
  BY <1>6, <1>7

LEMMA LedgerTake ==
  ASSUME InPlace, QueueInv, DriverInv, Active, Ledger, Take
  PROVE  Ledger'
<1> DEFINE c == Head(cmds)
           r == Answer(c, 0)
           k == Len(cmds)
<1>1. /\ cmds # <<>> /\ cmds' = Tail(cmds) /\ out = <<>> /\ out' = r
      /\ UNCHANGED <<pc, opt, plan, pos, buf, rx, odd, troubles>>
  BY DEF Take, Listens, args, work, past
<1>2. c \in KnownCmd
  BY <1>1, HeadIs DEF InPlace
<1>3. Answers(r) /\ Len(r) = Length(c)
  BY <1>2, AnswerBegins DEF InPlace
<1>t. /\ Awaited \in Nat /\ Stream \in Seq(Byte) /\ Bound \in Nat /\ Len(Stream) \in Nat
  BY AwaitedIs, BoundIs DEF InPlace
<1>4. Sent' = Sent /\ Bound' = Bound
  BY <1>1, SameSent DEF Bound
<1>5. /\ k \in Nat \ {0} /\ Len(cmds') = k - 1
      /\ c.op # "minidriver" => (Fresh' <=> Fresh)
      /\ c.op = "minidriver" => Fresh /\ ~Fresh'
  BY <1>1, <1>4, FreshTail
<1> HIDE DEF c, r, k
<1>6. Stream' = Stream \o r
  BY <1>1, <1>3, TakeStream DEF InPlace, Answers
<1>7. Len(r) \in {7, 9} /\ (c.op # "minidriver" => Len(r) = 7)
  BY <1>3 DEF Length
<1>8. Awaited' \in Nat /\ Awaited <= Awaited'
  <2>1. PICK m \in Nat : Len(r) = 7 + m
    <3>1. (Len(r) = 7 + 0 \/ Len(r) = 7 + 2) /\ 0 \in Nat /\ 2 \in Nat
      BY <1>7
    <3> QED
      BY <3>1
  <2>2. Wanted(Stream) \in Nat /\ Wanted(Stream \o r) \in Nat /\ Wanted(Stream) <= Wanted(Stream \o r)
    BY <1>3, <1>t, <2>1, WantedMore
  <2>3. Awaited' = IF pc = "read" THEN Wanted(Stream \o r) ELSE 0
    BY <1>1, <1>6 DEF Awaited
  <2> QED
    BY <2>2, <2>3 DEF Awaited
<1>9. \A b \in Int :
        /\ Len(r) = 7 /\ Behind(Stream, k, Awaited, b) => Behind(Stream \o r, k - 1, Awaited', b)
        /\ Len(r) = 7 /\ About(Stream, k, Awaited, b) => About(Stream \o r, k - 1, Awaited', b)
        /\ Len(r) = 9 /\ Behind(Stream, k, Awaited, b) => About(Stream \o r, k - 1, Awaited', b + 1)
  BY <1>3, <1>5, <1>8, <1>t, TakeAbout
<1>10. Bound \in Int /\ Bound + 1 \in Int
  BY <1>t
<1>11. Len(r) = 7 => Len(Stream') = Len(Stream) + 7
  <2>1. r \in Seq(Byte)
    BY <1>3 DEF Answers
  <2>2. Len(Stream \o r) = Len(Stream) + Len(r)
    BY <1>t, <2>1, ConcatProperties
  <2> QED
    BY <1>6, <2>2
<1>12. CASE Fresh /\ Fresh'
  <2>1. Len(r) = 7
    BY <1>5, <1>7, <1>12
  <2>2. Behind(Stream, k, Awaited, Bound) /\ (troubles = 0 => \E q \in Nat : Len(Stream) = 7 * q)
    BY <1>12 DEF Ledger, k
  <2>3. troubles = 0 => \E q \in Nat : Len(Stream') = 7 * q
    <3> SUFFICES ASSUME troubles = 0 PROVE \E q \in Nat : Len(Stream') = 7 * q
      OBVIOUS
    <3>1. PICK q \in Nat : Len(Stream) = 7 * q
      BY <2>2
    <3>2. q + 1 \in Nat /\ Len(Stream') = 7 * (q + 1)
      BY <1>11, <2>1, <3>1
    <3> QED
      BY <3>2
  <2>4. Behind(Stream', Len(cmds'), Awaited', Bound')
    BY <1>4, <1>5, <1>6, <1>9, <1>10, <2>1, <2>2
  <2> QED
    BY <1>1, <1>12, <2>3, <2>4 DEF Ledger
<1>13. CASE ~Fresh
  <2>1. Len(r) = 7 /\ ~Fresh'
    BY <1>5, <1>7, <1>13
  <2>2. About(Stream, k, Awaited, Bound + 1)
    BY <1>13 DEF Ledger, k
  <2>3. About(Stream', Len(cmds'), Awaited', Bound' + 1)
    BY <1>4, <1>5, <1>6, <1>9, <1>10, <2>1, <2>2
  <2> QED
    BY <2>1, <2>3 DEF Ledger
<1>14. CASE Fresh /\ ~Fresh'
  <2>1. Behind(Stream, k, Awaited, Bound)
    BY <1>14 DEF Ledger, k
  <2>2. CASE Len(r) = 9
    <3>1. About(Stream', Len(cmds'), Awaited', Bound' + 1)
      BY <1>4, <1>5, <1>6, <1>9, <1>10, <2>1, <2>2
    <3> QED
      BY <1>14, <3>1 DEF Ledger
  <2>3. CASE Len(r) = 7
    <3>1. About(Stream, k, Awaited, Bound + 1)
      <4>1. About(Stream, k, Awaited, Bound)
        BY <2>1 DEF About
      <4>2. k \in Nat /\ k - (Bound + 1) <= k - Bound
        BY <1>5, <1>t
      <4> QED
        BY <1>t, <1>10, <4>1, <4>2, MoreAbout
    <3>2. About(Stream', Len(cmds'), Awaited', Bound' + 1)
      BY <1>4, <1>5, <1>6, <1>9, <1>10, <2>3, <3>1
    <3> QED
      BY <1>14, <3>2 DEF Ledger
  <2> QED
    BY <1>7, <2>2, <2>3
<1> QED
  BY <1>12, <1>13, <1>14

LEMMA LedgerLast ==
  ASSUME InPlace, QueueInv, Active, Ledger, ReadLast
  PROVE  /\ Ledger'
         /\ About(Stream, Len(cmds), Awaited, Bound) => About(Stream, Len(cmds), Awaited, Bound)'
<1>t. /\ Awaited \in Nat /\ Stream \in Seq(Byte) /\ Bound \in Nat /\ Len(Stream) \in Nat
      /\ Len(cmds) \in Nat
  BY AwaitedIs, BoundIs, LenProperties DEF InPlace, TypeInv, LineInv
<1>1. cmds' = cmds /\ UNCHANGED <<odd, troubles>>
  BY DEF ReadLast, past
<1>2. Sent' = Sent
  BY SameSent
<1>3. Bound' = Bound /\ (Fresh' <=> Fresh)
  BY <1>1, <1>2 DEF Bound, Fresh, Driven
<1> DEFINE w == Wanted(Stream)
<1>4. /\ Stream' = From(Stream, w + 1) /\ w \in 0..Len(Stream)
      /\ Awaited = w /\ Awaited' = 0 /\ w >= 3
  BY LastStream DEF InPlace
<1>5. Len(Stream') = Len(Stream) - w
  BY <1>t, <1>4, FromIs
<1>6. /\ Framed(Stream, 1, Len(Stream)) =>
           \A q \in Nat : Len(Stream) = 7 * q => w = 7
  <2> SUFFICES ASSUME Framed(Stream, 1, Len(Stream)), NEW q \in Nat, Len(Stream) = 7 * q
               PROVE  w = 7
    OBVIOUS
  <2>1. Len(Stream) \in 3..Len(Stream)
    BY <1>t, <1>4
  <2> QED
    BY <1>t, <2>1, WantedIs
<1> HIDE DEF w
<1>7. \A b \in Int :
        /\ Behind(Stream, Len(cmds), Awaited, b) => Behind(Stream', Len(cmds), 0, b)
        /\ About(Stream, Len(cmds), Awaited, b) => About(Stream', Len(cmds), 0, b)
  <2>1. Awaited <= w
    BY <1>t, <1>4
  <2> QED
    BY <1>t, <1>4, <2>1, DropAbout
<1>8. Bound \in Int /\ Bound + 1 \in Int
  BY <1>t
<1>9. CASE Fresh
  <2>1. Behind(Stream, Len(cmds), Awaited, Bound) /\ (troubles = 0 => \E q \in Nat : Len(Stream) = 7 * q)
    BY <1>9 DEF Ledger
  <2>2. troubles = 0 => \E q \in Nat : Len(Stream') = 7 * q
    <3> SUFFICES ASSUME troubles = 0 PROVE \E q \in Nat : Len(Stream') = 7 * q
      OBVIOUS
    <3>1. PICK q \in Nat : Len(Stream) = 7 * q
      BY <2>1
    <3>2. w = 7
      BY <1>6, <2>1, <3>1 DEF Behind
    <3>3. q - 1 \in Nat /\ Len(Stream') = 7 * (q - 1)
      BY <1>4, <1>5, <3>1, <3>2
    <3> QED
      BY <3>3
  <2> QED
    BY <1>1, <1>3, <1>4, <1>7, <1>8, <1>9, <2>1, <2>2 DEF Ledger
<1>10. CASE ~Fresh
  BY <1>1, <1>3, <1>4, <1>7, <1>8, <1>10 DEF Ledger
<1> QED
  BY <1>1, <1>3, <1>4, <1>7, <1>8, <1>9, <1>10

LEMMA LedgerTwo ==
  ASSUME InPlace, QueueInv, Active, Ledger, Tame', ReadTwo
  PROVE  Ledger'
<1>t. /\ Awaited \in Nat /\ Stream \in Seq(Byte) /\ Bound \in Nat /\ Len(Stream) \in Nat
      /\ Len(cmds) \in Nat
  BY AwaitedIs, BoundIs, LenProperties DEF InPlace, TypeInv, LineInv
<1>1. /\ cmds' = cmds /\ pc = "two" /\ pc' = "send" /\ troubles' = troubles
      /\ ("late" \in odd' <=> "late" \in odd)
  BY DEF ReadTwo
<1>2. Sent' = Sent
  BY SameSent
<1>3. Bound' = Bound /\ (Fresh' <=> Fresh) /\ Awaited = 0 /\ Awaited' = 0
  BY <1>1, <1>2 DEF Bound, Fresh, Driven, Awaited
<1>4. PICK t \in 0..Len(Stream) : Stream' = From(Stream, t + 1)
  BY TwoStream DEF InPlace
<1>5. \A b \in Int :
        /\ Behind(Stream, Len(cmds), 0, b) => Behind(Stream', Len(cmds), 0, b)
        /\ About(Stream, Len(cmds), 0, b) => About(Stream', Len(cmds), 0, b)
  BY <1>t, <1>4, DropAbout
<1>6. Bound \in Int /\ Bound + 1 \in Int
  BY <1>t
<1>7. CASE Fresh
  <2>1. Behind(Stream, Len(cmds), 0, Bound)
    BY <1>3, <1>7 DEF Ledger
  <2>2. troubles # 0
    <3> SUFFICES ASSUME troubles = 0 PROVE FALSE
      OBVIOUS
    <3>1. Bound = 0
      BY SMT DEF Bound, Least
    <3>2. ~(Sent < 0)
      <4>1. plan # <<>> /\ Head(plan) = "minidriver" /\ opt.patch
        BY <1>1, PatchIs DEF InPlace, WhereInv, TypeInv, PlanInv
      <4>2. Place = 0
        BY <4>1, PlaceIs DEF InPlace
      <4>3. Sent = 0
        BY <1>1, <4>2, SentIs
      <4> QED
        BY <4>3
    <3>3. Driven
      BY <1>7, <3>2 DEF Fresh
    <3>4. Len(cmds) >= 1
      BY <1>t, <3>3 DEF Driven
    <3>5. 7 * Len(cmds) + Len(Stream) - 0 <= 7 * 0 + 2
      BY <2>1, <3>1 DEF Behind
    <3> QED
      BY <1>t, <3>4, <3>5
  <2> QED
    BY <1>1, <1>3, <1>5, <1>6, <1>7, <2>1, <2>2 DEF Ledger
<1>8. CASE ~Fresh
  BY <1>1, <1>3, <1>5, <1>6, <1>8 DEF Ledger
<1> QED
  BY <1>7, <1>8

----------------------------------------------------------------------------
(* Another rate for the download.                                          *)

\* The chip's rate is not the program's first one once the loader runs, and what
\* it says at that rate is one answer.
BaseInv ==
  /\ chip.rate = Base => Len(out) <= 7 /\ Framed(out, 1, Len(out))
  /\ pc = "parse" /\ troubles = 0 => cmds = <<>> /\ out = <<>>
  /\ Loader => chip.rate # Base
EarlyInv == Active /\ Loader /\ Place < 0 => Deaf

\* While the program speaks at its first rate again, the loader's next command is
\* the one it must have, or one of them was lost and the program is less ahead.
HoleInv ==
  Active /\ Loader /\ Place \in 2..(2 + Len(Later(opt))) /\ cmds # <<>> =>
    Piecewise(Head(cmds)) \/ About(Stream, Len(cmds), Awaited, Bound)
LedgerInv == Active => Deaf \/ Ledger
TwoRates  == DriverInv /\ BaseInv /\ EarlyInv /\ HoleInv /\ LedgerInv

LEMMA StreamSame ==
  ASSUME InPlace, Tame', [Next]_vars,
         ReadPart \/ Boot \/ Arrive \/ Disarm \/ EndDownload \/ UNCHANGED vars
  PROVE  /\ Stream' = Stream /\ Awaited' = Awaited /\ cmds' = cmds
         /\ chip'.ram = chip.ram /\ chip'.mode = chip.mode
<1>t. TypeInv /\ chip \in Chips
  BY DEF InPlace, TypeInv, TypeOK, Chips, Modes
<1>1. cmds' = cmds
  BY DEF ReadPart, Boot, Arrive, Disarm, EndDownload, vars, line
<1>2. Stream' = Stream /\ (pc' = "read" <=> pc = "read")
  <2>1. CASE ReadPart
    <3>1. rx # <<>> /\ buf' = Got /\ rx' = From(rx, Count + 1) /\ out' = out /\ pc' = pc
      BY <2>1 DEF ReadPart
    <3>2. Got \o (From(rx, Count + 1) \o out) = Stream
      BY <1>t, <3>1, ReadIs
    <3> QED
      BY <3>1, <3>2 DEF Stream
  <2>2. CASE Arrive
    <3>1. out # <<>> /\ rx' = Append(rx, Head(out)) /\ out' = Tail(out) /\ buf' = buf /\ pc' = pc
      BY <1>t, <2>2, TameNext DEF Arrive, work
    <3> QED
      BY <1>t, <3>1, ArriveIs
  <2>3. CASE Boot \/ Disarm \/ EndDownload \/ UNCHANGED vars
    <3>1. UNCHANGED <<buf, rx, out>> /\ (pc' = "read" <=> pc = "read")
      BY <2>3 DEF Boot, Disarm, EndDownload, vars, line, work, At
    <3> QED
      BY <3>1 DEF Stream
  <2> QED
    BY <2>1, <2>2, <2>3
<1>3. Awaited' = Awaited
  <2>1. Awaited' = IF pc' = "read" THEN Wanted(Stream') ELSE 0
    BY DEF Awaited
  <2> QED
    BY <1>2, <2>1 DEF Awaited
<1>4. chip'.ram = chip.ram /\ chip'.mode = chip.mode
  <2>1. CASE Boot \/ Arrive
    <3>1. \/ chip' = [chip EXCEPT !.up = TRUE]
          \/ chip' = [chip EXCEPT !.rate = chip.next, !.next = 0]
          \/ chip' = chip
      BY <2>1, Zenon DEF Boot, Arrive
    <3> QED
      BY <1>t, <3>1 DEF Chips
  <2>2. CASE ~Boot /\ ~Arrive
    BY <2>2 DEF ReadPart, Disarm, EndDownload, vars
  <2> QED
    BY <2>1, <2>2
<1> QED
  BY <1>1, <1>2, <1>3, <1>4

LEMMA AboutSame ==
  ASSUME TypeInv, Tame', [Next]_vars, Stream' = Stream, Awaited' = Awaited, cmds' = cmds,
         About(Stream, Len(cmds), Awaited, Bound)
  PROVE  About(Stream, Len(cmds), Awaited, Bound)'
<1>1. /\ Awaited \in Nat /\ Stream \in Seq(Byte) /\ Bound \in Nat /\ Len(cmds) \in Nat
      /\ Bound' \in Nat /\ Bound <= Bound'
  BY AwaitedIs, BoundIs, BoundNext, LenProperties DEF TypeInv, LineInv
<1>2. Len(cmds) - Bound' <= Len(cmds) - Bound
  BY <1>1
<1> QED
  BY <1>1, <1>2, MoreAbout

\* The program is not so far ahead that all the records are sent while the
\* minidriver is not yet executed.
LEMMA EndedIs ==
  ASSUME InPlace, QueueInv, SteadyInv, LedgerInv, Tame', [Next]_vars, EndDownload
  PROVE  ~Driven /\ Active /\ Place = 1 /\ Ledger
<1>t. TypeInv
  BY DEF InPlace
<1>1. /\ pc = "send" /\ pc' = "send" /\ plan # <<>> /\ Head(plan) = "record" /\ pos > Len(file)
      /\ Active /\ Active'
  BY DEF EndDownload, At, Active
<1>2. Place = 1 /\ Len(file) = Records + 1 /\ Records \in Nat
  BY <1>1, PatchIs, PlaceIs DEF InPlace
<1>3. Sent = Records + 1
  <2>1. Sent = pos - 1 /\ pos \in 1..(Records + 2)
    BY <1>1, <1>2, SentIs
  <2> QED
    BY <1>1, <1>2, <2>1
<1>4. Ledger
  <2>1. ~Deaf
    BY <1>1, DeafStays
  <2> QED
    BY <1>1, <2>1 DEF LedgerInv
<1>5. ASSUME Driven PROVE FALSE
  <2>1. PICK i \in 1..Len(cmds) : cmds[i].op = "minidriver"
    BY <1>5 DEF Driven
  <2>2. InDownload(cmds[i]) /\ Number(cmds[i]) = 0
    BY <2>1 DEF InDownload, Number
  <2>3. Sent <= Number(cmds[i]) + (Len(cmds) - i)
    BY <1>1, <2>2 DEF QueueInv
  <2>4. Records > 0 /\ Bound <= 2 /\ Bound \in Nat
    <3>1. Tame
      BY <1>t, TameNext
    <3> QED
      BY <1>t, <3>1, BoundIs DEF Tame
  <2>5. Len(cmds) \in Nat /\ Len(Stream) \in Nat
    BY <1>t, AwaitedIs, LenProperties DEF TypeInv, LineInv
  <2>6. Len(cmds) >= 3
    BY <1>2, <1>3, <2>2, <2>3, <2>4, <2>5
  <2>7. 7 * Len(cmds) + Len(Stream) - 0 <= 7 * Bound + 2
    <3>1. Awaited = 0
      BY <1>1 DEF Awaited
    <3> QED
      BY <1>4, <1>5, <3>1 DEF Ledger, Fresh, Behind
  <2> QED
    BY <2>4, <2>5, <2>6, <2>7
<1> QED
  BY <1>1, <1>2, <1>4, <1>5

LEMMA SplitIs ==
  ASSUME InPlace, Active, Split
  PROVE  opt.early /\ opt.patch /\ AskedRate # Base
BY PatchIs, FlagIs DEF Split, InPlace

LEMMA DriverNext ==
  ASSUME InPlace, QueueInv, SteadyInv, DriverInv, LedgerInv, Tame', [Next]_vars, Split
  PROVE  DriverInv'
<1>k. TypeInv /\ AskedRate' = AskedRate
  <2>1. TypeInv
    BY DEF InPlace
  <2>2. argv' = argv
    BY <2>1, KeptNext
  <2> QED
    BY <2>1, <2>2 DEF AskedRate, Given
<1>c. cmds \in Seq(KnownCmd)
  BY <1>k DEF TypeInv, LineInv
<1>1. CASE OpenUart
  <2>1. cmds' = <<>>
    BY <1>1 DEF OpenUart
  <2>2. Len(cmds') = 0 /\ 1..Len(cmds') = {}
    BY <2>1
  <2> QED
    BY <2>2 DEF DriverInv
<1>2. CASE EndDownload
  <2>1. ~Driven /\ cmds' = cmds
    BY <1>2, EndedIs DEF EndDownload
  <2> QED
    BY <2>1 DEF DriverInv, Driven
<1>3. ASSUME NEW c \in KnownCmd, Active, Sends(c), rate' = rate, c.op = "minidriver" => rate = AskedRate
      PROVE  DriverInv'
  <2>1. /\ Len(cmds) \in Nat /\ Len(cmds') = Len(cmds) + 1
        /\ \A i \in 1..Len(cmds) : cmds'[i] = cmds[i]
        /\ cmds'[Len(cmds) + 1] = c
        /\ c.op = "minidriver" => ~Driven
    BY <1>3, FreshSend
  <2>2. \A i \in 1..Len(cmds') : i \in 1..Len(cmds) \/ i = Len(cmds) + 1
    BY <2>1
  <2>3. ASSUME NEW i \in 1..Len(cmds'), cmds'[i].op = "minidriver"
        PROVE  rate' = AskedRate' /\ \A j \in 1..Len(cmds') : cmds'[j].op = "minidriver" => j = i
    <3>1. CASE i \in 1..Len(cmds)
      <4>1. cmds[i].op = "minidriver" /\ c.op # "minidriver"
        BY <2>1, <2>3, <3>1 DEF Driven
      <4>2. rate = AskedRate /\ \A j \in 1..Len(cmds) : cmds[j].op = "minidriver" => j = i
        BY <3>1, <4>1 DEF DriverInv
      <4> QED
        BY <1>3, <1>k, <2>1, <2>2, <4>1, <4>2
    <3>2. CASE i = Len(cmds) + 1
      <4>1. c.op = "minidriver" /\ ~Driven
        BY <2>1, <2>3, <3>2
      <4>2. \A j \in 1..Len(cmds) : cmds'[j].op # "minidriver"
        BY <2>1, <4>1 DEF Driven
      <4> QED
        BY <1>3, <1>k, <2>2, <3>2, <4>1, <4>2
    <3> QED
      BY <2>2, <3>1, <3>2
  <2> QED
    BY <2>3 DEF DriverInv
<1>4. CASE (\E op \in Simple : SendCmd(op)) \/ SendRecord \/ Expire \/ ExpireLate
  <2>1. PICK c \in KnownCmd : Sends(c)
    BY <1>4, SendIs
  <2>2. Active /\ rate' = rate
    BY <1>4, SendIs
  <2>3. cmds' = Append(cmds, c)
    BY <2>1 DEF Sends
  <2>4. \A d : cmds' = Append(cmds, d) => d = c
    <3>1. \A d : Append(cmds, d) = Append(cmds, c) => d = c
      BY <1>c, SMT
    <3> QED
      BY <2>3, <3>1
  <2>5. ASSUME NEW op \in Simple, SendCmd(op), c.op = "minidriver" PROVE rate = AskedRate
    <3>1. cmds' = Append(cmds, Command(op)) /\ At(op) /\ pc = "send" /\ plan # <<>> /\ Head(plan) = op
      BY <2>5 DEF SendCmd, At
    <3>2. c = Command(op)
      BY <2>4, <3>1
    <3>3. op = "minidriver"
      BY <2>5, <3>2 DEF Command
    <3>4. opt.early /\ opt.patch
      BY <2>2, SplitIs
    <3>5. Place = 0
      BY <2>2, <3>1, <3>3, <3>4, PlaceIs DEF InPlace
    <3>6. rate = RateAt(Place)
      BY <2>2, <3>4 DEF InPlace, WhereInv
    <3> QED
      BY <3>4, <3>5, <3>6 DEF RateAt
  <2>6. ASSUME SendRecord PROVE c.op # "minidriver"
    <3>1. c = Piece(pos)
      BY <2>4, <2>6 DEF SendRecord
    <3> QED
      BY <3>1 DEF Piece
  <2>7. ASSUME Again PROVE c.op # "minidriver"
    <3>1. c = [op |-> "reset", arg |-> <<>>]
      BY <2>4, <2>7 DEF Again
    <3> QED
      BY <3>1
  <2>8. c.op = "minidriver" => rate = AskedRate
    BY <1>4, <2>5, <2>6, <2>7 DEF Expire, ExpireLate
  <2> QED
    BY <1>3, <2>1, <2>2, <2>8
<1>5. ASSUME rate' = rate \/ rate' = AskedRate, cmds' = cmds PROVE DriverInv'
  BY <1>5, <1>k DEF DriverInv
<1>6. ASSUME rate' = rate, cmds # <<>>, cmds' = Tail(cmds) PROVE DriverInv'
  <2>1. /\ Len(cmds) \in Nat /\ Len(cmds) >= 1 /\ Len(cmds') = Len(cmds) - 1
        /\ \A i \in 1..(Len(cmds) - 1) : cmds'[i] = cmds[i + 1]
    BY <1>6, <1>c, RestIs
  <2>2. \A i \in 1..Len(cmds') : cmds'[i] = cmds[i + 1] /\ i + 1 \in 1..Len(cmds)
    BY <2>1
  <2>3. ASSUME NEW i \in 1..Len(cmds'), cmds'[i].op = "minidriver",
               NEW j \in 1..Len(cmds'), cmds'[j].op = "minidriver"
        PROVE  rate' = AskedRate' /\ j = i
    <3>1. rate = AskedRate /\ j + 1 = i + 1
      BY <2>2, <2>3 DEF DriverInv
    <3>2. i \in Int /\ j \in Int
      OBVIOUS
    <3> QED
      BY <1>6, <1>k, <3>1, <3>2
  <2> QED
    BY <2>3 DEF DriverInv
<1> QED
  <2>1. OpenUart \/ EndDownload \/ rate' = rate \/ rate' = AskedRate
    BY RateSteps
  <2>2. CASE ReadLast
    <3>1. cmds' = cmds /\ ~OpenUart /\ ~EndDownload
      BY <2>2 DEF ReadLast, OpenUart, EndDownload, At
    <3> QED
      BY <1>5, <2>1, <3>1
  <2>3. CASE ~OpenUart /\ ~EndDownload /\ ~ReadLast /\ ~SendRecord /\ ~Expire /\ ~ExpireLate
             /\ ~(\E op \in Simple : SendCmd(op))
    <3>1. rate' = rate
      BY <2>3, RateSteps
    <3>2. cmds' = cmds \/ (cmds # <<>> /\ cmds' = Tail(cmds))
      BY <2>3 DEF Next, vars, line, Program, Chip, ParseArg, NoUart, EnableHci, Exit, ReadPart,
        Disarm, ReadTwo, Take, Refuse, Ignore, Boot, Lose, Arrive, Restart, Listens
    <3> QED
      BY <1>5, <1>6, <3>1, <3>2
  <2> QED
    BY <1>1, <1>2, <1>4, <2>2, <2>3

LEMMA OpenLedger ==
  ASSUME InPlace, BaseInv, Tame', [Next]_vars, OpenUart, chip.rate = Base
  PROVE  Ledger'
<1>t. TypeInv /\ out \in Seq(Byte) /\ Len(out) \in Nat
  <2>1. TypeInv
    BY DEF InPlace
  <2> QED
    BY <2>1, StreamIs
<1>1. /\ pc = "parse" /\ pc' = "send" /\ cmds' = <<>> /\ rx' = <<>> /\ out' = out /\ buf' = <<>>
      /\ troubles' = troubles
  BY DEF OpenUart, InPlace, WhereInv
<1>2. Stream' = out
  <2>1. Stream' = <<>> \o (<<>> \o out)
    BY <1>1 DEF Stream
  <2>2. <<>> \o out = out
    BY <1>t, ConcatEmptySeq
  <2> QED
    BY <2>1, <2>2
<1>3. Awaited' = 0 /\ Len(cmds') = 0
  BY <1>1 DEF Awaited
<1>4. Fresh'
  <2>1. Sent' = 0 - Driver(opt) /\ Driver(opt) \in 2..4
    BY <1>t, OpenPatch, OpenSent
  <2>2. Sent' < 0
    BY <2>1
  <2> QED
    BY <2>2 DEF Fresh
<1>5. Bound' \in Nat /\ troubles' \in Nat /\ (troubles' # 0 => Bound' >= 1)
  BY <1>t, BoundNext
<1>6. Len(out) <= 7 /\ Framed(out, 1, Len(out)) /\ (troubles = 0 => out = <<>>)
  BY <1>1 DEF BaseInv
<1>7. troubles = 0 => Len(out) = 7 * 0
  BY <1>6
<1>8. 7 * 0 + Len(out) - 0 <= 7 * Bound' + 2
  BY <1>1, <1>5, <1>6, <1>7, <1>t
<1>9. Behind(out, 0, 0, Bound')
  BY <1>6, <1>8 DEF Behind
<1>10. 0 \in Nat
  OBVIOUS
<1> QED
  BY <1>1, <1>2, <1>3, <1>4, <1>7, <1>9, <1>10 DEF Ledger

LEMMA LedgerNext ==
  ASSUME InPlace, QueueInv, SteadyInv, DriverInv, BaseInv, LedgerInv, Tame', [Next]_vars
  PROVE  LedgerInv'
<1> SUFFICES ASSUME Active', ~Deaf' PROVE Ledger'
  BY DEF LedgerInv
<1>1. CASE OpenUart
  BY <1>1, OpenDeaf, OpenLedger
<1>2. CASE ~OpenUart
  <2>1. Active
    BY <1>2, ActiveWas
  <2>2. Ledger
    BY <2>1, DeafStays DEF LedgerInv
  <2>3. ~Refuse
    BY TameNext DEF InPlace
  <2>4. CASE Ignore \/ Lose
    BY <2>1, <2>2, <2>4, LedgerDrop
  <2>5. CASE (\E op \in Simple : SendCmd(op)) \/ SendRecord
    BY <2>1, <2>2, <2>5, LedgerSend
  <2>6. CASE Expire \/ ExpireLate
    BY <2>1, <2>2, <2>6, LedgerExpire
  <2>7. CASE Take
    BY <2>1, <2>2, <2>7, LedgerTake
  <2>8. CASE ReadLast
    BY <2>1, <2>2, <2>8, LedgerLast
  <2>9. CASE ReadTwo
    BY <2>1, <2>2, <2>9, LedgerTwo
  <2>10. CASE ReadPart \/ Boot \/ Arrive \/ Disarm \/ EndDownload \/ UNCHANGED vars
    <3>1. Stream' = Stream /\ Awaited' = Awaited /\ cmds' = cmds
      BY <2>10, StreamSame
    <3>2. EndDownload \/ ReadPart \/ Disarm \/ UNCHANGED <<pc, opt, plan, pos>>
      BY <2>10 DEF Boot, Arrive, vars, args, work
    <3>3. Sent' = Sent
      BY <2>1, <3>2, SameSent
    <3> QED
      BY <2>1, <2>2, <3>1, <3>3, LedgerSame
  <2>11. ~ParseArg /\ ~NoUart /\ ~EnableHci /\ ~Exit /\ ~Restart
    BY <2>1 DEF ParseArg, NoUart, EnableHci, Exit, Restart, Active
  <2> QED
    BY <1>2, <2>3, <2>4, <2>5, <2>6, <2>7, <2>8, <2>9, <2>10, <2>11 DEF Next, Program, Chip
<1> QED
  BY <1>1, <1>2

\* A byte comes in.
LEMMA FramedTail ==
  ASSUME NEW s \in Seq(Byte), s # <<>>, Framed(s, 1, Len(s))
  PROVE  Framed(Tail(s), 1, Len(Tail(s)))
<1>1. /\ Len(s) \in Nat /\ Len(s) >= 1 /\ Len(Tail(s)) = Len(s) - 1
      /\ \A i \in 1..(Len(s) - 1) : Tail(s)[i] = s[i + 1]
  BY RestIs
<1> SUFFICES ASSUME NEW i \in 1..(Len(s) - 1), NEW q \in Nat
             PROVE  /\ (Len(s) - 1) - i = 7 * q + 6 => Tail(s)[i] = 4
                    /\ (Len(s) - 1) - i = 7 * q + 5 => Tail(s)[i] = 14
                    /\ (Len(s) - 1) - i = 7 * q + 4 => Tail(s)[i] = 4
                    /\ (Len(s) - 1) - i = 7 * q + 3 => Tail(s)[i] = 1
  BY <1>1 DEF Framed
<1>2. i + 1 \in 1..Len(s) /\ Len(s) - (i + 1) = (Len(s) - 1) - i /\ Tail(s)[i] = s[i + 1]
  BY <1>1
<1>3. /\ Len(s) - (i + 1) = 7 * q + 6 => s[i + 1] = 4
      /\ Len(s) - (i + 1) = 7 * q + 5 => s[i + 1] = 14
      /\ Len(s) - (i + 1) = 7 * q + 4 => s[i + 1] = 4
      /\ Len(s) - (i + 1) = 7 * q + 3 => s[i + 1] = 1
  BY <1>2 DEF Framed
<1> QED
  BY <1>2, <1>3

LEMMA FramedEmpty == Len(<<>>) = 0 /\ Framed(<<>>, 1, 0)
<1>1. 1..0 = {}
  OBVIOUS
<1> QED
  BY <1>1 DEF Framed

\* At the chip's first rate nothing but answers of seven bytes is said.
LEMMA BaseFramed ==
  ASSUME InPlace, QueueInv, SteadyInv, DriverInv, BaseInv, Tame', [Next]_vars, Split,
         chip'.rate = Base
  PROVE  Len(out') <= 7 /\ Framed(out', 1, Len(out'))
<1>t. TypeInv /\ chip \in Chips /\ out \in Seq(Byte)
  BY DEF InPlace, TypeInv, TypeOK, LineInv, Chips, Modes
<1>1. CASE UNCHANGED <<chip, out>>
  BY <1>1 DEF BaseInv
<1>2. CASE Boot
  <2>1. out' = out /\ chip' = [chip EXCEPT !.up = TRUE]
    BY <1>2 DEF Boot, line
  <2>2. chip.rate = Base
    BY <1>t, <2>1 DEF Chips
  <2> QED
    BY <2>1, <2>2 DEF BaseInv
<1>3. CASE Arrive
  <2>1. /\ out # <<>> /\ out' = Tail(out)
        /\ chip' = IF Len(out) = 1 /\ chip.next # 0
                   THEN [chip EXCEPT !.rate = chip.next, !.next = 0] ELSE chip
    BY <1>3, Zenon DEF Arrive
  <2>2. Len(out) \in Nat /\ Len(out) >= 1 /\ Len(Tail(out)) = Len(out) - 1
        /\ Tail(out) \in Seq(Byte)
    BY <1>t, <2>1, RestIs
  <2>3. CASE Len(out) = 1
    <3>1. out' = <<>>
      BY <2>1, <2>2, <2>3, EmptySeq
    <3> QED
      BY <3>1, FramedEmpty
  <2>4. CASE Len(out) # 1
    <3>1. chip.rate = Base
      BY <2>1, <2>4
    <3>2. Len(out) <= 7 /\ Framed(out, 1, Len(out))
      BY <3>1 DEF BaseInv
    <3>3. Framed(Tail(out), 1, Len(Tail(out)))
      BY <1>t, <2>1, <3>2, FramedTail
    <3> QED
      BY <2>1, <2>2, <3>2, <3>3
  <2> QED
    BY <2>3, <2>4
<1>4. CASE Take
  <2> DEFINE c == Head(cmds)
             r == Answer(c, 0)
  <2>1. /\ cmds # <<>> /\ Able(c) /\ chip' = Executed(c) /\ rate = chip.rate /\ out' = r
    BY <1>4 DEF Take, Listens
  <2>2. c \in KnownCmd /\ c = cmds[1] /\ 1 \in 1..Len(cmds)
    BY <1>t, <2>1, HeadIs
  <2>3. rate = Base
    BY <1>t, <2>1, <2>2, ExecutedIs
  <2>4. c.op # "minidriver"
    BY <2>2, <2>3 DEF DriverInv, Split
  <2>5. Answers(r) /\ Len(r) = 7 + 0
    <3>1. Answers(r) /\ Len(r) = Length(c)
      BY <1>t, <2>2, AnswerBegins
    <3>2. Length(c) = 7
      BY <2>4 DEF Length
    <3>3. 7 + 0 = 7
      OBVIOUS
    <3> QED
      BY <3>1, <3>2, <3>3, Zenon
  <2> HIDE DEF c, r
  <2>6. Framed(<<>> \o r, 1, 0 + 7)
    <3>1. <<>> \in Seq(Byte) /\ 1 \in Nat \ {0} /\ 1 <= 0 + 1 /\ 0 \in Nat
      BY EmptySeq
    <3>2. \A s \in Seq(Byte), a \in Nat \ {0} :
            a <= Len(s) + 1 /\ Framed(s, a, Len(s)) => Framed(s \o r, a, Len(s) + 7)
      BY <2>5, <3>1, AnswerFramed
    <3> QED
      BY <3>1, <3>2, FramedEmpty
  <2>7. <<>> \o r = r
    BY <2>5, ConcatEmptySeq DEF Answers
  <2> QED
    BY <2>1, <2>5, <2>6, <2>7
<1> QED
  <2>1. ~Refuse
    BY <1>t, TameNext
  <2>2. ASSUME NEW op \in Simple, SendCmd(op) PROVE UNCHANGED <<chip, out>>
    BY <2>2 DEF SendCmd
  <2> QED
    BY <1>1, <1>2, <1>3, <1>4, <2>1, <2>2
    DEF Next, vars, line, Program, Chip, ParseArg, OpenUart, NoUart, SendRecord, EndDownload,
      EnableHci, Exit, ReadPart, ReadLast, Disarm, ReadTwo, Expire,
      ExpireLate, Again, Ignore, Lose, Restart

LEMMA BaseNext ==
  ASSUME InPlace, QueueInv, SteadyInv, DriverInv, BaseInv, Tame', [Next]_vars, Split
  PROVE  BaseInv'
<1>1. ASSUME pc' = "parse", troubles' = 0 PROVE cmds' = <<>> /\ out' = <<>>
  <2>1. troubles = 0 /\ ~Restart /\ ~Refuse
    <3>1. TypeInv
      BY DEF InPlace
    <3>2. troubles \in Nat /\ (troubles' = 0 => troubles = 0) /\ ~Refuse
      BY <3>1, BoundIs, BoundNext, TameNext
    <3> QED
      BY <1>1, <3>2 DEF Restart, Trouble
  <2>2. pc = "parse"
    BY <1>1, <2>1 DEF Next, vars, line, Program, Chip, ParseArg, OpenUart, NoUart, SendRecord,
      EndDownload, EnableHci, Exit, ReadPart, ReadLast, Disarm, ReadTwo, Expire, SendCmd,
      ExpireLate, Again, Take, Ignore, Boot, Lose, Arrive, args, Quiet
  <2>3. cmds = <<>> /\ out = <<>>
    BY <2>1, <2>2 DEF BaseInv
  <2> QED
    BY <1>1, <2>1, <2>2, <2>3
      DEF Next, vars, line, Program, Chip, ParseArg, OpenUart, NoUart, SendRecord,
      EndDownload, EnableHci, Exit, ReadPart, ReadLast, Disarm, ReadTwo, Expire, SendCmd, At,
      ExpireLate, Again, Take, Ignore, Boot, Lose, Arrive, Listens
<1>2. ASSUME Loader' PROVE chip'.rate # Base
  <2>1. CASE Loader /\ chip'.rate = chip.rate
    BY <2>1 DEF BaseInv
  <2>2. CASE Take /\ Head(cmds).op = "minidriver" /\ rate = chip.rate /\ chip'.rate = rate
    <3>1. cmds # <<>> /\ TypeInv
      BY <2>2 DEF Take, Listens, InPlace
    <3>2. 1 \in 1..Len(cmds) /\ Head(cmds) = cmds[1]
      BY <3>1, HeadIs
    <3> QED
      BY <2>2, <3>2 DEF DriverInv, Split
  <2> QED
    BY <1>2, <2>1, <2>2, LoaderWas
<1> QED
  BY <1>1, <1>2, BaseFramed DEF BaseInv

\* Where the program goes: to the next step, or nowhere.
LEMMA PlaceNext ==
  ASSUME InPlace, Active, [Next]_vars, Active'
  PROVE  /\ opt' = opt /\ Place \in Int
         /\ \/ Place' = Place
            \/ Place' = Place + 1 /\ EndDownload /\ Place = 1
            \/ Place' = Place + 1 /\ (ReadLast \/ Disarm \/ ReadTwo) /\ Place # 1
         /\ ReadTwo => Place = 0
<1>t. TypeInv /\ WhereInv /\ argv' = argv
  <2>1. TypeInv /\ WhereInv
    BY DEF InPlace
  <2> QED
    BY <2>1, KeptNext
<1>p. /\ opt.patch /\ Place \in Int
      /\ plan # <<>> => /\ (Head(plan) = "record") <=> (Place = 1)
                        /\ (Head(plan) = "minidriver") <=> (Place = 0)
  <2>1. opt.patch
    BY PatchIs
  <2> QED
    BY <1>t, <2>1, PlaceIs
<1>m. ASSUME opt' = opt, plan # <<>>, plan' = Tail(plan) PROVE Place' = Place + 1
  BY <1>m, <1>p, <1>t, MoveIs
<1>1. CASE EndDownload
  <2>1. opt' = opt /\ plan # <<>> /\ plan' = Tail(plan) /\ Head(plan) = "record" /\ ~ReadTwo
    BY <1>1 DEF EndDownload, At, args, ReadTwo
  <2> QED
    BY <1>1, <1>m, <1>p, <2>1
<1>2. CASE Disarm \/ ReadTwo
  <2>1. /\ opt' = opt /\ plan # <<>> /\ plan' = Tail(plan)
        /\ Head(plan) # "record" /\ (ReadTwo => Head(plan) = "minidriver")
    BY <1>2, <1>t DEF Disarm, ReadTwo, args, WhereInv, TypeInv, PlanInv
  <2> QED
    BY <1>2, <1>m, <1>p, <2>1
<1>3. CASE ReadLast
  <2>1. /\ opt' = opt /\ plan # <<>> /\ ~ReadTwo
        /\ plan' = plan \/ (plan' = Tail(plan) /\ Head(plan) # "record")
    BY <1>3, <1>t DEF ReadLast, args, TypeInv, PlanInv, ReadTwo
  <2>2. CASE plan' = plan
    BY <1>p, <2>1, <2>2 DEF Place
  <2>3. CASE plan' = Tail(plan) /\ Head(plan) # "record"
    BY <1>3, <1>m, <1>p, <2>1, <2>3
  <2> QED
    BY <2>1, <2>2, <2>3
<1>4. CASE ~EndDownload /\ ~Disarm /\ ~ReadTwo /\ ~ReadLast
  <2>1. ~ParseArg /\ ~OpenUart /\ ~NoUart /\ ~EnableHci /\ ~Exit /\ ~Restart
    BY DEF ParseArg, OpenUart, NoUart, EnableHci, Exit, Restart, Active
  <2>2. ASSUME NEW op \in Simple, SendCmd(op) PROVE plan' = plan /\ opt' = opt
    BY <2>2 DEF SendCmd, args
  <2>3. plan' = plan /\ opt' = opt
    BY <1>4, <2>1, <2>2 DEF Next, vars, args, work, Program, Chip, SendRecord, ReadPart, Expire,
      ExpireLate, Again, Take, Refuse, Ignore, Boot, Lose, Arrive
  <2> QED
    BY <1>4, <1>p, <2>3 DEF Place
<1> QED
  BY <1>1, <1>2, <1>3, <1>4

LEMMA EarlyNext ==
  ASSUME InPlace, QueueInv, SteadyInv, BaseInv, EarlyInv, Tame', [Next]_vars
  PROVE  EarlyInv'
<1> SUFFICES ASSUME Active', Loader', Place' < 0 PROVE Deaf'
  BY DEF EarlyInv
<1>1. CASE OpenUart
  <2>1. chip' = chip
    BY <1>1 DEF OpenUart
  <2>2. chip.rate # Base
    BY <2>1 DEF BaseInv, Loader
  <2> QED
    BY <1>1, <2>2, OpenDeaf
<1>2. CASE ~OpenUart
  <2>1. Active
    BY <1>2, ActiveWas
  <2>2. Place < 0
    BY <2>1, PlaceNext
  <2>3. CASE Loader
    <3>1. Deaf
      BY <2>1, <2>2, <2>3 DEF EarlyInv
    <3> QED
      BY <3>1, DeafStays
  <2>4. CASE ~Loader
    <3>1. Take /\ Head(cmds).op = "minidriver" /\ UNCHANGED <<pc, opt, plan, pos>>
      BY <2>4, LoaderWas
    <3>2. cmds # <<>> /\ cmds' = Tail(cmds) /\ TypeInv
      BY <3>1 DEF Take, Listens, InPlace
    <3>3. Sent' = Sent
      BY <2>1, <3>1, SameSent
    <3>4. Driven => Sent >= 0
      BY <2>1, <3>2, <3>3, FreshTail
    <3>5. Driven
      <4>1. 1 \in 1..Len(cmds) /\ Head(cmds) = cmds[1]
        BY <3>2, HeadIs
      <4> QED
        BY <3>1, <4>1 DEF Driven
    <3>6. Sent < 0
      BY <2>1, <2>2, SentIs
    <3>7. Sent \in Int
      BY <2>1, SentIs
    <3> QED
      BY <3>4, <3>5, <3>6, <3>7
  <2> QED
    BY <2>3, <2>4
<1> QED
  BY <1>1, <1>2

\* The step after the download until the chip's rate is set again.
LEMMA HoleIs ==
  ASSUME InPlace, Active, Place \in 2..(2 + Len(Later(opt)))
  PROVE  rate = Base /\ ~Deaf /\ Sent > Records /\ Sent \in Int /\ Records \in Nat
<1>p. /\ opt.patch /\ Place \in Int /\ Driver(opt) \in 2..4 /\ Len(Later(opt)) \in 0..2
      /\ (Len(plan) = Len(Steps(opt))) <=> (Place = 1 - Driver(opt))
      /\ rate = RateAt(Place)
  <2>1. opt.patch
    BY PatchIs
  <2> QED
    BY <2>1, PlaceIs DEF InPlace, WhereInv
<1>1. rate = Base
  <2>1. Place \notin {0, 1} /\ ~(Place > 2 + Len(Later(opt)))
    BY <1>p
  <2> QED
    BY <1>p, <2>1 DEF RateAt
<1>2. ~Deaf
  <2>1. Deaf => Len(plan) = Len(Steps(opt))
    BY DEF Deaf
  <2> QED
    BY <1>p, <2>1
<1>3. Sent > Records /\ Sent \in Int /\ Records \in Nat
  <2>1. /\ Sent \in Int /\ Records \in Nat
        /\ Sent = (IF pc = "send" THEN Place - 1 ELSE Place) + Records
    BY <1>p, SentIs
  <2> QED
    BY <1>p, <2>1
<1> QED
  BY <1>1, <1>2, <1>3

LEMMA HoleNext ==
  ASSUME InPlace, QueueInv, SteadyInv, FullInv, DriverInv, BaseInv, LedgerInv, HoleInv,
         Tame', [Next]_vars, Split
  PROVE  HoleInv'
<1> DEFINE More == About(Stream, Len(cmds), Awaited, Bound)
<1> SUFFICES ASSUME Active', Loader', Place' \in 2..(2 + Len(Later(opt)))', cmds' # <<>>
             PROVE  Piecewise(Head(cmds))' \/ More'
  BY DEF HoleInv
<1>t. TypeInv /\ chip \in Chips
  BY DEF InPlace, TypeInv, TypeOK, Chips, Modes
<1>s. ASSUME cmds' = cmds, chip'.ram = chip.ram PROVE Piecewise(Head(cmds))' <=> Piecewise(Head(cmds))
  BY <1>s DEF Piecewise, InDownload, Number
<1>o. ~OpenUart
  <2> SUFFICES ASSUME OpenUart PROVE FALSE
    OBVIOUS
  <2>1. Place' = 1 - Driver(opt) /\ Driver(opt) \in 2..4
    BY <1>t, OpenPatch, OpenSent
  <2> QED
    BY <2>1
<1>a. Active
  BY <1>o, ActiveWas
<1>p. /\ opt' = opt /\ Place \in Int /\ Len(Later(opt)) \in 0..2
      /\ \/ Place' = Place
         \/ Place' = Place + 1 /\ EndDownload /\ Place = 1
         \/ Place' = Place + 1 /\ (ReadLast \/ Disarm \/ ReadTwo) /\ Place # 1
      /\ ReadTwo => Place = 0
  <2>1. Len(Later(opt)) \in 0..2
    BY <1>a, PatchIs, PlaceIs DEF InPlace
  <2> QED
    BY <1>a, <2>1, PlaceNext
<1>q. Place' \in 2..(2 + Len(Later(opt)))
  BY <1>p
<1>1. CASE EndDownload /\ Place = 1
  <2>1. chip' = chip /\ cmds' = cmds
    BY <1>1 DEF EndDownload
  <2>2. rate = AskedRate
    <3>1. opt.early /\ opt.patch
      BY <1>a, SplitIs
    <3>2. rate = RateAt(Place)
      BY <1>a, <3>1 DEF InPlace, WhereInv
    <3> QED
      BY <1>1, <3>1, <3>2 DEF RateAt
  <2>3. Full
    <3>1. Loader
      BY <2>1 DEF Loader
    <3>2. chip.rate = AskedRate
      BY <3>1 DEF BaseInv, SteadyInv
    <3> QED
      BY <2>2, <3>1, <3>2 DEF FullInv
  <2>4. Piecewise(Head(cmds))
    BY <2>1, <2>3 DEF Full
  <2> QED
    BY <1>s, <2>1, <2>4
<1>2. CASE ~(EndDownload /\ Place = 1)
  <2>1. Place \in 2..(2 + Len(Later(opt))) /\ ~ReadTwo /\ ~EndDownload
    <3>1. Place \in 2..(2 + Len(Later(opt))) /\ ~ReadTwo
      BY <1>2, <1>p, <1>q
    <3>2. EndDownload => Place = 1
      <4>1. EndDownload => plan # <<>> /\ Head(plan) = "record"
        BY DEF EndDownload, At
      <4> QED
        BY <1>a, <4>1, PatchIs, PlaceIs DEF InPlace
    <3> QED
      BY <1>2, <3>1, <3>2
  <2>2. rate = Base /\ ~Deaf /\ Sent > Records /\ Sent \in Int /\ Records \in Nat
    BY <1>a, <2>1, HoleIs
  <2>3. Ledger
    BY <1>a, <2>2 DEF LedgerInv
  <2>4. Loader /\ chip.rate # Base
    <3>1. ~(Take /\ Head(cmds).op = "minidriver")
      <4> SUFFICES ASSUME Take, Head(cmds).op = "minidriver" PROVE FALSE
        OBVIOUS
      <4>1. cmds # <<>>
        BY DEF Take, Listens
      <4>2. 1 \in 1..Len(cmds) /\ Head(cmds) = cmds[1]
        BY <1>t, <4>1, HeadIs
      <4> QED
        BY <2>2, <4>2 DEF DriverInv, Split
    <3>2. Loader
      BY <3>1, LoaderWas
    <3> QED
      BY <3>2 DEF BaseInv
  <2>5. ~Take /\ ~Refuse /\ ~Lose
    BY <2>2, <2>4 DEF Take, Refuse, Lose, SteadyInv
  <2>6. CASE Ignore
    BY <1>a, <2>3, <2>4, <2>6, LedgerDrop DEF SteadyInv
  <2>7. CASE (\E op \in Simple : SendCmd(op)) \/ SendRecord \/ Expire \/ ExpireLate
    <3>1. PICK c \in KnownCmd : Sends(c)
      BY <2>7, SendIs
    <3>2. cmds' = Append(cmds, c) /\ chip' = chip /\ cmds \in Seq(KnownCmd)
      BY <1>t, <2>7, <3>1, SendIs DEF Sends, TypeInv, LineInv
    <3>3. CASE cmds = <<>>
      <4>1. Head(cmds') = c
        BY <3>2, <3>3, AppendIs
      <4>2. ~InDownload(c)
        BY <2>2, <3>1 DEF Sends
      <4> QED
        BY <4>1, <4>2 DEF Piecewise, InDownload
    <3>4. CASE cmds # <<>>
      <4>1. Head(cmds') = Head(cmds)
        BY <3>2, <3>4, AppendIs
      <4>2. Piecewise(Head(cmds)) => Piecewise(Head(cmds))'
        BY <3>2, <4>1 DEF Piecewise, InDownload, Number
      <4>3. More => More'
        BY <1>a, <2>3, <2>7, <3>4, LedgerSend, LedgerExpire
      <4> QED
        BY <1>a, <2>1, <2>4, <3>4, <4>2, <4>3 DEF HoleInv
    <3> QED
      BY <3>3, <3>4
  <2>8. CASE ReadLast
    <3>1. cmds' = cmds /\ chip' = chip
      BY <2>8 DEF ReadLast
    <3>2. More => More'
      BY <1>a, <2>3, <2>8, LedgerLast
    <3> QED
      BY <1>a, <1>s, <2>1, <2>4, <3>1, <3>2 DEF HoleInv
  <2>9. CASE ReadPart \/ Boot \/ Arrive \/ Disarm \/ UNCHANGED vars
    <3>1. Stream' = Stream /\ Awaited' = Awaited /\ cmds' = cmds /\ chip'.ram = chip.ram
      BY <2>9, StreamSame
    <3>2. More => More'
      BY <1>t, <3>1, AboutSame
    <3> QED
      BY <1>a, <1>s, <2>1, <2>4, <3>1, <3>2 DEF HoleInv
  <2>10. ~ParseArg /\ ~NoUart /\ ~EnableHci /\ ~Exit /\ ~Restart
    BY <1>a DEF ParseArg, NoUart, EnableHci, Exit, Restart, Active
  <2> QED
    BY <1>o, <2>1, <2>5, <2>6, <2>7, <2>8, <2>9, <2>10 DEF Next, Program, Chip
<1> QED
  BY <1>1, <1>2

\* The rate is set again, after the download: the program would have to be three
\* answers ahead for a piece of the download to be still on its way.
LEMMA AgainFull ==
  ASSUME InPlace, QueueInv, SteadyInv, FullInv, HoleInv, Tame', [Next]_vars, Loader,
         ReadLast, opt.rate # 0, Place = 2 + Len(Later(opt))
  PROVE  Full'
<1>t. /\ TypeInv /\ Active /\ pc = "read" /\ cmds' = cmds /\ chip' = chip
  BY DEF ReadLast, InPlace, Active
<1>p. /\ Len(Later(opt)) \in 1..2 /\ Place \in 2..(2 + Len(Later(opt))) /\ Place \in Int
      /\ Sent = Place + Records
  <2>1. Len(Later(opt)) \in 1..2
    <3>1. Len(Later(opt)) \in 0..2 /\ ((Len(Later(opt)) = 0) <=> (opt.rate = 0))
      BY <1>t, PatchIs, PlaceIs DEF InPlace
    <3> QED
      BY <3>1
  <2>2. Place > 1 => Sent = Place + Records
    BY <1>t, SentIs
  <2> QED
    BY <2>1, <2>2
<1>s. Sent > Records /\ Sent \in Int /\ Records \in Nat /\ Sent' = Sent
  BY <1>t, <1>p, HoleIs, SameSent
<1>1. ASSUME cmds # <<>>, InDownload(Head(cmds)), Number(Head(cmds)) >= 1,
             About(Stream, Len(cmds), Awaited, Bound)
      PROVE  FALSE
  <2> DEFINE k == Len(cmds)
             n == Number(Head(cmds))
  <2>1. /\ Head(cmds) \in KnownCmd /\ Proper(Head(cmds)) /\ Head(cmds) = cmds[1]
        /\ k \in Nat /\ k >= 1
    BY <1>t, <1>1, HeadIs
  <2>2. n <= Records + 1 /\ n \in Int
    BY <1>1, <1>s, <2>1 DEF Proper, InDownload, Number
  <2>3. Sent <= n + (k - 1)
    <3>1. 1 \in 1..Len(cmds)
      BY <2>1
    <3> QED
      BY <1>t, <1>1, <2>1, <3>1 DEF QueueInv
  <2>4. k >= 3
    <3>1. Place >= 3
      BY <1>p
    <3>2. Sent = Place + Records /\ Place \in Int /\ Records \in Nat
      BY <1>p, <1>s
    <3>3. k \in Nat
      BY <2>1
    <3> HIDE DEF k, n
    <3> QED
      BY <2>2, <2>3, <3>1, <3>2, <3>3
  <2>5. Len(Stream) \in Nat /\ Awaited \in Nat /\ Awaited <= Len(Stream)
    <3>1. Awaited = Wanted(Stream) /\ Wanted(Stream) \in 0..Len(Stream)
      BY <1>t, LastStream
    <3>2. Len(Stream) \in Nat
      BY <1>t, AwaitedIs
    <3> QED
      BY <3>1, <3>2
  <2>6. Bound \in Nat /\ Bound <= 2
    BY <1>t, TameNext, BoundIs
  <2>7. 7 * k + Len(Stream) - Awaited <= 7 * Bound + 2
    <3>1. CASE Behind(Stream, k, Awaited, Bound)
      BY <3>1 DEF Behind
    <3>2. CASE Gapped(Stream, k, Awaited, Bound)
      <4>1. PICK m \in Nat :
              7 * k + Len(Stream) - Awaited + (IF Awaited <= m THEN 5 ELSE 0) <= 7 * Bound + 2
        BY <3>2 DEF Gapped
      <4> HIDE DEF k
      <4> QED
        BY <2>1, <2>5, <2>6, <4>1
    <3> QED
      BY <1>1, <3>1, <3>2 DEF About
  <2> HIDE DEF k
  <2> QED
    BY <2>1, <2>4, <2>5, <2>6, <2>7
<1>2. cmds # <<>> => Piecewise(Head(cmds))
  BY <1>t, <1>p, <1>1 DEF HoleInv, Piecewise
<1>3. cmds' # <<>> => Piecewise(Head(cmds))'
  BY <1>t, <1>2 DEF Piecewise, InDownload, Number
<1>4. Sent' \notin 0..Records
  BY <1>s
<1> QED
  BY <1>3, <1>4 DEF Full

LEMMA TwoFull ==
  ASSUME InPlace, QueueInv, SteadyInv, FullInv, BaseInv, EarlyInv, HoleInv,
         Tame', [Next]_vars, Split
  PROVE  FullInv'
<1>1. CASE ~OpenUart /\ Loader /\ rate' = chip.rate => rate = chip.rate
  BY <1>1, FullNext
<1>2. CASE ~OpenUart /\ Loader /\ rate' = chip.rate /\ rate # chip.rate
  <2>1. rate' # Base
    BY <1>2 DEF BaseInv
  <2>2. ~EndDownload
    <3> SUFFICES ASSUME EndDownload PROVE FALSE
      OBVIOUS
    <3>1. Active /\ rate' = IF opt.early THEN Base ELSE rate
      BY DEF EndDownload, At, Active
    <3>2. opt.early
      BY <3>1, SplitIs
    <3> QED
      BY <2>1, <3>1, <3>2
  <2>3. /\ ReadLast /\ Active /\ pc' = "send" /\ opt.rate # 0
        /\ Place = 0 - 1 \/ Place = 2 + Len(Later(opt))
    BY <1>2, <2>2, RateSteps
  <2>4. Place # 0 - 1
    <3> SUFFICES ASSUME Place = 0 - 1 PROVE FALSE
      OBVIOUS
    <3>1. Place < 0
      OBVIOUS
    <3>2. Deaf
      BY <1>2, <2>3, <3>1 DEF EarlyInv
    <3>3. Active'
      BY <2>3 DEF Active
    <3> QED
      BY <2>3, <3>2, <3>3, DeafStays
  <2>5. Full'
    BY <1>2, <2>3, <2>4, AgainFull
  <2> QED
    BY <2>5 DEF FullInv
<1> QED
  BY <1>1, <1>2

\* A command line with another rate for the download.
LEMMA TwoRatesNext ==
  ASSUME InPlace, QueueInv, SteadyInv, FullInv, TwoRates, Tame', [Next]_vars, Split
  PROVE  SteadyInv' /\ FullInv' /\ TwoRates'
<1>1. DriverInv /\ BaseInv /\ EarlyInv /\ HoleInv /\ LedgerInv
  BY DEF TwoRates
<1>2. SteadyInv'
  BY <1>1, SteadyNext DEF BaseInv, SteadyInv
<1>3. FullInv'
  BY <1>1, TwoFull
<1>4. DriverInv' /\ BaseInv'
  BY <1>1, DriverNext, BaseNext
<1>5. EarlyInv' /\ HoleInv'
  BY <1>1, EarlyNext, HoleNext
<1>6. LedgerInv'
  BY <1>1, LedgerNext
<1> QED
  BY <1>2, <1>3, <1>4, <1>5, <1>6 DEF TwoRates

----------------------------------------------------------------------------
(* What is started is whole.                                               *)

\* A file that is cut has no launch, or one that lacks a part of its body.
Unbroken == ~(Len(file) = Records + 1 /\ file[Records + 1] = "body")
CutInv ==
  Unbroken =>
    /\ \A i \in 1..Len(cmds) : cmds[i].op = "launch" => file = Image /\ cmds[i].arg[2] = 1
    /\ chip.mode = "crashed" => file = Image /\ Records > 0

LEMMA CutIs ==
  ASSUME TypeInv, Len(file) = Records + 1, file[Records + 1] = "all"
  PROVE  file = Image
<1>r. Records \in Nat
  BY Assumptions
<1>i. /\ Image \in Seq(Parts) /\ Len(Image) = Records + 1
      /\ \A i \in 1..(Records + 1) : Image[i] = "all" /\ Image[i] \in Parts
  BY <1>r DEF Image, Parts
<1>n. \A n \in 0..(Records + 1) :
        SubSeq(Image, 1, n) \in Seq(Parts) /\ Len(SubSeq(Image, 1, n)) = n
  <2> TAKE n \in 0..(Records + 1)
  <2>1. \A i \in 1..n : Image[i] \in Parts
    BY <1>r, <1>i
  <2> QED
    BY <1>r, <2>1, SubSeqProperties
<1>1. file \in Cuts
  <2>1. file # <<>>
    BY <1>r
  <2> QED
    BY <2>1, Assumptions DEF TypeInv, TypeOK
<1>2. CASE \E n \in 0..(Records + 1) : file = SubSeq(Image, 1, n)
  <2>1. PICK n \in 0..(Records + 1) : file = SubSeq(Image, 1, n)
    BY <1>2
  <2>2. n = Len(Image)
    BY <1>i, <1>n, <2>1
  <2> QED
    BY <1>i, <2>1, <2>2, SubSeqFull
<1>3. CASE \E n \in 0..Records, x \in {"header", "body", "error"} :
             file = Append(SubSeq(Image, 1, n), x)
  <2>1. PICK n \in 0..Records, x \in {"header", "body", "error"} :
               file = Append(SubSeq(Image, 1, n), x)
    BY <1>3
  <2> DEFINE s == SubSeq(Image, 1, n)
  <2>2. s \in Seq(Parts) /\ Len(s) = n /\ x \in Parts
    BY <1>r, <1>n, <2>1 DEF Parts
  <2>3. Len(Append(s, x)) = Len(s) + 1 /\ Append(s, x)[Len(s) + 1] = x
    BY <2>2, AppendProperties
  <2>4. n = Records
    BY <1>r, <2>1, <2>2, <2>3
  <2> QED
    BY <2>1, <2>2, <2>3, <2>4
<1> QED
  BY <1>1, <1>2, <1>3 DEF Cuts

LEMMA CutNext == TypeInv /\ CutInv /\ [Next]_vars => CutInv'
<1> SUFFICES ASSUME TypeInv, CutInv, [Next]_vars, Unbroken'
             PROVE  /\ \A i \in 1..Len(cmds') :
                         cmds'[i].op = "launch" => file' = Image /\ cmds'[i].arg[2] = 1
                    /\ chip'.mode = "crashed" => file' = Image /\ Records > 0
  BY DEF CutInv
<1>k. file' = file /\ Unbroken
  <2>1. file' = file
    BY KeptNext
  <2> QED
    BY <2>1 DEF Unbroken
<1>c. /\ \A i \in 1..Len(cmds) : cmds[i].op = "launch" => file = Image /\ cmds[i].arg[2] = 1
      /\ chip.mode = "crashed" => file = Image /\ Records > 0
  BY <1>k DEF CutInv
<1>t. cmds \in Seq(KnownCmd) /\ chip \in Chips /\ Records \in Nat
  BY Assumptions DEF TypeInv, TypeOK, LineInv, Chips, Modes
<1>a. ASSUME NEW c \in KnownCmd, cmds' = Append(cmds, c),
             c.op = "launch" => file = Image /\ c.arg[2] = 1
      PROVE  \A i \in 1..Len(cmds') :
               cmds'[i].op = "launch" => file' = Image /\ cmds'[i].arg[2] = 1
  <2>1. /\ Len(cmds) \in Nat /\ Len(cmds') = Len(cmds) + 1
        /\ \A i \in 1..Len(cmds) : cmds'[i] = cmds[i]
        /\ cmds'[Len(cmds) + 1] = c
    BY <1>a, <1>t, AppendIs
  <2>2. \A i \in 1..Len(cmds') : i \in 1..Len(cmds) \/ i = Len(cmds) + 1
    BY <2>1
  <2> QED
    BY <1>a, <1>c, <1>k, <2>1, <2>2
<1>b. ASSUME cmds # <<>>, cmds' = Tail(cmds)
      PROVE  /\ \A i \in 1..Len(cmds') :
                  cmds'[i].op = "launch" => file' = Image /\ cmds'[i].arg[2] = 1
             /\ Head(cmds) \in KnownCmd
             /\ Head(cmds).op = "launch" => file = Image /\ Head(cmds).arg[2] = 1
  <2>1. /\ Len(cmds) \in Nat /\ Len(cmds) >= 1 /\ Len(cmds') = Len(cmds) - 1
        /\ Head(cmds) = cmds[1] /\ Head(cmds) \in KnownCmd
        /\ \A i \in 1..(Len(cmds) - 1) : cmds'[i] = cmds[i + 1]
    BY <1>b, <1>t, RestIs
  <2>2. \A i \in 1..Len(cmds') : cmds'[i] = cmds[i + 1] /\ i + 1 \in 1..Len(cmds)
    BY <2>1
  <2>3. 1 \in 1..Len(cmds)
    BY <2>1
  <2> QED
    BY <1>c, <1>k, <2>1, <2>2, <2>3
<1>1. CASE UNCHANGED <<cmds, chip>>
  BY <1>1, <1>c, <1>k
<1>2. CASE OpenUart
  <2>1. cmds' = <<>> /\ chip' = chip
    BY <1>2 DEF OpenUart
  <2>2. 1..Len(cmds') = {}
    BY <2>1
  <2> QED
    BY <1>c, <1>k, <2>1, <2>2
<1>3. ASSUME NEW op \in Simple, SendCmd(op)
      PROVE  /\ chip' = chip
             /\ \A i \in 1..Len(cmds') :
                  cmds'[i].op = "launch" => file' = Image /\ cmds'[i].arg[2] = 1
  <2>1. At(op) /\ cmds' = Append(cmds, Command(op)) /\ chip' = chip
    BY <1>3 DEF SendCmd
  <2>2. Command(op) \in KnownCmd
    BY <2>1, CommandType
  <2>3. Command(op).op # "launch"
    BY DEF Command, Simple
  <2> QED
    BY <1>a, <2>1, <2>2, <2>3
<1>4. CASE SendRecord
  <2>1. /\ pos <= Len(file) /\ cmds' = Append(cmds, Piece(pos)) /\ chip' = chip
    BY <1>4 DEF SendRecord
  <2>2. pos \in 1..Len(file) /\ Len(file) \in 0..(Records + 1)
    BY <1>t, <2>1, FileType DEF TypeInv, TypeOK
  <2>3. Piece(pos) \in KnownCmd
    BY <2>2, PieceType
  <2>4. ASSUME Piece(pos).op = "launch"
        PROVE  file = Image /\ Piece(pos).arg[2] = 1
    <3>1. file[pos] \in {"all", "body"} /\ ~(pos <= Records)
      BY <2>4 DEF Piece
    <3>2. Len(file) = Records + 1 /\ pos = Records + 1
      BY <1>t, <2>2, <3>1
    <3>3. file[pos] = "all"
      BY <1>k, <3>1, <3>2 DEF Unbroken
    <3>4. Piece(pos).arg[2] = 1
      BY <3>3 DEF Piece
    <3> QED
      BY <3>2, <3>3, <3>4, CutIs
  <2>5. \A i \in 1..Len(cmds') :
          cmds'[i].op = "launch" => file' = Image /\ cmds'[i].arg[2] = 1
    BY <1>a, <2>1, <2>3, <2>4
  <2> QED
    BY <1>c, <1>k, <2>1, <2>5
<1>5. CASE Expire \/ ExpireLate
  <2> DEFINE c == [op |-> "reset", arg |-> <<>>]
  <2>1. cmds' = Append(cmds, c) /\ chip' = chip
    BY <1>5 DEF Expire, ExpireLate, Again
  <2>2. c \in KnownCmd /\ c.op # "launch"
    BY EmptySeq DEF KnownCmd, Ops, Simple
  <2>3. \A i \in 1..Len(cmds') :
          cmds'[i].op = "launch" => file' = Image /\ cmds'[i].arg[2] = 1
    BY <1>a, <2>1, <2>2
  <2> QED
    BY <1>c, <1>k, <2>1, <2>3
<1>6. CASE Take
  <2> DEFINE c == Head(cmds)
  <2>1. /\ cmds # <<>> /\ cmds' = Tail(cmds) /\ Able(c) /\ chip' = Executed(c)
    BY <1>6 DEF Take, Listens
  <2>2. c \in KnownCmd /\ (c.op = "launch" => file = Image /\ c.arg[2] = 1)
    BY <1>b, <2>1
  <2>3. \A i \in 1..Len(cmds') :
          cmds'[i].op = "launch" => file' = Image /\ cmds'[i].arg[2] = 1
    BY <1>b, <2>1
  <2> HIDE DEF c
  <2>4. CASE c.op = "launch"
    <3>1. Records = 0 => chip.ram = 1..Records
      <4>1. Records = 0 => 1..Records = {}
        BY <1>t
      <4>2. chip.ram \subseteq 1..Records
        BY <1>t DEF Chips
      <4> QED
        BY <4>1, <4>2
    <3>2. Records = 0 => chip'.mode = "patched"
      BY <1>t, <2>1, <2>2, <2>4, <3>1, ExecutedSays
    <3> QED
      BY <1>k, <1>t, <2>2, <2>3, <2>4, <3>2
  <2>5. CASE c.op # "launch"
    <3>1. chip'.mode = "crashed" => chip.mode = "crashed"
      BY <1>t, <2>1, <2>2, <2>5, ExecutedSays
    <3> QED
      BY <1>c, <1>k, <2>3, <3>1
  <2> QED
    BY <2>4, <2>5
<1>7. CASE Refuse \/ Ignore \/ Lose
  <2>1. cmds # <<>> /\ cmds' = Tail(cmds) /\ chip' = chip
    BY <1>7 DEF Refuse, Ignore, Lose, Listens
  <2> QED
    BY <1>b, <1>c, <1>k, <2>1
<1>8. CASE Boot \/ Arrive
  <2>1. \/ chip' = [chip EXCEPT !.up = TRUE]
        \/ chip' = [chip EXCEPT !.rate = chip.next, !.next = 0]
        \/ chip' = chip
    BY <1>8, Zenon DEF Boot, Arrive
  <2>2. cmds' = cmds
    BY <1>8 DEF Boot, Arrive, line
  <2>3. chip'.mode = chip.mode
    BY <1>t, <2>1 DEF Chips
  <2> QED
    BY <1>c, <1>k, <2>2, <2>3
<1> QED
  <2>1. CASE \E op \in Simple : SendCmd(op)
    BY <1>3, <1>c, <1>k, <2>1
  <2> QED
    BY <1>1, <1>2, <1>4, <1>5, <1>6, <1>7, <1>8, <2>1
    DEF Next, vars, Program, Chip, ParseArg, NoUart, EndDownload, EnableHci, Exit, ReadPart,
        ReadLast, Disarm, ReadTwo, Restart, line

\* What is in the buffer, how far the program is ahead of the chip, and so what
\* the chip has in its memory.
AheadInv ==
  /\ file = Image => QueueInv
  /\ Tame => SteadyInv /\ FullInv /\ (IF Split THEN TwoRates ELSE NarrowInv /\ DeafInv)

LEMMA AheadInit == Init => AheadInv /\ CutInv
<1> SUFFICES ASSUME Init PROVE AheadInv /\ CutInv
  OBVIOUS
<1>1. /\ cmds = <<>> /\ out = <<>> /\ rate = Base /\ pc = "parse" /\ ~Active
      /\ chip.mode = "rom" /\ chip.rate = Base /\ chip.next = 0 /\ ~Loader
  BY DEF Init, Active, Loader
<1>2. SteadyInv /\ FullInv /\ NarrowInv /\ DeafInv
  BY <1>1 DEF SteadyInv, FullInv, NarrowInv, DeafInv
<1>e. 1..Len(cmds) = {} /\ Len(out) = 0
  BY <1>1
<1>3. DriverInv
  BY <1>e DEF DriverInv
<1>4. BaseInv
  BY <1>1, <1>e, FramedEmpty DEF BaseInv
<1>5. EarlyInv /\ HoleInv /\ LedgerInv
  BY <1>1 DEF EarlyInv, HoleInv, LedgerInv
<1>6. CutInv
  BY <1>1, <1>e DEF CutInv
<1> QED
  BY <1>2, <1>3, <1>4, <1>5, <1>6, QueueInit DEF AheadInv, TwoRates

LEMMA AheadNext ==
  TypeInv /\ ArgInv /\ AskInv /\ FlagInv /\ WhereInv /\ AheadInv /\ [Next]_vars => AheadInv'
<1> SUFFICES ASSUME TypeInv, ArgInv, AskInv, FlagInv, WhereInv, AheadInv, [Next]_vars
             PROVE  AheadInv'
  OBVIOUS
<1>k. file' = file /\ (Split' <=> Split)
  <2>1. file' = file /\ argv' = argv
    BY KeptNext
  <2> QED
    BY <2>1 DEF Split, AskedRate, Given
<1>1. ASSUME file = Image PROVE InPlace /\ QueueInv /\ QueueInv'
  <2>1. InPlace /\ QueueInv
    BY <1>1 DEF InPlace, AheadInv
  <2> QED
    BY <2>1, QueueNext
<1>2. ASSUME Tame'
      PROVE  /\ SteadyInv' /\ FullInv'
             /\ IF Split THEN TwoRates' ELSE NarrowInv' /\ DeafInv'
  <2>1. Tame /\ file = Image
    BY <1>2, TameNext DEF Tame
  <2>2. InPlace /\ QueueInv
    BY <1>1, <2>1
  <2>3. SteadyInv /\ FullInv /\ (IF Split THEN TwoRates ELSE NarrowInv /\ DeafInv)
    BY <2>1 DEF AheadInv
  <2>4. CASE Split
    BY <1>2, <2>2, <2>3, <2>4, TwoRatesNext
  <2>5. CASE ~Split
    BY <1>2, <2>2, <2>3, <2>5, OneRateNext
  <2> QED
    BY <2>4, <2>5
<1> QED
  BY <1>1, <1>2, <1>k DEF AheadInv

\* No chip is started with a memory that was not written completely, whatever
\* the command line, the number of records, the baud rates, where the file is
\* cut, how many commands a starting chip misses, and whatever is left unread or
\* unsent: unless a record was refused, a byte came in at another rate, a late
\* answer was one of three troubles, or the file ends within the launch
\* (proc_patchram, l.634-668, expired, l.612, and main, l.813-853).
THEOREM NoTornStart == Spec => []NoTornLaunch
<1> DEFINE Known == TypeInv /\ ArgInv /\ AskInv /\ FlagInv /\ WhereInv
           All   == Known /\ AheadInv /\ CutInv
<1>1. Init => All
  <2> SUFFICES ASSUME Init PROVE AskInv
    BY TypeInit, ArgInit, FlagInit, WhereInit, AheadInit
  <2>1. argi = 1 /\ opt = Default
    BY DEF Init
  <2> QED
    BY <2>1, AskDefault
<1>2. All /\ [Next]_vars => All'
  BY TypeNext, ArgNext, AskNext, FlagNext, WhereNext, AheadNext, CutNext
<1>3. All => NoTornLaunch
  <2> SUFFICES ASSUME TypeInv, AheadInv, CutInv, chip.mode = "crashed",
                      odd \cap {"refused", "noise"} = {}, ~("late" \in odd /\ troubles >= 3),
                      Unbroken
               PROVE  FALSE
    BY DEF NoTornLaunch, Unbroken
  <2>1. file = Image /\ Records > 0
    BY DEF CutInv
  <2>2. troubles \in Nat
    BY BoundIs
  <2>3. Tame
    BY <2>1, <2>2 DEF Tame
  <2> QED
    BY <2>3 DEF AheadInv, SteadyInv
<1> HIDE DEF All
<1> QED
  BY <1>1, <1>2, <1>3, PTL DEF Spec

\* While the two sides are in step no chip is started with a memory that was not
\* written completely, not even by a launch that was under way when the service
\* was started again (proc_patchram, l.634-668).
THEOREM StartsWhole == Spec => [](odd = {} /\ Matched /\ Whole => chip.mode # "crashed")
<1> DEFINE Known == TypeInv /\ FlagInv
<1>1. Init => Known
  BY TypeInit, FlagInit
<1>2. Known /\ [Next]_vars => Known'
  BY TypeNext, FlagNext
<1>3. Known /\ NoTornLaunch => (odd = {} /\ Matched /\ Whole => chip.mode # "crashed")
  <2> SUFFICES ASSUME FlagInv, NoTornLaunch, odd = {}, Whole, chip.mode = "crashed" PROVE FALSE
    OBVIOUS
  <2>1. Len(file) = Records + 1 /\ file[Records + 1] = "body"
    BY DEF NoTornLaunch
  <2>2. Records \in Nat
    BY Assumptions
  <2>3. file = Image
    BY <2>1, <2>2 DEF FlagInv, Whole
  <2> QED
    BY <2>1, <2>2, <2>3 DEF Image
<1>4. Spec => []Known
  BY <1>1, <1>2, PTL DEF Spec
<1> QED
  BY <1>3, <1>4, NoTornStart, PTL
=============================================================================
