------------------------------ MODULE PatchRam ------------------------------
(***************************************************************************)
(* The Bluetooth firmware loader (brcm_patchram_plus.c) and the chip it    *)
(* talks to over a serial line.  The program sends a command and reads its *)
(* answer, byte by byte; only a reset is sent again, by an alarm.  Nothing *)
(* in an answer but its length is looked at.                               *)
(*                                                                         *)
(* The chip is external: it executes one command at a time, answers it,    *)
(* and changes its rate or starts anew when the answer is out.             *)
(***************************************************************************)
EXTENDS Naturals, Sequences

CONSTANTS
  Argvs,        \* command lines: sequences of [opt |-> option, val |-> number]
  Files,        \* contents of the .hcd file
  Records,      \* what is written to the chip's memory before it is launched
  Noise,        \* bytes that a line at another rate may give
  MaxLosses,    \* bound: commands that a starting chip misses
  MaxTroubles   \* bound: commands refused, alarms while the answer is on its
                \* way, and new starts of the program, together

Byte == 0..255
Flags == {"enable_lpm", "enable_hci", "use_baudrate_for_download", "no2bytes"}
\* val is the rate, the number of microseconds, how many numbers the argument
\* has (of bytes, for bd_addr), or what is wrong with the name of a patchram file.
Options == Flags \cup {"patchram", "baudrate", "bd_addr", "scopcm", "i2s",
                       "tosleep", "unknown"}

Base == 115200
baud_rates == {115200, 230400, 460800, 500000, 576000, 921600, 1000000, 1152000,
               1500000, 2000000, 2500000, 3000000, 3500000, 4000000}

\* The .hcd file as it is read, up to where it was cut: the records in their
\* order and the launch, the last of them perhaps without a part.  From "error"
\* on it cannot be read.
Image == [i \in 1..(Records + 1) |-> "all"]
Cuts  == {SubSeq(Image, 1, n) : n \in 0..(Records + 1)}
         \cup {Append(SubSeq(Image, 1, n), x) :
                 n \in 0..Records, x \in {"header", "body", "error"}}

ASSUME Assumptions ==
  /\ Argvs \subseteq Seq([opt : Options, val : Nat])
  /\ \A v \in Argvs : \A i \in 1..Len(v) :
       v[i].opt = "patchram" => v[i].val \in {0, 3, 4, 5}
  /\ Records \in Nat /\ Files \subseteq Cuts /\ Noise \subseteq Byte
  /\ MaxLosses \in Nat /\ MaxTroubles \in Nat

VARIABLES
  pc,      \* where the program is
  argv, argi,  \* its arguments, and the next one
  opt,     \* what they say so far
  plan,    \* the steps of main that are left
  file, pos,   \* the .hcd file, and the next piece of it
  buf,     \* what was read of the present event
  alarm,   \* SIGALRM is pending
  code,    \* the exit status
  ldisc,   \* the line discipline of the UART
  rate,    \* the rate of the UART
  cmds,    \* commands in the UART's buffer
  out,     \* bytes that the chip sends
  rx,      \* bytes received
  chip,    \* [mode, up, rate, next rate, ram, set, two]
  odd,     \* history: what happened that need not
  losses, troubles

args == <<argv, argi, opt, file, code, ldisc>>
work == <<plan, pos, buf, alarm>>
line == <<rate, cmds, out, rx>>
past == <<odd, losses, troubles>>
vars == <<pc, args, work, line, chip, past>>

Given(o) == \E i \in 1..Len(argv) : argv[i].opt = o
Default == [patch |-> FALSE, rate |-> 0, addr |-> "none", lpm |-> FALSE, sco |-> FALSE,
            i2s |-> FALSE, hci |-> FALSE, early |-> FALSE, no2 |-> FALSE]

Init ==
  /\ pc = "parse" /\ argv \in Argvs /\ argi = 1 /\ opt = Default
  /\ file \in IF Given("patchram") THEN Files ELSE {<<>>}
  /\ pos = 1 /\ plan = <<>> /\ buf = <<>>
  /\ alarm = FALSE /\ code = 0 /\ ldisc = "tty" /\ rate = Base
  /\ cmds = <<>> /\ out = <<>> /\ rx = <<>>
  /\ chip \in [mode : {"rom"}, up : {FALSE}, rate : {Base}, next : {0}, ram : {{}},
               set : {{}}, two : BOOLEAN]
  /\ odd = {} /\ losses = 0 /\ troubles = 0

----------------------------------------------------------------------------
(* The command line.                                                       *)

\* The status with which the program ends because of argument a, or 0.
Fault(a) ==
  CASE a.opt = "patchram" -> a.val
    [] a.opt = "baudrate" -> IF a.val \in baud_rates THEN 0 ELSE 1
    [] a.opt = "scopcm"   -> IF a.val = 10 THEN 0 ELSE 1
    [] a.opt = "i2s"      -> IF a.val = 4 THEN 0 ELSE 1
    [] a.opt = "tosleep"  -> IF a.val > 0 THEN 0 ELSE 1
    [] a.opt \in Flags \cup {"bd_addr", "unknown"} -> 0

With(a, o) ==
  CASE a.opt = "patchram"   -> [o EXCEPT !.patch = TRUE]
    [] a.opt = "baudrate"   -> [o EXCEPT !.rate = a.val]
    [] a.opt = "bd_addr"    -> [o EXCEPT !.addr = IF a.val = 6 THEN "asked" ELSE "junk"]
    [] a.opt = "enable_lpm" -> [o EXCEPT !.lpm = TRUE]
    [] a.opt = "enable_hci" -> [o EXCEPT !.hci = TRUE]
    [] a.opt = "scopcm"     -> [o EXCEPT !.sco = TRUE]
    [] a.opt = "i2s"        -> [o EXCEPT !.i2s = TRUE]
    [] a.opt = "no2bytes"   -> [o EXCEPT !.no2 = TRUE]
    [] a.opt = "use_baudrate_for_download" -> [o EXCEPT !.early = TRUE]
    [] a.opt \in {"tosleep", "unknown"}    -> o   \* usage, and on

ParseArg ==
  /\ pc = "parse" /\ argi <= Len(argv)
  /\ IF Fault(argv[argi]) = 0
     THEN /\ opt' = With(argv[argi], opt) /\ argi' = argi + 1
          /\ UNCHANGED <<pc, code>>
     ELSE /\ pc' = "exited" /\ code' = Fault(argv[argi])
          /\ UNCHANGED <<argi, opt>>
  /\ UNCHANGED <<argv, file, ldisc, work, line, chip, past>>

----------------------------------------------------------------------------
(* main.                                                                   *)

If(b, s) == IF b THEN s ELSE <<>>
Baud(o) == If(o.rate > 3000000, <<"clock">>) \o <<"baud">>

Download(o) == If(o.patch, <<"minidriver", "record", "reset">>)
Set(o) == If(o.addr # "none", <<"addr">>) \o If(o.lpm, <<"lpm">>)
          \o If(o.sco, <<"sco", "pcm">>) \o If(o.i2s, <<"i2s">>)

SettingsFirst(o) ==   \* mutant: the settings are made before the download
  <<"reset">> \o If(o.early /\ o.rate # 0, Baud(o)) \o Set(o) \o Download(o)
  \o If(o.rate # 0, Baud(o)) \o If(o.hci, <<"hci">>)
Steps(o) ==
  <<"reset">> \o If(o.early /\ o.rate # 0, Baud(o)) \o Download(o)
  \o If(o.rate # 0, Baud(o)) \o Set(o) \o If(o.hci, <<"hci">>)

\* init_uart drops what was not sent or not read.
OpenUart ==
  /\ pc = "parse" /\ argi > Len(argv)
  /\ pc' = "send" /\ plan' = Steps(opt)
  /\ rate' = Base /\ cmds' = <<>> /\ rx' = <<>>
  /\ odd' = odd \cup (IF chip.rate = Base /\ chip.next \in {0, Base} THEN {} ELSE {"rate"})
                \cup (IF out = <<>> THEN {} ELSE {"stale"})
  /\ UNCHANGED <<args, pos, buf, alarm, out, chip, losses, troubles>>

NoUart ==   \* not there, or not named
  /\ pc = "parse" /\ argi > Len(argv)
  /\ pc' = "exited" /\ code' = 2
  /\ UNCHANGED <<argv, argi, opt, file, ldisc, work, line, chip, past>>

Trouble == troubles < MaxTroubles /\ troubles' = troubles + 1

At(s) == pc = "send" /\ plan # <<>> /\ Head(plan) = s

\* BRCM_encode_baud_rate
Encoded(r) == <<r % 256, (r \div 256) % 256, (r \div 65536) % 256, r \div 16777216>>
Decoded(b) == b[1] + 256 * b[2] + 65536 * b[3] + 16777216 * b[4]

Command(op) == [op |-> op, arg |-> CASE op = "baud" -> Encoded(opt.rate)
                                     [] op = "addr" -> <<IF opt.addr = "asked" THEN 1 ELSE 0>>
                                     [] op \notin {"baud", "addr"} -> <<>>]

Simple == {"reset", "minidriver", "clock", "baud", "addr", "lpm", "sco", "pcm", "i2s"}

\* hci_send_cmd, and in proc_reset alarm(4).
SendCmd(op) ==
  /\ op \in Simple /\ At(op)
  /\ cmds' = Append(cmds, Command(op))
  /\ pc' = "read" /\ alarm' = (op = "reset")
  /\ UNCHANGED <<args, plan, pos, buf, rate, out, rx, chip, past>>

ShortPiece(i) ==   \* mutant: a byte of the body is missing
  IF file[i] \in {"all", "body"}
  THEN [op  |-> IF i <= Records THEN "record" ELSE "launch",
        arg |-> <<i, IF file[i] = "all" /\ i > Records THEN 1 ELSE 0>>]
  ELSE [op |-> "bogus", arg |-> <<>>]
\* What is sent for piece i: if the end of the file cuts its body, the rest is
\* what the last event left in the buffer; without a whole header it is a
\* command that no chip knows, or one that is too short.
Piece(i) ==
  IF file[i] \in {"all", "body"}
  THEN [op  |-> IF i <= Records THEN "record" ELSE "launch",
        arg |-> <<i, IF file[i] = "all" THEN 1 ELSE 0>>]
  ELSE [op |-> "bogus", arg |-> <<>>]

\* A read that fails is not the end: the loop goes on for ever.
SendRecord ==
  /\ At("record") /\ pos <= Len(file)
  /\ cmds' = Append(cmds, Piece(pos))
  /\ pos' = IF file[pos] = "error" THEN pos ELSE pos + 1
  /\ pc' = "read"
  /\ UNCHANGED <<args, plan, buf, alarm, rate, out, rx, chip, past>>

KeepRate ==   \* mutant: the chip's new start is forgotten
  /\ At("record") /\ pos > Len(file)
  /\ plan' = Tail(plan)
  /\ UNCHANGED <<pc, args, pos, buf, alarm, line, chip, past>>
EndDownload ==
  /\ At("record") /\ pos > Len(file)
  /\ rate' = IF opt.early THEN Base ELSE rate
  /\ plan' = Tail(plan)
  /\ UNCHANGED <<pc, args, pos, buf, alarm, cmds, out, rx, chip, past>>

\* Of the two ioctls the first may fail, or the second; it sleeps anyway.
EnableHci ==
  /\ At("hci")
  /\ pc' = "asleep" /\ plan' = <<>>
  /\ ldisc' \in {"tty", "noproto", "hci"}
  /\ odd' = IF ldisc' = "hci" THEN odd ELSE odd \cup {"ioctl"}
  /\ UNCHANGED <<argv, argi, opt, file, code, pos, buf, alarm, line, chip,
                losses, troubles>>

Exit ==
  /\ pc = "send" /\ plan = <<>>
  /\ pc' = "exited"
  /\ UNCHANGED <<args, work, line, chip, past>>

----------------------------------------------------------------------------
(* Reading.                                                                *)

Least(m, n) == IF m < n THEN m ELSE n
From(s, n) == SubSeq(s, n, Len(s))

AllThere == Len(buf) + Len(rx)   \* mutant: the length is not looked at
\* read_event: three bytes, then as many as the third of them says.
Needed == IF Len(buf) < 3 THEN 3 ELSE 3 + buf[3]
Count  == Least(Needed - Len(buf), Len(rx))
Got    == buf \o SubSeq(rx, 1, Count)
Complete == Len(Got) >= 3 /\ Len(Got) = 3 + Got[3]

ReadPart ==
  /\ pc = "read" /\ rx # <<>> /\ ~Complete
  /\ buf' = Got /\ rx' = From(rx, Count + 1)
  /\ UNCHANGED <<pc, args, plan, pos, alarm, rate, cmds, out, chip, past>>

\* Where the program goes with its answer, which it does not look at.
ReadLast ==
  /\ pc = "read" /\ rx # <<>> /\ Complete
  /\ buf' = <<>> /\ rx' = From(rx, Count + 1)
  /\ pc' = CASE Head(plan) = "reset"                     -> "disarm"
             [] Head(plan) = "minidriver" /\ ~opt.no2    -> "two"
             [] OTHER                                    -> "send"
  /\ plan' = IF pc' = "send" /\ Head(plan) # "record" THEN Tail(plan) ELSE plan
  /\ rate' = IF Head(plan) = "baud" THEN opt.rate ELSE rate
  /\ UNCHANGED <<args, pos, alarm, cmds, out, chip, past>>

Disarm ==   \* alarm(0)
  /\ pc = "disarm"
  /\ pc' = "send" /\ plan' = Tail(plan) /\ alarm' = FALSE
  /\ UNCHANGED <<args, pos, buf, line, chip, past>>

\* One read, which returns what is there.
ReadTwo ==
  /\ pc = "two" /\ rx # <<>>
  /\ rx' = From(rx, Least(2, Len(rx)) + 1)
  /\ odd' = IF Len(rx) = 1 THEN odd \cup {"short"} ELSE odd
  /\ pc' = "send" /\ plan' = Tail(plan)
  /\ UNCHANGED <<args, pos, buf, alarm, rate, cmds, out, chip, losses, troubles>>

\* expired: the reset again, while the program reads or is about to disarm.
Quiet == cmds = <<>> /\ out = <<>> /\ rx = <<>> /\ pc = "read"
Again ==
  /\ alarm /\ pc \in {"read", "disarm"}
  /\ cmds' = Append(cmds, [op |-> "reset", arg |-> <<>>])
  /\ UNCHANGED <<pc, args, work, rate, out, rx, chip, losses>>
NeverAgain ==   \* mutant: the handler does not set the alarm again
  /\ Quiet /\ alarm
  /\ cmds' = Append(cmds, [op |-> "reset", arg |-> <<>>]) /\ alarm' = FALSE
  /\ UNCHANGED <<pc, args, plan, pos, buf, rate, out, rx, chip, past>>
Expire == Quiet /\ Again /\ UNCHANGED <<odd, troubles>>
ExpireLate ==
  /\ ~Quiet /\ Trouble
  /\ odd' = odd \cup {"late"}
  /\ Again

----------------------------------------------------------------------------
(* The chip and the line.                                                  *)

Opcode(op) ==
  CASE op = "reset" -> <<3, 12>>        [] op = "minidriver" -> <<46, 252>>
    [] op = "record" -> <<76, 252>>     [] op = "launch" -> <<78, 252>>
    [] op = "baud" -> <<24, 252>>       [] op = "addr" -> <<1, 252>>
    [] op = "lpm" -> <<39, 252>>        [] op = "sco" -> <<28, 252>>
    [] op = "pcm" -> <<30, 252>>        [] op = "i2s" -> <<109, 252>>
    [] op = "clock" -> <<69, 252>>      [] op = "bogus" -> <<76, 4>>

Answer(c, status) ==
  <<4, 14, 4, 1>> \o Opcode(c.op) \o <<status>>
  \o If(c.op = "minidriver" /\ chip.two, <<0, 0>>)

Able(c) ==
  CASE c.op \in {"record", "launch"} -> chip.mode = "loader"
    [] c.op = "baud"  -> Decoded(c.arg) <= 3000000 \/ "clock" \in chip.set
    [] c.op = "bogus" -> FALSE
    [] OTHER          -> TRUE

Executed(c) ==
  CASE c.op = "reset" ->
         [chip EXCEPT !.mode = IF @ = "loader" THEN "rom" ELSE @, !.set = {}]
    [] c.op = "minidriver" -> [chip EXCEPT !.mode = "loader", !.ram = {}]
    [] c.op = "record" ->
         [chip EXCEPT !.ram = IF c.arg[2] = 1 THEN @ \cup {c.arg[1]} ELSE @]
    [] c.op = "launch" ->   \* it starts at Base
         [chip EXCEPT !.mode = IF c.arg[2] = 1 /\ chip.ram = 1..Records
                               THEN "patched" ELSE "crashed",
                      !.up = FALSE, !.next = Base, !.set = {}]
    [] c.op = "baud" -> [chip EXCEPT !.next = Decoded(c.arg)]
    [] c.op = "addr" -> [chip EXCEPT !.set = @ \cup {IF c.arg = <<1>> THEN "addr" ELSE "junk"}]
    [] OTHER -> [chip EXCEPT !.set = @ \cup {c.op}]

Listens == cmds # <<>> /\ chip.up /\ chip.mode # "crashed"

Take ==
  /\ Listens /\ rate = chip.rate /\ out = <<>> /\ Able(Head(cmds))
  /\ chip' = Executed(Head(cmds))
  /\ out' = Answer(Head(cmds), 0) /\ cmds' = Tail(cmds)
  /\ UNCHANGED <<pc, args, work, rate, rx, past>>

Refuse ==
  /\ Listens /\ rate = chip.rate /\ out = <<>>
  /\ \/ ~Able(Head(cmds)) /\ UNCHANGED troubles
     \/ Able(Head(cmds)) /\ Trouble
  /\ out' = Answer(Head(cmds), 1) /\ cmds' = Tail(cmds)
  /\ odd' = odd \cup {"refused"}
  /\ UNCHANGED <<pc, args, work, rate, rx, chip, losses>>

\* At another rate a command is nothing.
Ignore ==
  /\ Listens /\ rate # chip.rate
  /\ cmds' = Tail(cmds)
  /\ UNCHANGED <<pc, args, work, rate, out, rx, chip, past>>

Boot ==
  /\ ~chip.up /\ out = <<>> /\ chip' = [chip EXCEPT !.up = TRUE]
  /\ UNCHANGED <<pc, args, work, line, past>>

Lose ==
  /\ ~chip.up /\ out = <<>> /\ cmds # <<>> /\ losses < MaxLosses
  /\ losses' = losses + 1 /\ cmds' = Tail(cmds)
  /\ UNCHANGED <<pc, args, work, rate, out, rx, chip, odd, troubles>>

\* A byte comes in; after the last one the chip has its new rate.
Arrive ==
  /\ out # <<>> /\ out' = Tail(out)
  /\ IF rate = chip.rate
     THEN rx' = Append(rx, Head(out)) /\ UNCHANGED odd
     ELSE (\E b \in Noise : rx' = Append(rx, b)) /\ odd' = odd \cup {"noise"}
  /\ chip' = IF Len(out) = 1 /\ chip.next # 0
             THEN [chip EXCEPT !.rate = chip.next, !.next = 0] ELSE chip
  /\ UNCHANGED <<pc, args, work, rate, cmds, losses, troubles>>

\* The service is stopped and started again.
Restart ==
  /\ Trouble
  /\ pc' = "parse" /\ argi' = 1 /\ opt' = Default /\ plan' = <<>> /\ pos' = 1
  /\ buf' = <<>> /\ alarm' = FALSE /\ code' = 0 /\ ldisc' = "tty"
  /\ UNCHANGED <<argv, file, line, chip, odd, losses>>

----------------------------------------------------------------------------
Program ==
  \/ ParseArg \/ OpenUart \/ NoUart
  \/ \E op \in Simple : SendCmd(op)
  \/ SendRecord \/ EndDownload \/ EnableHci \/ Exit
  \/ ReadPart \/ ReadLast \/ Disarm \/ ReadTwo
Chip == Take \/ Refuse \/ Ignore \/ Boot
Next == Program \/ Expire \/ ExpireLate \/ Chip \/ Lose \/ Arrive \/ Restart

Spec == Init /\ [][Next]_vars

\* The program runs and its alarm expires; the chip starts, executes what it
\* hears, and what it sends arrives.
FairSpec == Spec /\ WF_vars(Program) /\ WF_vars(Expire) /\ WF_vars(Chip) /\ WF_vars(Arrive)

----------------------------------------------------------------------------
(* Properties.                                                             *)

Ops == Simple \cup {"record", "launch", "bogus"}
Settings == {"clock", "addr", "junk", "lpm", "sco", "pcm", "i2s"}

TypeOK ==
  /\ pc \in {"parse", "send", "read", "disarm", "two", "asleep", "exited"}
  /\ argv \in Argvs /\ argi \in 1..(Len(argv) + 1) /\ file \in Files \cup {<<>>}
  /\ opt \in [patch : BOOLEAN, rate : {0} \cup baud_rates,
              addr : {"none", "asked", "junk"}, lpm : BOOLEAN, sco : BOOLEAN,
              i2s : BOOLEAN, hci : BOOLEAN, early : BOOLEAN, no2 : BOOLEAN]
  /\ plan \in Seq(Ops \cup {"hci"}) /\ pos \in 1..(Len(file) + 1)
  /\ buf \in Seq(Byte) /\ (Len(buf) >= 3 => Len(buf) < 3 + buf[3])
  /\ alarm \in BOOLEAN /\ code \in 0..5 /\ ldisc \in {"tty", "noproto", "hci"}
  /\ rate \in baud_rates
  /\ cmds \in Seq([op : Ops, arg : Seq(Nat)]) /\ out \in Seq(Byte) /\ rx \in Seq(Byte)
  /\ chip \in [mode : {"rom", "loader", "patched", "crashed"}, up : BOOLEAN,
               rate : baud_rates, next : {0} \cup baud_rates, ram : SUBSET (1..Records),
               set : SUBSET Settings, two : BOOLEAN]
  /\ odd \subseteq {"rate", "stale", "ioctl", "short", "late", "refused", "noise"}
  /\ losses \in 0..MaxLosses /\ troubles \in 0..MaxTroubles

\* What the command line asks for, whatever the program makes of it.
AskedRate ==
  IF Given("baudrate")
  THEN argv[CHOOSE i \in 1..Len(argv) :
              /\ argv[i].opt = "baudrate"
              /\ \A j \in (i + 1)..Len(argv) : argv[j].opt # "baudrate"].val
  ELSE Base
AskedSettings ==
  {s \in Settings : \/ s = "addr" /\ Given("bd_addr")
                    \/ s = "lpm" /\ Given("enable_lpm")
                    \/ s \in {"sco", "pcm"} /\ Given("scopcm")
                    \/ s = "i2s" /\ Given("i2s")}
Whole == Given("patchram") => file = Image
Matched == Given("patchram") => Given("no2bytes") # chip.two
Sound   == \A i \in 1..Len(argv) :
             argv[i].opt # "unknown" /\ (argv[i].opt = "bd_addr" => argv[i].val = 6)

Ended == pc \in {"exited", "asleep"}
Succeeded == pc = "asleep" \/ (pc = "exited" /\ code = 0)
AsAsked ==
  /\ Given("patchram") => chip.mode = "patched"
  /\ chip.rate = AskedRate
  /\ chip.set \ {"clock"} = AskedSettings
  /\ pc = "asleep" <=> Given("enable_hci")

\* The program and the chip stay in step: nothing is under way when a command
\* is sent or the line is given to the kernel, and both ends have the same rate
\* whenever something is (read_event, l.662, l.686).
LockStep ==
  odd = {} /\ Matched /\ Whole =>
    /\ pc \in {"send", "asleep"} => cmds = <<>> /\ out = <<>> /\ rx = <<>>
    /\ cmds # <<>> \/ out # <<>> => rate = chip.rate

\* Whatever was lost, short, out of step or broken off: a chip is started only
\* with a memory that was written completely, unless it refused a record, or the
\* file ends within the launch.  A late answer does not change that, nor does one
\* and a start in the middle of an answer; with a third the program is so far
\* ahead that it comes back to the chip's rate while the launch is still to be
\* sent, and the record before it is gone.
NoTornLaunch ==
  chip.mode = "crashed" =>
    \/ odd \cap {"refused", "noise"} # {}
    \/ "late" \in odd /\ troubles >= 3
    \/ Len(file) = Records + 1 /\ file[Records + 1] = "body"

\* When the program says that it is done, the chip is as the command line
\* wants it, with the settings made after its last reset.
Configured ==
  Succeeded /\ odd = {} /\ Matched /\ Whole /\ Sound => AsAsked

\* However many commands a starting chip misses, the program comes to its end.
Finishes == <>[](Ended \/ odd # {} \/ ~Matched \/ ~Whole)

\* "It will return 0 for success and a number greater than 0 for any errors"
\* (l.91): not so, no answer's status is looked at.
ExitIsTrue == pc = "exited" /\ code = 0 => AsAsked
=============================================================================
