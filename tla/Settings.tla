------------------------------ MODULE Settings ------------------------------
(***************************************************************************)
(* What Fastcom adds to a serial port: RS485, sample rate, triggers,       *)
(* termination, echo cancellation, isochronous mode, external transmit,    *)
(* frame length, nine bits, clock generator (utils.c, ioctl.c), for two    *)
(* ports of one card.                                                      *)
(*                                                                         *)
(* Every operation is a short program of register accesses.  The handlers  *)
(* of a port run one at a time, under its device lock.  Its interrupt does *)
(* not take that lock, and asks for the room in the FIFO through the same  *)
(* index register; and the ports of a card, each with a lock of its own,   *)
(* share registers that each of them reads, changes and writes back.  The  *)
(* accesses of all of them interleave.                                     *)
(***************************************************************************)
EXTENDS Integers, Sequences, FiniteSetsExt, SequencesExt, TLC

CONSTANTS
  Cards,        \* the card types looked at
  Ports,        \* the ports of the card
  Asked,        \* bound: <<port, setting, value>>, what clients ask for
  Senders,      \* bound: the ports that send, and so ask for the room in the FIFO
  Registry,     \* what SerialGetConfigDefaults found, a value for each of Configured
  HasFrames,    \* whether the firmware of an FSCC has frames, FsccGetFrev >= 0x20
  MaxEvents,    \* bound: requests, interrupts and exits from D0 in a behaviour
  MaxRequests,  \* bound: requests and interrupts among them
  MaxBusy       \* bound: programs under way on the card at once

VARIABLES
  card,      \* FastcomGetCardType
  regs,      \* the registers of the card
  ext,       \* per port, the settings recorded in the device extension, and the
             \* cache of register ACR
  run,       \* the programs under way
  power,     \* per port: its state, and DeviceState.LCR and .MCR
  doubtful,  \* history: the settings at which accesses of two programs met
  requests,  \* bounded by MaxRequests
  events     \* bounded by MaxEvents

vars == <<card, regs, ext, run, power, doubtful, requests, events>>

CardTypes == {"PCI", "PCIe", "FSCC", "UNKNOWN"}
ASSUME SettingsAssumption ==
  Cards \subseteq CardTypes /\ "card" \notin Ports /\ HasFrames \in BOOLEAN

\* The settings SerialFcInit sets up, in its order, after the clock.
Configured == <<"RS485", "SampleRate", "TxTrigger", "RxTrigger", "Termination",
                "EchoCancel", "Isochronous", "FrameLength", "NineBit">>

DefaultClockRate == 18432000
Exar == {"PCI", "PCIe"}

-----------------------------------------------------------------------------
(* Registers.  A register of flags is the set of those that are up; the    *)
(* registers from ACR on are reached through SPR, their index, and ICR.    *)

Own(p, r) == <<p, r>>
Shared(r) == <<"card", r>>

SharedFlags ==
  CASE card = "PCI" -> {"MPIOLVL", "8XMODE"} [] card = "FSCC" -> {"FCR"}
    [] card = "PCIe" -> {"MPIOLVL", "MPIOLVLH", "4XMODE", "8XMODE"} [] card = "UNKNOWN" -> {}
Numbers ==
  CASE card \in Exar -> {"LCR", "TXTRG", "RXTRG"} [] card = "UNKNOWN" -> {"LCR"}
    [] card = "FSCC" -> {"LCR", "ACR", "TCR", "TTL", "RTL", "CKS", "MDM", "EXT", "EXTH",
                         "FLR", "NMR", "generator"}

\* What they hold without power.
ResetRegs ==
  [r \in {Shared(n) : n \in SharedFlags} \cup (Ports \X {"MCR", "FCTR"}) |-> {}]
    @@ [r \in Ports \X Numbers |-> 0] @@ [r \in Ports \X {"SPR"} |-> "ACR"]
    @@ (Shared("generator") :> 0)

\* The steps of a program.
Access(do, reg, arg) == [do |-> do, reg |-> reg, arg |-> arg]
Save(r) == Access("save", r, 0)
Put(r, value) == Access("put", r, value)
PutLocked(r, value) == Access("put locked", r, value)
Restore(r) == Access("restore", r, 0)
Raise(r, flags) == Access("raise", r, flags)
Lower(r, flags) == Access("lower", r, flags)
Change(r, on, flags) == IF on THEN Raise(r, flags) ELSE Lower(r, flags)
ICR(p, value) == Access("write ICR", Own(p, "SPR"), value)
ACR(p, bits) == Access("write ACR", Own(p, "SPR"), bits)
ReadICR(p) == Access("read ICR", Own(p, "SPR"), 0)
Cache(p, value) == Access("cache", Own(p, "cache"), value)
Record(p, setting, value) == Access("record", Own(p, setting), value)
Answer(p, setting) == Access("answer", Own(p, setting), 0)

\* LCR holds 0 while SPR and ICR are used, "ensure last LCR value is not 0xbf".
ThroughICR(p, code) ==
  <<Save(Own(p, "LCR")), Put(Own(p, "LCR"), 0)>> \o code \o <<Restore(Own(p, "LCR"))>>
SetIndexed(p, index, value) == <<Put(Own(p, "SPR"), index), ICR(p, value)>>
SetACR(p, bits) == <<Put(Own(p, "SPR"), "ACR"), ACR(p, bits)>>
GetIndexed(p, indexes) ==
  SetACR(p, 64)
    \o FlattenSeq([i \in DOMAIN indexes |-> <<Put(Own(p, "SPR"), indexes[i]), ReadICR(p)>>])
    \o SetACR(p, 0)

\* What an access makes of a state m = [regs, ext, saved, got]: the card, the
\* extensions, and what the program has read.  ICR is read only if ACR says so.
Garbage == -2
After(m, p, i) ==
  LET target == Own(p, m.regs[Own(p, "SPR")])
      readable == (m.regs[Own(p, "ACR")] \div 64) % 2 = 1
  IN CASE i.do = "save" -> [m EXCEPT !.saved = (i.reg :> m.regs[i.reg]) @@ @]
       [] i.do \in {"put", "put locked"} -> [m EXCEPT !.regs[i.reg] = i.arg]
       [] i.do = "restore" -> [m EXCEPT !.regs[i.reg] = m.saved[i.reg]]
       [] i.do = "raise" -> [m EXCEPT !.regs[i.reg] = m.saved[i.reg] \cup i.arg]
       [] i.do = "lower" -> [m EXCEPT !.regs[i.reg] = m.saved[i.reg] \ i.arg]
       [] i.do = "write ICR" -> [m EXCEPT !.regs[target] = i.arg]
       [] i.do = "write ACR" -> [m EXCEPT !.regs[target] = m.ext[p]["ACR"] + i.arg]
       [] i.do = "read ICR" ->
            [m EXCEPT !.got = Append(@, IF readable THEN m.regs[target] ELSE Garbage)]
       [] i.do = "cache" -> [m EXCEPT !.ext[p]["ACR"] = i.arg]
       [] i.do = "record" -> [m EXCEPT !.ext[p][i.reg[2]] = i.arg]
       [] i.do = "answer" -> m

-----------------------------------------------------------------------------
(* The programs of the settings, FastcomSetXxx and FastcomGetXxx           *)

\* What is refused; nothing is accessed or recorded then.  RS485 and EchoCancel
\* are recorded for every card.
Takes(setting, value) ==
  CASE setting = "SampleRate" ->
         (CASE card = "PCI" -> value \in {8, 16}
            [] card = "PCIe" -> value \in {4, 8, 16}
            [] card = "FSCC" -> value \in 4 .. 16
            [] card = "UNKNOWN" -> TRUE)
    [] setting \in {"TxTrigger", "RxTrigger"} ->
         (CASE card = "PCI" -> value \in 0 .. 64
            [] card = "PCIe" -> value \in 0 .. 255
            [] card = "FSCC" -> value \in 0 .. 127
            [] card = "UNKNOWN" -> FALSE)
    [] setting = "Termination" -> card = "PCIe"
    [] setting = "Isochronous" -> card = "FSCC" /\ value \in -1 .. 10
    [] setting = "FrameLength" -> card = "FSCC" /\ value \in 1 .. 256 /\ HasFrames
    [] setting = "ExternalTransmit" -> card = "FSCC" /\ value \in 0 .. 8191
    [] setting = "NineBit" -> card = "FSCC"
    [] setting = "Clock" -> card \in {"PCI", "FSCC"}
    [] setting \in {"RS485", "EchoCancel", "LineControl"} -> TRUE

\* MPIOLVL is inverted.  On PCI the request also forces RTS and DTR.
SetRS485(p, on) ==
  LET MCR == Own(p, "MCR")
      FCTR == Own(p, "FCTR")
      MPIOLVL == Shared("MPIOLVL")
      FCR == Shared("FCR")
  IN CASE card = "PCI" ->
            <<Save(MCR), Save(FCTR), Save(MPIOLVL), Change(MCR, on, {"DTR", "RTS"}),
              Change(MPIOLVL, ~on, {Own(p, "RS485")}), Change(FCTR, on, {"auto 485"})>>
       [] card = "PCIe" ->
            <<Save(MCR), Save(FCTR), Change(MCR, on, {"485 by DTR"}),
              Change(FCTR, on, {"auto 485"})>>
       [] card = "FSCC" ->
            <<Save(Own(p, "LCR")), Save(FCR), Put(Own(p, "LCR"), 0),
              Put(Own(p, "SPR"), "ACR"), Cache(p, IF on THEN 16 ELSE 0), ACR(p, 0),
              Change(FCR, on, {Own(p, "RS485")}), Restore(Own(p, "LCR"))>>
       [] card = "UNKNOWN" -> <<>>

SetSampleRate(p, value) ==
  LET X4 == Shared("4XMODE")
      X8 == Shared("8XMODE")
  IN CASE card = "PCI" -> <<Save(X8), Change(X8, value = 8, {p})>>
       [] card = "PCIe" ->
            <<Save(X4), Save(X8), Change(X4, value = 4, {p}), Change(X8, value = 8, {p})>>
       [] card = "FSCC" -> ThroughICR(p, SetIndexed(p, "TCR", value))
       [] card = "UNKNOWN" -> <<>>

SetTrigger(p, exar, index, value) ==
  IF card \in Exar THEN <<Put(Own(p, exar), value)>>
  ELSE ThroughICR(p, SetIndexed(p, index, value))

SetTermination(p, on) ==
  <<Save(Shared("MPIOLVL")), Change(Shared("MPIOLVL"), ~on, {Own(p, "Termination")})>>

\* On PCI one flag stands for all the ports of the card.
SetEchoCancel(p, on) ==
  CASE card = "PCI" ->
         <<Save(Shared("MPIOLVL")), Change(Shared("MPIOLVL"), on, {Shared("EchoCancel")})>>
    [] card = "PCIe" -> <<Save(Shared("MPIOLVLH")), Change(Shared("MPIOLVLH"), on, {p})>>
    [] card = "FSCC" ->
         <<Save(Shared("FCR")), Change(Shared("FCR"), on, {Own(p, "EchoCancel")})>>
    [] card = "UNKNOWN" -> <<>>

\* The mode is the clock of the receiver and that of the transmitter; read back,
\* CKS alone tells it.
MDMOf(mode) ==
  (IF mode \in {2, 3, 4, 10} THEN 2 ELSE 0) + (IF mode \in {0, 3, 6, 8} THEN 4 ELSE 0)
CKSOf(mode) ==
  (CASE mode \in {2, 3, 4, 10} -> 9 [] mode \in {5, 6, 7} -> 10 [] mode = 8 -> 11 [] OTHER -> 0)
  + (CASE mode \in {0, 3, 6, 8} -> 208 [] mode \in {1, 4, 7} -> 144
       [] mode \in {9, 10} -> 16 [] OTHER -> 0)
ModesByCKS ==
  0 :> -1 @@ 208 :> 0 @@ 144 :> 1 @@ 9 :> 2 @@ 217 :> 3 @@ 153 :> 4
    @@ 10 :> 5 @@ 218 :> 6 @@ 154 :> 7 @@ 219 :> 8 @@ 16 :> 9 @@ 25 :> 10
SetIsochronous(p, mode) ==
  ThroughICR(p, SetIndexed(p, "MDM", MDMOf(mode)) \o SetIndexed(p, "CKS", CKSOf(mode)))

SetExternalTransmit(p, frames) ==
  ThroughICR(p, SetIndexed(p, "EXTH", frames \div 256) \o SetIndexed(p, "EXT", frames % 256))

Generator(p) == IF card = "PCI" THEN Shared("generator") ELSE Own(p, "generator")

\* The bits go out through flags of a shared register, which is then put back.  On
\* PCI its other flags are down in the meantime, and one generator serves the card.
SetClockBits(p, frequency) ==
  CASE card = "PCI" ->
         <<Save(Shared("MPIOLVL")), Put(Shared("MPIOLVL"), {}),
           Put(Generator(p), frequency), Restore(Shared("MPIOLVL"))>>
    [] card = "FSCC" ->
         <<Save(Shared("FCR")), Raise(Shared("FCR"), {Own(p, "clock")}),
           Put(Generator(p), frequency), Restore(Shared("FCR"))>>
    [] OTHER -> <<>>

\* FsccEnableAsync at open and FsccDisableAsync at close.
SetAsync(p, on) ==
  IF card # "FSCC" THEN <<>>
  ELSE <<Save(Shared("FCR")), Change(Shared("FCR"), on, {Own(p, "Opened")})>>

Writes(p, setting, value) ==
  CASE setting = "RS485" -> SetRS485(p, value)
    [] setting = "SampleRate" -> SetSampleRate(p, value)
    [] setting = "TxTrigger" -> SetTrigger(p, "TXTRG", "TTL", value)
    [] setting = "RxTrigger" -> SetTrigger(p, "RXTRG", "RTL", value)
    [] setting = "Termination" -> SetTermination(p, value)
    [] setting = "EchoCancel" -> SetEchoCancel(p, value)
    [] setting = "Isochronous" -> SetIsochronous(p, value)
    [] setting = "FrameLength" -> ThroughICR(p, SetIndexed(p, "FLR", value - 1))
    [] setting = "NineBit" -> ThroughICR(p, SetIndexed(p, "NMR", value))
    [] setting = "ExternalTransmit" -> SetExternalTransmit(p, value)
    [] setting = "Clock" -> SetClockBits(p, value)
    [] setting = "Opened" -> SetAsync(p, value)

\* A setting is recorded when it has been written; that of the line before, and its
\* write is at interrupt level.  (The code does not record ExternalTransmit: its
\* record here is history.)
SetProgram(p, setting, value) ==
  IF setting = "LineControl"
  THEN <<Record(p, setting, value), PutLocked(Own(p, "LCR"), value)>>
  ELSE Writes(p, setting, value) \o <<Record(p, setting, value)>>

\* A setting is read from the registers; the triggers of the Exar cards, and the
\* sample rate, are read from the extension and not looked at here.
Indexes ==
  "TxTrigger" :> <<"TTL">> @@ "RxTrigger" :> <<"RTL">> @@ "Isochronous" :> <<"CKS">>
    @@ "FrameLength" :> <<"FLR">> @@ "NineBit" :> <<"NMR">>
    @@ "ExternalTransmit" :> <<"EXT", "EXTH">>
FlagsRead(p, setting) ==
  CASE setting = "RS485" -> IF card \in Exar THEN Own(p, "FCTR") ELSE Shared("FCR")
    [] setting = "Termination" -> Shared("MPIOLVL")
    [] setting = "EchoCancel" ->
         (CASE card = "PCI" -> Shared("MPIOLVL") [] card = "PCIe" -> Shared("MPIOLVLH")
            [] card = "FSCC" -> Shared("FCR"))
Gives(setting) ==
  \/ card = "FSCC" /\ setting \in DOMAIN Indexes /\ (setting = "FrameLength" => HasFrames)
  \/ card # "UNKNOWN" /\ setting \in {"RS485", "EchoCancel"}
  \/ card = "PCIe" /\ setting = "Termination"

\* Mutant: ACR is not told to let ICR be read.
GetProgramUnreadable(p, setting) ==
  IF setting \in DOMAIN Indexes
  THEN ThroughICR(p, <<Put(Own(p, "SPR"), Indexes[setting][1]), ReadICR(p)>>)
         \o <<Answer(p, setting)>>
  ELSE <<Save(FlagsRead(p, setting)), Answer(p, setting)>>

GetProgram(p, setting) ==
  IF setting \in DOMAIN Indexes
  THEN ThroughICR(p, GetIndexed(p, Indexes[setting])) \o <<Answer(p, setting)>>
  ELSE <<Save(FlagsRead(p, setting)), Answer(p, setting)>>

\* What a request that has read its registers answers.
Given(p, setting, m) ==
  LET flags == m.saved[FlagsRead(p, setting)]
  IN CASE setting = "RS485" ->
            IF card \in Exar THEN "auto 485" \in flags
            ELSE m.ext[p]["ACR"] = 16 /\ Own(p, "RS485") \in flags
       [] setting = "Termination" -> Own(p, "Termination") \notin flags
       [] setting = "EchoCancel" ->
            (CASE card = "PCI" -> Shared("EchoCancel") \in flags [] card = "PCIe" -> p \in flags
               [] card = "FSCC" -> Own(p, "EchoCancel") \in flags)
       [] setting \in {"TxTrigger", "RxTrigger"} -> m.got[1] % 128
       [] setting = "Isochronous" ->
            IF m.got[1] \in DOMAIN ModesByCKS THEN ModesByCKS[m.got[1]] ELSE Garbage
       [] setting = "FrameLength" -> m.got[1] + 1
       [] setting = "NineBit" -> m.got[1] % 2
       [] setting = "ExternalTransmit" -> ((m.got[2] % 32) * 256) + m.got[1]

\* FastcomGetTxFifoFillFSCC, from the interrupt of a port that sends.
FillProgram(p) == ThroughICR(p, SetACR(p, 128) \o SetACR(p, 0))

\* FastcomInitTriggers: on FSCC LCR is left at 0xBF, and only the cache of ACR reset.
InitTriggers(p) ==
  CASE card \in Exar ->
         <<Save(Own(p, "FCTR")), Raise(Own(p, "FCTR"), {"programmable triggers"})>>
    [] card = "FSCC" -> <<Put(Own(p, "LCR"), 191), Cache(p, 0)>>
    [] card = "UNKNOWN" -> <<>>

-----------------------------------------------------------------------------
(* Who runs the programs: per port the handler of a request, and the       *)
(* driver itself, in the interrupt or while the port comes back to D0.     *)

Driver(p) == <<p, "driver">>
Handlers == Ports \X {"handler"}
Workers == Handlers \cup {Driver(p) : p \in Ports}
Idle == [code |-> <<>>, todo |-> <<>>, names |-> {}, touches |-> {}, writes |-> {},
         saved |-> <<>>, got |-> <<>>]
Busy == {w \in Workers : run[w].code # <<>>}
PortIdle(p) == \A w \in Workers : w[1] = p => run[w] = Idle

\* The steps of SerialFcInit and what it calls, but for the cards' GPIO.
SerialFcInit ==
  <<"Triggers", "Clock">> \o SelectSeq(Configured, LAMBDA s : Takes(s, Registry[s]))

InitialCode(p) ==
  InitTriggers(p)
    \o (IF Takes("Clock", 0) THEN SetProgram(p, "Clock", DefaultClockRate) ELSE <<>>)
    \o FlattenSeq([i \in 1 .. Len(SerialFcInit) - 2 |->
                     SetProgram(p, SerialFcInit[i + 2], Registry[SerialFcInit[i + 2]])])
    \o SetProgram(p, "Opened", TRUE) \o SetProgram(p, "LineControl", 3)

Settings == Range(Configured) \cup {"ExternalTransmit", "Clock", "LineControl", "Opened"}

\* Both ports have been started and opened.
Init ==
  /\ card \in Cards
  /\ LET none == [regs |-> ResetRegs, saved |-> <<>>, got |-> <<>>,
                  ext |-> [p \in Ports |-> [s \in Settings \cup {"ACR"} |-> 0]]]
         started == FoldLeft(LAMBDA m, p : FoldLeft(LAMBDA n, i : After(n, p, i), m,
                                                    InitialCode(p)),
                             none, SetToSeq(Ports))
     IN regs = started.regs /\ ext = started.ext
  /\ run = [w \in Workers |-> Idle]
  /\ power = [p \in Ports |-> [state |-> "D0", LCR |-> 3, MCR |-> {}]]
  /\ doubtful = {} /\ requests = 0 /\ events = 0

\* What is begun: a program, the settings it deals with, those of them it settles,
\* and those it spoils for other ports.
Job(code, names, settles, spoils) ==
  [code |-> code, names |-> names, settles |-> settles, spoils |-> spoils]

\* Where a program meets another one, each of them using a register the other
\* writes, what both of them deal with is in doubt; so is the line control if both
\* put LCR back.  A program that meets no other one settles what it sets.  (Accesses
\* at interrupt level meet nothing of their port.)
Begin(w, job, todo) ==
  LET accesses == {i \in Range(job.code) : i.do # "put locked"}
      touches == {i.reg : i \in accesses}
      writes == {i.reg : i \in {j \in accesses : j.do \notin {"save", "answer"}}}
      met == {u \in Busy : (touches \cap run[u].writes) \cup (writes \cap run[u].touches) # {}}
      lines == {Own(p, "LineControl") : p \in {q \in Ports :
                  \E u \in met : Own(q, "LCR") \in touches \cap run[u].touches}}
  IN /\ run' = [run EXCEPT ![w] = [code |-> job.code, todo |-> todo, names |-> job.names,
                                   touches |-> touches, writes |-> writes,
                                   saved |-> <<>>, got |-> <<>>]]
     /\ doubtful' = job.spoils \cup
          (IF met = {} THEN doubtful \ job.settles
           ELSE doubtful \cup job.names \cup lines \cup UNION {run[u].names : u \in met})

\* One flag of MPIOLVL and one generator serve all the ports of a PCI card: setting
\* them is setting them for the others, who do not record it.
CardWide(setting) == card = "PCI" /\ setting \in {"EchoCancel", "Clock"}
SetBy(p, setting) ==
  {Own(p, setting)} \cup
  (IF card = "FSCC" /\ setting = "RS485" THEN {Own(p, "ACR")} ELSE {}) \cup
  (IF setting = "LineControl" THEN {Own(p, "resumed")} ELSE {})
\* While the clock of a PCI card is being set every flag of MPIOLVL is down: who
\* reads the register then takes that for what the other settings are.
PutAside(setting) ==
  IF card = "PCI" /\ setting = "Clock" THEN Ports \X {"RS485", "EchoCancel"} ELSE {}
SetJob(p, setting, value) ==
  Job(SetProgram(p, setting, value), SetBy(p, setting) \cup PutAside(setting),
      SetBy(p, setting),
      IF CardWide(setting) THEN {Own(q, setting) : q \in Ports \ {p}} ELSE {})
GetJob(p, setting) ==
  LET ACRs == IF card = "FSCC" /\ setting \in DOMAIN Indexes THEN {Own(p, "ACR")} ELSE {}
  IN Job(GetProgram(p, setting), {Own(p, setting)} \cup ACRs, ACRs, {})

\* A request is dispatched, or the interrupt comes.
Request(w) ==
  /\ requests < MaxRequests /\ requests' = requests + 1
  /\ events < MaxEvents /\ events' = events + 1
  /\ Cardinality(Busy) < MaxBusy /\ run[w] = Idle
  /\ power[w[1]].state = "D0"
  /\ UNCHANGED <<card, regs, ext, power>>

\* Between the end of an open and the beginning of a close.
Serves(p) ==
  ext[p]["Opened"] /\ \A w \in Workers : w[1] = p => Own(p, "Opened") \notin run[w].names

Set(w) ==
  /\ Request(w) /\ Serves(w[1])
  /\ \E a \in Asked : /\ a[1] = w[1] /\ a[2] # "Opened" /\ Takes(a[2], a[3])
                      /\ Begin(w, SetJob(a[1], a[2], a[3]), <<>>)

Get(w) ==
  /\ Request(w) /\ Serves(w[1])
  /\ \E a \in Asked : a[1] = w[1] /\ Gives(a[2]) /\ Begin(w, GetJob(a[1], a[2]), <<>>)

\* SerialMarkOpen sets the UART up, SerialSetLineControl among the rest.
Open(w) ==
  LET p == w[1]
      opened == {Own(p, s) : s \in {"Opened", "LineControl", "resumed"}}
  IN /\ <<p, "Opened", TRUE>> \in Asked
     /\ Request(w) /\ PortIdle(p) /\ ~ext[p]["Opened"]
     /\ Begin(w, Job(SetProgram(p, "Opened", TRUE)
                       \o <<PutLocked(Own(p, "LCR"), ext[p]["LineControl"])>>,
                     opened, opened, {}), <<>>)

Close(w) ==
  LET p == w[1]
  IN /\ <<p, "Opened", FALSE>> \in Asked
     /\ Request(w) /\ PortIdle(p) /\ ext[p]["Opened"]
     /\ Begin(w, SetJob(p, "Opened", FALSE), <<>>)

\* The interrupt of a port that sends asks for the room in the FIFO of the UART.
Fill(p) ==
  /\ p \in Senders /\ card = "FSCC" /\ Request(Driver(p)) /\ Serves(p)
  /\ Begin(Driver(p), Job(FillProgram(p), {Own(p, "ACR")}, {Own(p, "ACR")}, {}), <<>>)

\* The next access of a program.  Those at interrupt level wait for the interrupt.
\* (A port on its way to D0 has the registers that are its own for itself: its accesses
\* to them are one step with that to a shared register which follows.)
Step(w) ==
  LET p == w[1]
      code == run[w].code
      seen == {i \in DOMAIN code : code[i].reg[1] = "card"}
      taken == IF power[p].state # "entering" THEN 1
               ELSE IF seen = {} THEN Len(code) ELSE Min(seen)
      m == FoldLeft(LAMBDA n, i : After(n, p, i),
                    [regs |-> regs, ext |-> ext, saved |-> run[w].saved, got |-> run[w].got],
                    SubSeq(code, 1, taken))
  IN /\ code # <<>>
     /\ Head(code).do = "put locked" => run[Driver(p)].code = <<>>
     /\ regs' = m.regs /\ ext' = m.ext
     /\ run' = [run EXCEPT ![w] =
                  IF taken = Len(code) THEN [Idle EXCEPT !.todo = run[w].todo]
                  ELSE [@ EXCEPT !.code = SubSeq(code, taken + 1, Len(code)),
                                 !.saved = m.saved, !.got = m.got]]
     /\ UNCHANGED <<card, power, doubtful, requests, events>>

-----------------------------------------------------------------------------
(* Power                                                                   *)

\* The queues have been stopped: nothing of the port is under way.
D0Exit(p) ==
  /\ events < MaxEvents /\ events' = events + 1
  /\ power[p].state = "D0" /\ PortIdle(p)
  /\ power' = [power EXCEPT ![p] =
       IF ext[p]["Opened"]
       THEN [state |-> "Dx", LCR |-> regs[Own(p, "LCR")], MCR |-> regs[Own(p, "MCR")]]
       ELSE [@ EXCEPT !.state = "Dx"]]
  /\ UNCHANGED <<card, regs, ext, run, doubtful, requests>>

\* Once all its ports are out of D0 the card may lose what its registers hold.
\* External transmit and the UART's place in FCR are nowhere set again.
LosePower ==
  /\ \A p \in Ports : power[p].state = "Dx"
  /\ regs # ResetRegs /\ regs' = ResetRegs
  /\ doubtful' = doubtful \cup (Ports \X {"ExternalTransmit", "Opened"})
  /\ UNCHANGED <<card, ext, run, power, requests, events>>

\* The UART's state is restored, then SerialFcInit sets up the rest again, from the
\* extension; its clock is that of a new port.
D0Entry(p) ==
  LET restored == <<Put(Own(p, "MCR"), {}), Put(Own(p, "LCR"), power[p].LCR)>>
        \o (IF ext[p]["Opened"] THEN <<Put(Own(p, "MCR"), power[p].MCR)>> ELSE <<>>)
  IN /\ power[p].state = "Dx" /\ Cardinality(Busy) < MaxBusy
     /\ power' = [power EXCEPT ![p].state = "entering"]
     /\ Begin(Driver(p), Job(restored, {}, {}, {}), SerialFcInit)
     /\ UNCHANGED <<card, regs, ext, requests, events>>

\* Mutant: RS485 is not set up again.
EntryJobWithoutRS485(p, step) ==
  IF step \in {"Triggers", "Clock", "RS485"} THEN Job(InitTriggers(p), {}, {}, {Own(p, "resumed")})
  ELSE SetJob(p, step, ext[p][step])

EntryJob(p, step) ==
  CASE step = "Triggers" ->
         Job(InitTriggers(p), {}, {}, IF card = "FSCC" THEN {Own(p, "resumed")} ELSE {})
    [] step = "Clock" ->
         IF Takes(step, 0) THEN SetJob(p, step, DefaultClockRate) ELSE Job(<<>>, {}, {}, {})
    [] OTHER -> SetJob(p, step, ext[p][step])

EntryStep(p) ==
  LET todo == run[Driver(p)].todo
  IN /\ power[p].state = "entering" /\ run[Driver(p)].code = <<>>
     /\ Cardinality(Busy) < MaxBusy
     /\ todo # <<>> /\ Begin(Driver(p), EntryJob(p, Head(todo)), Tail(todo))
     /\ UNCHANGED <<card, regs, ext, power, requests, events>>

EntryDone(p) ==
  /\ power[p].state = "entering" /\ run[Driver(p)] = Idle
  /\ power' = [power EXCEPT ![p].state = "D0"]
  /\ UNCHANGED <<card, regs, ext, run, doubtful, requests, events>>

Next ==
  \/ \E w \in Handlers : Set(w) \/ Get(w) \/ Open(w) \/ Close(w)
  \/ \E w \in Workers : Step(w)
  \/ \E p \in Ports : Fill(p) \/ D0Exit(p) \/ D0Entry(p) \/ EntryStep(p) \/ EntryDone(p)
  \/ LosePower

Spec == Init /\ [][Next]_vars

-----------------------------------------------------------------------------
(* What the settings promise                                               *)

\* The registers say what the setting recorded says.
InForce(p, setting) ==
  LET value == ext[p][setting]
      own(r) == regs[Own(p, r)]
      flags(r) == regs[Shared(r)]
  IN CASE setting = "RS485" ->
            (CASE card = "PCI" -> /\ ("auto 485" \in own("FCTR")) = value
                                  /\ (Own(p, "RS485") \notin flags("MPIOLVL")) = value
               [] card = "PCIe" -> /\ ("auto 485" \in own("FCTR")) = value
                                   /\ ("485 by DTR" \in own("MCR")) = value
               [] card = "FSCC" -> /\ (ext[p]["ACR"] = 16) = value
                                   /\ (Own(p, "RS485") \in flags("FCR")) = value)
       [] setting = "SampleRate" ->
            (CASE card = "PCI" -> (p \in flags("8XMODE")) = (value = 8)
               [] card = "PCIe" -> /\ (p \in flags("4XMODE")) = (value = 4)
                                   /\ (p \in flags("8XMODE")) = (value = 8)
               [] card = "FSCC" -> own("TCR") = value)
       [] setting = "TxTrigger" -> own(IF card = "FSCC" THEN "TTL" ELSE "TXTRG") = value
       [] setting = "RxTrigger" -> own(IF card = "FSCC" THEN "RTL" ELSE "RXTRG") = value
       [] setting = "Termination" -> (Own(p, "Termination") \notin flags("MPIOLVL")) = value
       [] setting = "EchoCancel" ->
            (CASE card = "PCI" -> (Shared("EchoCancel") \in flags("MPIOLVL")) = value
               [] card = "PCIe" -> (p \in flags("MPIOLVLH")) = value
               [] card = "FSCC" -> (Own(p, "EchoCancel") \in flags("FCR")) = value)
       [] setting = "Isochronous" -> own("CKS") = CKSOf(value) /\ own("MDM") = MDMOf(value)
       [] setting = "FrameLength" -> own("FLR") = value - 1
       [] setting = "NineBit" -> own("NMR") = value
       [] setting = "ExternalTransmit" -> (own("EXTH") * 256) + own("EXT") = value
       [] setting = "Clock" -> regs[Generator(p)] = value
       [] setting = "ACR" -> own("ACR") = value
       [] setting = "Opened" -> (Own(p, "Opened") \in flags("FCR")) = value
       [] setting = "LineControl" -> own("LCR") = value

\* The settings with a register of the card, for each of its types.
HasRegister(setting) ==
  CASE setting = "LineControl" -> TRUE
    [] setting \in {"ACR", "Opened", "ExternalTransmit"} -> card = "FSCC"
    [] setting = "Clock" -> Takes(setting, 0)
    [] OTHER -> card # "UNKNOWN" /\ Takes(setting, Registry[setting])

\* Once nothing is under way on the card every setting is in force, across requests,
\* interrupts, opens and cycles of power, but for those at which two programs met: a
\* program that finds the registers its own leaves those of others as they were.
SettingsInForce ==
  Busy = {} =>
    \A p \in Ports, s \in Settings \cup {"ACR"} :
      (power[p].state = "D0" /\ HasRegister(s) /\ Own(p, s) \notin doubtful
         /\ (s = "LineControl" => ext[p]["Opened"] /\ Own(p, "resumed") \notin doubtful))
      => InForce(p, s)

\* A request that reads a setting from the card answers what was recorded, whatever
\* else runs on other registers, unless programs have met at the setting.
AnswersAreTrue ==
  \A w \in Handlers :
    (run[w].code # <<>> /\ Head(run[w].code).do = "answer") =>
      LET p == w[1]
          s == Head(run[w].code).reg[2]
          m == [regs |-> regs, ext |-> ext, saved |-> run[w].saved, got |-> run[w].got]
      IN Own(p, s) \notin doubtful => Given(p, s, m) = ext[p][s]

\* power.c:124-127: "Restore the state of the UART."  The line control of a port that
\* has come back to D0 is what it was.
LineControlRestored ==
  Busy = {} =>
    \A p \in Ports :
      (power[p].state = "D0" /\ ext[p]["Opened"] /\ Own(p, "LineControl") \notin doubtful)
        => InForce(p, "LineControl")
=============================================================================
