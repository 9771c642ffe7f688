------------------------------- MODULE It930x -------------------------------
(***************************************************************************)
(* The USB bridge of a px4 device (tunelith-driver-px4/src/it930x.rs): one *)
(* command at a time is sent and its reply waited for, while the bridge,   *)
(* which takes commands in order, may refuse one, damage or lose a reply,  *)
(* or answer after the driver stopped waiting, even to an open that comes  *)
(* later: nothing takes what is left in the endpoints away.  A procedure   *)
(* of the driver is the list of the commands it has yet to send, each with *)
(* what happens should it fail.                                            *)
(*                                                                         *)
(* A masked register is 2 * (its other bits) + the bit of the mask.        *)
(***************************************************************************)
EXTENDS Integers, SequencesExt

CONSTANTS
  SeqSpace,   \* the sequence numbers, 2^8
  MaxFaults,  \* bound: the faults of the bridge in an open, and procedures given up
  MaxOpens,   \* bound: the times the bridge is opened
  Blocks,     \* the blocks of the firmware
  Inputs,     \* the TS inputs in use: their ports, to the sync byte of each
  Gpios

\* Each fault leaves at most one reply behind; a number comes round again
\* only after SeqSpace of them.
ASSUME FaultsAssumption ==
  /\ SeqSpace \in Nat \ {0} /\ MaxFaults \in 0 .. SeqSpace - 1
  /\ MaxOpens \in Nat /\ Blocks \in Nat

\* The ports of the bridge, and its slaves, go from 0 to 4.
ASSUME InputsAssumption == DOMAIN Inputs \subseteq 0 .. 4

VARIABLES
  phase,     \* "closed", "opening" or "ready"
  todo,      \* the commands to send, the first of them perhaps sent
  waiting,   \* whether it was
  seq,       \* It930x::seq
  got,       \* the value of the last read
  result,    \* of the procedure, where it goes on after a failure
  purged,    \* how the last open or purge ended
  gpioOut, gpioOn,
  \* the bridge, and the wire
  out, in,   \* commands to take and replies to read
  fw,        \* "none", "running"
  blocks,    \* those written since it was plugged in
  regs,
  \* bounds and history
  faults, opens,
  whole,     \* whether all of the firmware was there as it booted
  clean,     \* whether no open since it was plugged in began with anything left over
  foreign    \* whether the reply to another command was taken since then

driver == <<phase, todo, waiting, seq, got, result, purged, gpioOut, gpioOn>>
bridge == <<fw, blocks, regs, whole>>
vars   == <<driver, bridge, out, in, faults, opens, clean, foreign>>

-----------------------------------------------------------------------------
(* Commands, and the procedures made of them.  `or` is what a failure      *)
(* leads to: "fail" ends the procedure, as does "load", which is skipped   *)
(* with firmware running; "retry" is tried again; "bracket" skips to the   *)
(* commands to "close", which all run; "ignore" goes on.                   *)

\* A register is its name, and which of several of that name.
Reg(name) == <<name, 0>>
Port(name, p) == <<name, p>>

Cmd(cmd, reg, value, or) == <<[cmd |-> cmd, reg |-> reg, value |-> value, or |-> or]>>
Ctrl(cmd, value, or) == Cmd(cmd, Reg("none"), value, or)

W(reg, value)        == Cmd("write", reg, value, "fail")
Masked(reg, bit, or) == Cmd("read", Reg(reg), bit, or) \o Cmd("merge", Reg(reg), bit, or)

WriteAll(settings) ==
  [i \in DOMAIN settings |-> W(settings[i][1], settings[i][2])[1]]

Raise == [i \in 1 .. 5 |-> Ctrl("raise", 0, IF i < 5 THEN "retry" ELSE "fail")[1]]

\* Mutant: a block that fails is passed over.
ScatterAnyway == [i \in 1 .. Blocks |-> Ctrl("scatter", i, "ignore")[1]]

Scatter == [i \in 1 .. Blocks |-> Ctrl("scatter", i, "load")[1]]

LoadFirmware ==
  Ctrl("query", 0, "fail") \o Cmd("write", Reg("f103"), 7, "load") \o Scatter
  \o Ctrl("boot", 0, "load") \o Ctrl("booted", 0, "load")

StreamOutput ==
  Masked("da1d", 1, "fail")
  \o Masked("dd11", 0, "bracket") \o Masked("dd13", 0, "bracket")
  \o Masked("dd11", 1, "bracket")
  \o Cmd("write", Reg("dd88"), 38352, "bracket") \o Cmd("write", Reg("dd0c"), 128, "bracket")
  \o Masked("da05", 0, "bracket") \o Masked("da06", 0, "bracket")
  \o Masked("da1d", 0, "close") \o Cmd("write", Reg("d920"), 0, "close")

InUse == DOMAIN Inputs

\* config_stream_input for a port: serial where it can be, told by sync byte.
StreamInput(p) ==
  IF p \notin InUse THEN W(Port("da4c", p), 0)
  ELSE WriteAll((IF p < 2 THEN << <<Port("da58", p), 0>> >> ELSE <<>>)
         \o << <<Port("da73", p), 1>>, <<Port("da78", p), Inputs[p]>>, <<Port("da4c", p), 1>> >>)

\* The chips of the inputs have an address each, at a slave of their own.
Slave(p) ==
  IF p \in InUse THEN << <<Port("addr", p), p>>, <<Port("bus", p), 1>> >> ELSE <<>>
Slaves == Slave(0) \o Slave(1) \o Slave(2) \o Slave(3) \o Slave(4)

Plain1 == << <<Reg("4976"), 0>>, <<Reg("4bfb"), 0>>, <<Reg("4978"), 0>>, <<Reg("4977"), 0>>, <<Reg("da1a"), 0>> >>
Plain2 == << <<Reg("d833"), 1>>, <<Reg("d830"), 0>>, <<Reg("d831"), 1>>, <<Reg("d832"), 0>> >>
I2cSpeed == << <<Reg("f6a7"), 7>>, <<Reg("f103"), 7>> >>

InitWarm ==
  WriteAll(Plain1)
  \o Masked("f41f", 1, "fail") \o Masked("da10", 0, "fail") \o Masked("f41a", 1, "fail")
  \o StreamOutput
  \o WriteAll(Plain2) \o WriteAll(I2cSpeed \o Slaves)
  \o StreamInput(0) \o StreamInput(1) \o StreamInput(2) \o StreamInput(3) \o StreamInput(4)

OpenBridge == Raise \o Cmd("eeprom", Reg("4979"), 0, "fail") \o LoadFirmware \o InitWarm

MaskedRegs ==
  {Reg(r) : r \in {"f41f", "da10", "f41a", "da1d", "dd11", "dd13", "da05", "da06"}}
PlainRegs  == {OpenBridge[i].reg : i \in DOMAIN OpenBridge} \ (MaskedRegs \cup {Reg("none"), Reg("4979")})
GpioRegs   == {"mode", "on", "level"} \X Gpios
Registers  == MaskedRegs \cup PlainRegs \cup GpioRegs \cup {Reg("4979")}

\* As it is plugged in: its other bits may be what they like, and so may the
\* EEPROM.
Unplugged(other, eeprom) ==
  [r \in Registers |-> CASE r \in MaskedRegs -> other * 2 + 1
                         [] r \in PlainRegs -> -1
                         [] r \in GpioRegs -> 0
                         [] OTHER -> eeprom]

Init ==
  /\ phase = "closed" /\ todo = <<>> /\ waiting = FALSE
  /\ seq = 0 /\ got = 0 /\ result = "ok" /\ purged = "ok"
  /\ gpioOut = {} /\ gpioOn = {}
  /\ out = <<>> /\ in = <<>>
  /\ fw = "none" /\ blocks = {} /\ whole = FALSE
  /\ \E other, eeprom \in 0 .. 1 : regs = Unplugged(other, eeprom)
  /\ faults = 0 /\ opens = 0 /\ clean = TRUE /\ foreign = FALSE

-----------------------------------------------------------------------------
(* The driver.                                                             *)

\* What is left of commands after those at their head that are alike in a field.
After(q, field, value) ==
  {SubSeq(q, n, Len(q)) :
     n \in {m \in 1 .. Len(q) + 1 : /\ \A i \in 1 .. m - 1 : q[i][field] = value
                                    /\ m <= Len(q) => q[m][field] # value}}

\* What is left to do once a procedure came to `rest`; a failure that it went
\* on after ends it before the next command that must not fail.
GoOn(rest, res) ==
  LET ends == rest = <<>> \/ (res = "failed" /\ rest[1].or \in {"fail", "load"})
      fails == ends /\ res = "failed"
  IN  /\ todo' = IF ends THEN <<>> ELSE rest
      /\ result' = IF ends THEN "ok" ELSE res
      /\ phase' = IF ~ends \/ phase = "ready" THEN phase
                  ELSE IF fails THEN "closed" ELSE "ready"
      /\ purged' = IF ends /\ (phase = "opening" \/ todo[1].or = "ignore"
                                \/ todo[1].reg = Reg("da1d"))
                   THEN res ELSE purged

\* Mutant: the write goes on with what was read before.
WriteAnyway(c) == Tail(todo)

\* A failed read_reg of a write_reg_mask takes the write with it.
SkipMerge(c) == IF c.cmd = "read" THEN SubSeq(todo, 3, Len(todo)) ELSE Tail(todo)

Failure ==
  LET c == todo[1]
      next == SkipMerge(c)
  IN  /\ waiting' = FALSE
      /\ out' = [i \in DOMAIN out |-> [out[i] EXCEPT !.fresh = FALSE]]
      /\ UNCHANGED <<got, gpioOut, gpioOn>>
      /\ CASE c.or \in {"fail", "load"} -> GoOn(<<>>, "failed")
           [] c.or = "retry"   -> GoOn(Tail(todo), result)
           [] c.or = "bracket" ->
                \E rest \in After(next, "or", "bracket") : GoOn(rest, "failed")
           [] c.or = "close"   -> GoOn(next, "failed")
           [] OTHER            -> GoOn(next, IF result = "failed" THEN result ELSE "ignored")

Success(value) ==
  LET c == todo[1]
      next == Tail(todo)
  IN  /\ waiting' = FALSE
      /\ got' = IF c.cmd = "read" THEN value ELSE 0
      /\ gpioOut' = IF c.reg[1] = "mode" THEN gpioOut \cup {c.reg[2]} ELSE gpioOut
      /\ gpioOn' = IF c.reg[1] = "on" THEN gpioOn \cup {c.reg[2]} ELSE gpioOn
      /\ UNCHANGED out
      /\ \E rest \in CASE c.cmd = "raise" -> After(next, "cmd", "raise")
                       [] c.cmd = "query" /\ value # 0 -> After(next, "or", "load")
                       [] OTHER -> {next} :
           GoOn(rest, result)

\* The bytes a command is answered with.
Bytes(cmd) == CASE cmd \in {"raise", "query", "booted"} -> 4
                [] cmd \in {"read", "eeprom"} -> 1
                [] OTHER -> 0

\* What a command that came to be answered still fails for.
Unfit(c, r) == \/ r.bytes < Bytes(c.cmd)
               \/ c.cmd \in {"eeprom", "booted"} /\ r.value = 0

Sent == (seq + SeqSpace - 1) % SeqSpace

\* ctrl, up to the bulk transfer out.
Send ==
  /\ todo # <<>> /\ ~waiting /\ todo[1].cmd # "drain"
  /\ LET c == todo[1]
         value == IF c.cmd = "merge" THEN (got - (got % 2)) + c.value ELSE c.value
     IN  out' = Append(out, [cmd |-> c.cmd, reg |-> c.reg, value |-> value,
                             seq |-> seq, fresh |-> TRUE])
  /\ waiting' = TRUE
  /\ seq' = (seq + 1) % SeqSpace
  /\ UNCHANGED <<phase, todo, got, result, purged, gpioOut, gpioOn, bridge, in, faults,
                 opens, clean, foreign>>

\* A transfer out that fails, or a block of firmware that is not one, of
\* which nothing is sent.
NotSent ==
  /\ todo # <<>> /\ ~waiting /\ todo[1].cmd # "drain"
  /\ faults < MaxFaults /\ faults' = faults + 1
  /\ Failure
  /\ \/ todo[1].cmd = "scatter" /\ UNCHANGED seq
     \/ seq' = (seq + 1) % SeqSpace
  /\ UNCHANGED <<bridge, in, opens, clean, foreign>>

\* Mutant: the number is not looked at.
AcceptedAnyNumber(r) == r.ok

\* ctrl: a reply is taken that is whole, of the number sent, and no failure.
Accepted(r) == r.seq = Sent /\ r.ok

TakeReply ==
  /\ waiting /\ in # <<>>
  /\ in' = [i \in DOMAIN Tail(in) |-> [Tail(in)[i] EXCEPT !.fresh = FALSE]]
  /\ LET r == Head(in) IN
       /\ foreign' = (foreign \/ (Accepted(r) /\ ~r.fresh))
       /\ IF Accepted(r) /\ ~Unfit(todo[1], r) THEN Success(r.value) ELSE Failure
  /\ UNCHANGED <<seq, bridge, faults, opens, clean>>

\* The three seconds for a reply pass.
TimesOut ==
  /\ waiting /\ in = <<>>
  /\ faults < MaxFaults /\ faults' = faults + 1
  /\ Failure
  /\ UNCHANGED <<seq, bridge, in, opens, clean, foreign>>

\* The call of a procedure is dropped, or the process ends: nothing more of it
\* is sent, and nobody reads what is yet to come.
GivenUp ==
  /\ todo # <<>> /\ faults < MaxFaults /\ faults' = faults + 1
  /\ GoOn(<<>>, "failed")
  /\ waiting' = FALSE
  /\ out' = [i \in DOMAIN out |-> [out[i] EXCEPT !.fresh = FALSE]]
  /\ in' = [i \in DOMAIN in |-> [in[i] EXCEPT !.fresh = FALSE]]
  /\ UNCHANGED <<seq, got, gpioOut, gpioOn, bridge, opens, clean, foreign>>

\* open_bridge.  The numbers begin again; what is left in the endpoints stays.
Open ==
  /\ phase = "closed" /\ opens < MaxOpens
  /\ phase' = "opening" /\ todo' = OpenBridge
  /\ seq' = 0 /\ got' = 0 /\ gpioOut' = {} /\ gpioOn' = {}
  /\ faults' = 0 /\ opens' = opens + 1
  /\ clean' = (clean /\ in = <<>> /\ out = <<>>)
  /\ UNCHANGED <<waiting, result, purged, out, in, bridge, foreign>>

Close ==
  /\ phase = "ready" /\ todo = <<>> /\ phase' = "closed"
  /\ UNCHANGED <<todo, waiting, seq, got, result, purged, gpioOut, gpioOn, bridge, out, in,
                 faults, opens, clean, foreign>>

Begin(procedure) ==
  /\ phase = "ready" /\ todo = <<>> /\ procedure # <<>>
  /\ todo' = procedure
  /\ UNCHANGED <<phase, waiting, seq, got, result, purged, gpioOut, gpioOn, bridge, out, in,
                 faults, opens, clean, foreign>>

GpioOutput(g) ==
  Begin((IF g \in gpioOut THEN <<>> ELSE W(<<"mode", g>>, 1))
        \o (IF g \in gpioOn THEN <<>> ELSE W(<<"on", g>>, 1)))

WriteGpio(g) == g \in gpioOut /\ \E high \in 0 .. 1 : Begin(W(<<"level", g>>, high))

\* I2cBus: a write, and a read from where it put the chip.
WriteRead == Begin(Ctrl("i2c_write", 0, "fail") \o Ctrl("i2c_read", 0, "fail"))

PurgePsb == Begin(Masked("da1d", 1, "fail") \o Ctrl("drain", 0, "ignore")
                  \o Masked("da1d", 0, "ignore"))

\* purge_psb reads a transfer of the stream, for two seconds at most; without
\* the endpoint it goes no further.
Drain ==
  /\ todo # <<>> /\ ~waiting /\ todo[1].cmd = "drain"
  /\ \/ \E r \in {"ok", "failed"} : GoOn(Tail(todo), r)
     \/ GoOn(<<>>, "failed")
  /\ UNCHANGED <<waiting, seq, got, gpioOut, gpioOn, bridge, out, in, faults, opens, clean, foreign>>

-----------------------------------------------------------------------------
(* The bridge.                                                             *)

Effect(c) ==
  /\ fw' = IF c.cmd = "boot" THEN "running" ELSE fw
  /\ whole' = IF c.cmd = "boot" THEN blocks = 1 .. Blocks ELSE whole
  /\ blocks' = IF c.cmd = "scatter" THEN blocks \cup {c.value} ELSE blocks
  /\ regs' = IF c.cmd \in {"write", "merge"} THEN [regs EXCEPT ![c.reg] = c.value] ELSE regs

Answer(c) ==
  CASE c.cmd \in {"raise", "query", "booted"} -> IF fw = "running" THEN 1 ELSE 0
    [] c.cmd \in {"read", "eeprom"} -> regs[c.reg]
    [] OTHER -> 0

Reply(c, ok) == Append(in, [seq |-> c.seq, ok |-> ok, value |-> Answer(c),
                            bytes |-> Bytes(c.cmd), fresh |-> c.fresh])

\* The bridge takes a command: does it and says so, or fails in one way.
Obey ==
  /\ out # <<>> /\ out' = Tail(out)
  /\ LET c == Head(out) IN
       \/ Effect(c) /\ in' = Reply(c, TRUE) /\ UNCHANGED faults
       \/ /\ faults < MaxFaults /\ faults' = faults + 1
          /\ \/ Effect(c) /\ in' = Reply(c, FALSE)
             \/ Effect(c) /\ UNCHANGED in
             \/ UNCHANGED bridge /\ in' = Reply(c, FALSE)
  /\ UNCHANGED <<driver, opens, clean, foreign>>

\* The device loses its power, and with it all it was told or had to say.
Replug ==
  /\ phase = "closed" /\ opens \in 1 .. MaxOpens - 1
  /\ fw' = "none" /\ blocks' = {} /\ whole' = FALSE
  /\ \E other, eeprom \in 0 .. 1 : regs' = Unplugged(other, eeprom)
  /\ out' = <<>> /\ in' = <<>> /\ clean' = TRUE /\ foreign' = FALSE
  /\ UNCHANGED <<driver, faults, opens>>

Next ==
  \/ Send \/ NotSent \/ TakeReply \/ TimesOut \/ GivenUp \/ Open \/ Close
  \/ \E g \in Gpios : GpioOutput(g) \/ WriteGpio(g)
  \/ WriteRead \/ PurgePsb \/ Drain \/ Obey \/ Replug

Spec == Init /\ [][Next]_vars

-----------------------------------------------------------------------------
(* Properties.                                                             *)

\* The number in a reply (it930x.rs:94) is enough for no command to be taken
\* for done by the reply to another, as long as no open began with anything of
\* the one before on its way or unread.
OwnReply == clean => ~foreign

\* What the number is checked for: "control response out of sequence"
\* (it930x.rs:94).  It begins at 0 again with every open (it930x.rs:58), so a
\* reply left over by an open before may have the number of a command of this.
RepliesAreOwn == ~foreign

\* However the loading of the firmware was cut short, and by whom, and whatever
\* was left over by it, the bridge boots only the whole of it (it930x.rs:171),
\* unless a command was taken for done by the reply to another.
BootsWhole == (~foreign /\ fw = "running") => whole

Settled == Plain1 \o Plain2 \o I2cSpeed \o Slaves

\* A bridge that open_bridge returned is set up in full (board.rs:327), also
\* where an open before failed midway or was given up, and left commands and
\* replies over, and the driver's idea of its GPIOs is true; its buffer is out
\* of reset unless a purge failed (it930x.rs:330).
ReadyIsWarm ==
  (~foreign /\ phase = "ready" /\ out = <<>>) =>
    /\ fw = "running"
    /\ \A i \in DOMAIN Settled : regs[Settled[i][1]] = Settled[i][2]
    /\ regs[Reg("dd88")] = 38352 /\ regs[Reg("dd0c")] = 128 /\ regs[Reg("d920")] = 0
    /\ \A r \in {"f41f", "f41a", "dd11"} : regs[Reg(r)] % 2 = 1
    /\ \A r \in {"da10", "dd13", "da05", "da06"} : regs[Reg(r)] % 2 = 0
    /\ \A p \in 0 .. 4 : regs[Port("da4c", p)] = (IF p \in InUse THEN 1 ELSE 0)
    /\ \A p \in InUse : regs[Port("da73", p)] = 1 /\ regs[Port("da78", p)] = Inputs[p]
    /\ (todo = <<>> /\ purged = "ok") => regs[Reg("da1d")] % 2 = 0
    /\ \A g \in gpioOut : regs[<<"mode", g>>] = 1
    /\ \A g \in gpioOn : regs[<<"on", g>>] = 1
    \* and what the masks leave out is as it was
    /\ \A r, s \in MaskedRegs : regs[r] \div 2 = regs[s] \div 2

=============================================================================
