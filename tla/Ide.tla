-------------------------------- MODULE Ide --------------------------------
(***************************************************************************)
(* The disk driver of CrabOS, kernel/src/device/ide.rs, and the two drives *)
(* behind its I/O ports.                                                   *)
(*                                                                         *)
(* The driver polls the status register; between any two of its port       *)
(* accesses a drive may finish the work it is busy with.  What a drive     *)
(* does (BUSY from a command until it has data or an error, DATA_REQUEST   *)
(* for each sector, ERROR until the next command) is external: it is what  *)
(* the ATA standard says about the commands the driver uses.  select()     *)
(* holds the channel's Mutex, a critical section, until its caller         *)
(* returns, so one operation uses the ports at a time.                     *)
(***************************************************************************)
EXTENDS Naturals, Sequences

CONSTANTS
  Drives,       \* Drive::A and Drive::B
  Kinds,        \* the machines: each drive is "ata", "atapi" or "none"
  Clients,      \* parts of the kernel that open drives
  ByteSize,     \* 256: the values of one port
  Lbas,         \* the sector numbers asked for
  Counts        \* the numbers of sectors asked for; no caller asks for none,
                \* which the drive would take for 256 and never hand over

MaxLba == ByteSize * ByteSize * ByteSize - 1        \* 0x00ffffff

ASSUME IdeAssumption ==
  /\ ByteSize \in Nat /\ ByteSize > 1
  /\ Kinds \subseteq [Drives -> {"ata", "atapi", "none"}]
  /\ Lbas \subseteq Nat
  /\ Counts \subseteq Nat \ {0}

VARIABLES
  kind,         \* the drives of this machine, which nothing changes
  busyness,     \* IdeChannel::a and b
  opened,       \* the IdeDrive values that exist: <<client, drive>>
  ports,        \* the registers shared by the drives
  dev,          \* the drives: status bits, and the command being executed
  pc,
  job,          \* the operation in progress, or the last one
  ret           \* what it returned

vars == <<kind, busyness, opened, ports, dev, pc, job, ret>>

Idle(d) == [busy |-> FALSE, ready |-> kind[d] # "none", drq |-> FALSE, err |-> FALSE,
            cmd |-> "none", at |-> 0, left |-> 0]

Init ==
  /\ kind \in Kinds
  /\ busyness = [d \in Drives |-> FALSE]
  /\ opened = {}
  /\ \E d \in Drives : ports = [select |-> d, seccount0 |-> 0, lba0 |-> 0, lba1 |-> 0, lba2 |-> 0]
  /\ dev = [d \in Drives |-> Idle(d)]
  /\ pc = "idle"
  /\ \E d \in Drives : job = [op |-> "none", drive |-> d, lba |-> 0, count |-> 0, buffs |-> <<>>]
  /\ ret = "none"

\* The drive the ports refer to.
Selected == dev[ports.select]

-----------------------------------------------------------------------------
(* The drives (external).                                                  *)

\* A command is written: the drive clears its error and gets busy.
Accept(d, cmd) ==
  IF kind[d] = "none" THEN dev[d]
  ELSE [dev[d] EXCEPT !.busy = TRUE, !.err = FALSE, !.drq = FALSE, !.cmd = cmd,
          !.at = ports.lba0 + ByteSize * (ports.lba1 + ByteSize * ports.lba2),
          !.left = IF cmd = "identify" THEN 1
                   ELSE IF ports.seccount0 = 0 THEN ByteSize ELSE ports.seccount0]

\* A busy drive has its next sector ready.
DeviceReady(d) ==
  /\ dev[d].busy
  /\ kind[d] = "ata"
  /\ dev' = [dev EXCEPT ![d].busy = FALSE, ![d].drq = TRUE]
  /\ UNCHANGED <<kind, busyness, opened, ports, pc, job, ret>>

\* Or it gives up, as a drive that is not ATA does on every ATA command.
DeviceFails(d) ==
  /\ dev[d].busy
  /\ dev' = [dev EXCEPT ![d].busy = FALSE, ![d].err = TRUE, ![d].left = 0]
  /\ UNCHANGED <<kind, busyness, opened, ports, pc, job, ret>>

\* On identify such a drive may instead leave its signature in the ports.
DeviceSigns(d) ==
  /\ dev[d].busy
  /\ kind[d] = "atapi" /\ dev[d].cmd = "identify"
  /\ dev' = [dev EXCEPT ![d].busy = FALSE, ![d].left = 0]
  /\ ports' = [ports EXCEPT !.lba1 = 1, !.lba2 = 1]
  /\ UNCHANGED <<kind, busyness, opened, pc, job, ret>>

\* The 256 words of a sector have been read from the data port.
Drained(d) ==
  [dev[d] EXCEPT !.drq = FALSE, !.busy = dev[d].left > 1,
                 !.left = dev[d].left - 1, !.at = dev[d].at + 1]

\* What those words are.
DataOf(d) ==
  IF ~dev[d].drq THEN <<"garbage">>
  ELSE IF dev[d].cmd = "identify" THEN <<"identity", d>>
  ELSE <<"sector", d, dev[d].at>>

-----------------------------------------------------------------------------
(* IdeChannel::open and IdeDrive::drop.                                    *)

Open(c, d) ==
  /\ pc = "idle"
  /\ IF busyness[d]
     THEN /\ ret' = "DriveBusy"
          /\ UNCHANGED <<busyness, opened>>
     ELSE /\ busyness' = [busyness EXCEPT ![d] = TRUE]
          /\ opened' = opened \cup {<<c, d>>}
          /\ ret' = "Ok"
  /\ job' = [job EXCEPT !.op = "open"]
  /\ UNCHANGED <<kind, ports, dev, pc>>

\* Mutant: every drop clears the flag of all drives.
BugDropAll(c, d) ==
  /\ pc = "idle"
  /\ <<c, d>> \in opened
  /\ opened' = opened \ {<<c, d>>}
  /\ busyness' = [e \in Drives |-> FALSE]
  /\ UNCHANGED <<kind, ports, dev, pc, job, ret>>

DropDrive(c, d) ==
  /\ pc = "idle"
  /\ <<c, d>> \in opened
  /\ opened' = opened \ {<<c, d>>}
  /\ busyness' = [busyness EXCEPT ![d] = FALSE]
  /\ UNCHANGED <<kind, ports, dev, pc, job, ret>>

-----------------------------------------------------------------------------
(* IdeDrive::read_sectors and IdeDrive::detect.                            *)

Return(r) ==
  /\ pc' = "idle"
  /\ ret' = r

\* The address and the number of buffers are checked, then select() writes
\* device_select and waits.
ReadSectors(c, d) ==
  /\ pc = "idle"
  /\ <<c, d>> \in opened
  /\ \E lba \in Lbas, n \in Counts :
       /\ job' = [op |-> "read", drive |-> d, lba |-> lba, count |-> n, buffs |-> <<>>]
       /\ IF lba > MaxLba - 1 \/ n > ByteSize - 1
          THEN pc' = "panic" /\ UNCHANGED ports
          ELSE pc' = "wait idle" /\ ports' = [ports EXCEPT !.select = d]
  /\ ret' = "none"
  /\ UNCHANGED <<kind, busyness, opened, dev>>

\* wait_command: spin while the drive is busy; an error ends the operation.
WaitCommand(from, required, to) ==
  /\ pc = from
  /\ ~Selected.busy
  /\ IF Selected.err
     THEN Return("AtaError")
     ELSE required /\ pc' = to /\ UNCHANGED ret
  /\ UNCHANGED <<kind, busyness, opened, ports, dev, job>>

WaitIdle == WaitCommand("wait idle", TRUE, "address")

\* Byte i of usize::to_le_bytes.
LbaByte(lba, i) == (lba \div <<1, ByteSize, ByteSize * ByteSize>>[i + 1]) % ByteSize

\* Mutant: one sector more than there are buffers is asked for.
BugOneMore(n) == n + 1

SecCount(n) == n % ByteSize

WriteAddress ==
  /\ pc = "address"
  /\ ports' = [ports EXCEPT !.seccount0 = SecCount(job.count),
                            !.lba0 = LbaByte(job.lba, 0),
                            !.lba1 = LbaByte(job.lba, 1),
                            !.lba2 = LbaByte(job.lba, 2)]
  /\ pc' = "wait ready"
  /\ UNCHANGED <<kind, busyness, opened, dev, job, ret>>

\* Mutant: the drive is asked for data before the command.
BugWaitData == WaitCommand("wait ready", Selected.drq, "read pio")

WaitReady == WaitCommand("wait ready", Selected.ready, "read pio")

WriteReadPio ==
  /\ pc = "read pio"
  /\ dev' = [dev EXCEPT ![ports.select] = Accept(ports.select, "read")]
  /\ pc' = "wait data"
  /\ UNCHANGED <<kind, busyness, opened, ports, job, ret>>

\* Mutant: the drive is waited for before the first sector only.
BugWaitOnce ==
  \/ job.buffs = <<>> /\ WaitCommand("wait data", Selected.drq, "data")
  \/ /\ pc = "wait data" /\ job.buffs # <<>>
     /\ pc' = "data"
     /\ UNCHANGED <<kind, busyness, opened, ports, dev, job, ret>>

WaitData == WaitCommand("wait data", Selected.drq, "data")

\* read_pio_data for the next buffer.
ReadPioData ==
  /\ pc = "data"
  /\ job' = [job EXCEPT !.buffs = Append(job.buffs, DataOf(ports.select))]
  /\ dev' = [dev EXCEPT ![ports.select] = Drained(ports.select)]
  /\ IF Len(job.buffs) + 1 = job.count
     THEN Return("Ok")
     ELSE pc' = "wait data" /\ UNCHANGED ret
  /\ UNCHANGED <<kind, busyness, opened, ports>>

Detect(c, d) ==
  /\ pc = "idle"
  /\ <<c, d>> \in opened
  /\ job' = [op |-> "detect", drive |-> d, lba |-> 0, count |-> 1, buffs |-> <<>>]
  /\ ports' = [select |-> d, seccount0 |-> 0, lba0 |-> 0, lba1 |-> 0, lba2 |-> 0]
  /\ pc' = "identify"
  /\ ret' = "none"
  /\ UNCHANGED <<kind, busyness, opened, dev>>

WriteIdentify ==
  /\ pc = "identify"
  /\ dev' = [dev EXCEPT ![ports.select] = Accept(ports.select, "identify")]
  /\ pc' = "wait identify"
  /\ UNCHANGED <<kind, busyness, opened, ports, job, ret>>

\* The status that comes back has DRIVE_READY: it is never the empty one that
\* would mean that there is no drive.
WaitIdentify == WaitCommand("wait identify", Selected.ready, "signature")

\* A drive whose signature is not that of an ATA drive is left alone.
CheckSignature ==
  /\ pc = "signature"
  /\ IF ports.lba1 # 0 \/ ports.lba2 # 0
     THEN Return("NotAta")
     ELSE pc' = "data" /\ UNCHANGED ret
  /\ UNCHANGED <<kind, busyness, opened, ports, dev, job>>

\* Where there is no drive the status stays 0, and wait_command reads it again.
Spin ==
  /\ pc \in {"wait ready", "wait identify"}
  /\ kind[ports.select] = "none"
  /\ UNCHANGED vars

Halted ==
  /\ pc = "panic"
  /\ UNCHANGED vars

Driver ==
  \/ WaitIdle \/ WriteAddress \/ WaitReady \/ WriteReadPio \/ WaitData \/ ReadPioData
  \/ WriteIdentify \/ WaitIdentify \/ CheckSignature

Device(d) == DeviceReady(d) \/ DeviceFails(d) \/ DeviceSigns(d)

Next ==
  \/ Driver
  \/ Spin
  \/ Halted
  \/ \E d \in Drives : Device(d)
  \/ \E c \in Clients, d \in Drives :
       Open(c, d) \/ DropDrive(c, d) \/ ReadSectors(c, d) \/ Detect(c, d)

Spec == Init /\ [][Next]_vars

\* The processor keeps running the driver, and a drive does not stay busy.
FairSpec == Spec /\ WF_vars(Driver) /\ \A d \in Drives : WF_vars(Device(d))

-----------------------------------------------------------------------------
(* Properties.                                                             *)

\* Every port holds one byte and every variable a value of its kind.
TypeOK ==
  /\ busyness \in [Drives -> BOOLEAN]
  /\ opened \subseteq Clients \X Drives
  /\ ports \in [select: Drives, seccount0: 0 .. ByteSize - 1, lba0: 0 .. ByteSize - 1,
                lba1: 0 .. ByteSize - 1, lba2: 0 .. ByteSize - 1]
  /\ \A d \in Drives : dev[d].at \in Nat /\ dev[d].left \in 0 .. ByteSize
  /\ pc \in {"idle", "wait idle", "address", "wait ready", "read pio", "wait data",
             "data", "identify", "wait identify", "signature", "panic"}
  /\ ret \in {"none", "Ok", "DriveBusy", "AtaError", "NotAta"}

\* The state has its type, and a drive has one IdeDrive at most and its flag says
\* whether it has one, however opens and drops of the two drives are mixed.
OneOwner ==
  TypeOK /\ \A d \in Drives :
    /\ busyness[d] <=> \E c \in Clients : <<c, d>> \in opened
    /\ \A b, c \in Clients : <<b, d>> \in opened /\ <<c, d>> \in opened => b = c

\* Commands are written to a drive that is not busy and has no data left to hand
\* over, and the data port is read only when the drive the operation is for has
\* data, whatever the operation before it left behind.
PortsUsedInTurn ==
  /\ pc \in {"read pio", "identify"} => ~Selected.busy /\ ~Selected.drq
  /\ pc = "data" => Selected.drq
  /\ pc # "idle" /\ pc # "panic" => ports.select = job.drive

\* A read that succeeds has filled the buffers with the sectors asked for, in
\* order and from the right drive, and leaves the drive idle.
ReadsWhatWasAsked ==
  (pc = "idle" /\ ret = "Ok" /\ job.op = "read") =>
    /\ job.buffs = [i \in 1 .. job.count |-> <<"sector", job.drive, job.lba + i - 1>>]
    /\ dev[job.drive].left = 0 /\ ~dev[job.drive].busy

\* read_sectors and detect return, whatever the drive does and when: no status is
\* waited for that it does not reach.  The one exception is a drive that does not
\* exist: detect tests for the empty status of a missing drive (ide.rs:245) after
\* a wait that only ends with DRIVE_READY.
OperationReturns ==
  (pc \notin {"idle", "panic"}) ~>
    (pc \in {"idle", "panic"} \/ kind[job.drive] = "none")
=============================================================================
