----------------------------- MODULE IdeProofs -----------------------------
(***************************************************************************)
(* Proofs about the disk driver, for any number of drives and clients, any *)
(* size of a byte and all addresses and counts.                            *)
(***************************************************************************)
EXTENDS Ide, TLAPS

(***************************************************************************)
(* The inductive invariant.  The properties say what holds when a port is  *)
(* used; why it does is what the drives have left to do: only the drive of *)
(* the operation in progress has work left (DevicesFit), and it is the     *)
(* part of the job that the buffers lack (OnTheWay).                       *)
(***************************************************************************)
Words ==
  {<<"garbage">>} \cup ({"identity"} \X Drives) \cup ({"sector"} \X Drives \X Nat)

Status ==
  [busy: BOOLEAN, ready: BOOLEAN, drq: BOOLEAN, err: BOOLEAN,
   cmd: {"none", "read", "identify"}, at: Nat, left: Nat]

Jobs ==
  [op: {"none", "open", "read", "detect"}, drive: Drives, lba: Nat, count: Nat, buffs: Seq(Words)]

Types ==
  /\ TypeOK
  /\ kind \in [Drives -> {"ata", "atapi", "none"}]
  /\ dev \in [Drives -> Status]
  /\ job \in Jobs

DeviceFits(d) ==
  /\ dev[d].left <= ByteSize
  /\ dev[d].ready <=> kind[d] # "none"
  /\ dev[d].busy => ~dev[d].drq /\ ~dev[d].err /\ kind[d] # "none"
  /\ dev[d].drq => ~dev[d].err /\ kind[d] = "ata"
  /\ dev[d].left > 0 <=> dev[d].busy \/ dev[d].drq
  /\ dev[d].left > 0 => d = job.drive /\ pc \in {"wait data", "data", "wait identify", "signature"}

DevicesFit == \A d \in Drives : DeviceFits(d)

Reading == job.op = "read" /\ pc \notin {"idle", "panic"}

\* The ports name the first sector of the job and their number.
Addressed ==
  /\ ports.seccount0 = job.count
  /\ job.lba = ports.lba0 + ByteSize * (ports.lba1 + ByteSize * ports.lba2)

\* The buffers have the sectors from the first on, and the drive has the others.
Filled ==
  \A i \in 1 .. Len(job.buffs) : job.buffs[i] = <<"sector", job.drive, job.lba + i - 1>>

OnTheWay ==
  /\ dev[job.drive].cmd = "read"
  /\ dev[job.drive].at = job.lba + Len(job.buffs)
  /\ dev[job.drive].left = job.count - Len(job.buffs)

ReadFits ==
  /\ pc \in {"wait idle", "address", "wait ready", "read pio", "wait data"} => job.op = "read"
  /\ Reading => job.count \in 1 .. ByteSize - 1 /\ job.lba < MaxLba
  /\ pc \in {"wait idle", "address", "wait ready", "read pio"} => job.buffs = <<>>
  /\ pc \in {"wait ready", "read pio"} => Addressed
  /\ pc = "read pio" => kind[job.drive] # "none"
  /\ Reading /\ pc \in {"wait data", "data"} =>
       Filled /\ Len(job.buffs) < job.count /\ (dev[job.drive].err \/ OnTheWay)
  /\ pc = "idle" /\ ret = "Ok" /\ job.op = "read" => Filled /\ Len(job.buffs) = job.count

DetectFits ==
  /\ pc \in {"identify", "wait identify", "signature"} => job.op = "detect"
  /\ pc = "data" => job.op \in {"read", "detect"} /\ dev[job.drive].drq
  /\ pc \notin {"idle", "panic"} /\ job.op = "detect" => job.count = 1 /\ job.buffs = <<>>
  /\ pc = "identify" => ports.lba1 = 0 /\ ports.lba2 = 0
  /\ pc \in {"wait identify", "signature"} =>
       IF dev[job.drive].left > 0
       THEN dev[job.drive].left = 1 /\ ports.lba1 = 0 /\ ports.lba2 = 0
       ELSE ports.lba1 # 0 \/ dev[job.drive].err \/ kind[job.drive] = "none"
  /\ pc = "signature" => ~dev[job.drive].busy /\ ~dev[job.drive].err /\ kind[job.drive] # "none"
  /\ pc = "data" /\ job.op = "detect" => dev[job.drive].left = 1

SelectFits == pc \notin {"idle", "panic"} => ports.select = job.drive

Owners ==
  \A d \in Drives :
    /\ busyness[d] <=> \E c \in Clients : <<c, d>> \in opened
    /\ \A b, c \in Clients : <<b, d>> \in opened /\ <<c, d>> \in opened => b = c

IInv == Types /\ Owners /\ DevicesFit /\ SelectFits /\ ReadFits /\ DetectFits

-----------------------------------------------------------------------------
(* Facts about the definitions.                                            *)

\* What the proofs below need of the assumption on the size of a byte.
LEMMA SizeFacts == ByteSize \in Nat /\ ByteSize > 1
  BY IdeAssumption

\* Division with a remainder.
LEMMA Division ==
  ASSUME NEW b \in Nat \ {0}, NEW x \in Nat
  PROVE  /\ x = b * (x \div b) + (x % b)
         /\ x % b \in 0 .. b - 1
         /\ x \div b \in Nat
  OBVIOUS

\* A number written as a multiple of b and a rest below b has that quotient.
LEMMA Quotient ==
  ASSUME NEW b \in Nat \ {0}, NEW x \in Nat, NEW q \in Nat, NEW r \in 0 .. b - 1, x = b * q + r
  PROVE  x \div b = q
  OBVIOUS

\* The second division of an address is a division of the first quotient.
LEMMA SquareQuotient ==
  ASSUME NEW b \in Nat \ {0}, NEW x \in Nat
  PROVE  x \div (b * b) = (x \div b) \div b
  <1> DEFINE q == x \div b
             p == q \div b
  <1>1. x = b * q + (x % b) /\ (x % b) \in 0 .. b - 1 /\ q \in Nat
    BY Division
  <1>2. q = b * p + (q % b) /\ (q % b) \in 0 .. b - 1 /\ p \in Nat
    BY Division, <1>1
  <1> HIDE DEF q, p
  <1>3. x = (b * b) * p + (b * (q % b) + (x % b))
    <2>1. \A u, v \in Nat : b * (b * u + v) = (b * b) * u + b * v
      OBVIOUS
    <2>2. b * q = (b * b) * p + b * (q % b)
      BY <1>2, <2>1
    <2> QED BY <1>1, <1>2, <2>2
  <1>4. b * (q % b) + (x % b) \in 0 .. (b * b - 1) /\ b * b \in Nat \ {0}
    BY <1>1, <1>2
  <1>5. x \div (b * b) = p
    BY <1>2, <1>3, <1>4, Quotient
  <1> QED BY <1>5 DEF p, q

\* An address below the limit is what its three bytes say.
LEMMA ThreeBytes ==
  ASSUME NEW b \in Nat \ {0}, NEW x \in Nat, x < b * b * b
  PROVE  x = (x % b) + b * (((x \div b) % b) + b * ((x \div (b * b)) % b))
  <1> DEFINE q == x \div b
             p == q \div b
  <1>1. x = b * q + (x % b) /\ (x % b) \in 0 .. b - 1 /\ q \in Nat
    BY Division
  <1>2. q = b * p + (q % b) /\ (q % b) \in 0 .. b - 1 /\ p \in Nat
    BY Division, <1>1
  <1>3. x \div (b * b) = p
    BY SquareQuotient
  <1> HIDE DEF q, p
  <1>4. p < b
    <2> SUFFICES ASSUME p >= b PROVE FALSE
      BY <1>2
    <2>1. q >= b * b
      BY <1>2
    <2>2. b * q >= b * (b * b)
      BY <2>1, <1>1
    <2>3. b * b * b = b * (b * b)
      OBVIOUS
    <2> QED BY <2>2, <2>3, <1>1
  <1>5. p % b = p
    BY <1>4, <1>2
  <1> QED BY <1>1, <1>2, <1>3, <1>5 DEF q

\* One drive changes its status.
LEMMA OneDrive ==
  ASSUME Types, NEW d \in Drives, NEW r \in Status, dev' = [dev EXCEPT ![d] = r]
  PROVE  /\ dev' \in [Drives -> Status]
         /\ dev'[d] = r
         /\ \A e \in Drives : e # d => dev'[e] = dev[e]
  BY DEF Types, Jobs

\* The three bytes that read_sectors takes from an accepted address fit into
\* ports, and the drive puts the same address together from them.
LEMMA AddressBytes ==
  ASSUME NEW x \in Nat, x < MaxLba, NEW n \in 1 .. ByteSize - 1
  PROVE  /\ x % ByteSize \in 0 .. ByteSize - 1
         /\ (x \div ByteSize) % ByteSize \in 0 .. ByteSize - 1
         /\ (x \div (ByteSize * ByteSize)) % ByteSize \in 0 .. ByteSize - 1
         /\ n \in 0 .. ByteSize - 1
         /\ x = (x % ByteSize) + ByteSize * (((x \div ByteSize) % ByteSize)
                                                + ByteSize * ((x \div (ByteSize * ByteSize)) % ByteSize))
  <1>1. ByteSize \in Nat \ {0} /\ ByteSize * ByteSize \in Nat \ {0}
    BY SizeFacts
  <1>2. x \div ByteSize \in Nat /\ x \div (ByteSize * ByteSize) \in Nat
    BY <1>1, Division
  <1>3. x % ByteSize \in 0 .. ByteSize - 1
    BY <1>1, Division
  <1>4. (x \div ByteSize) % ByteSize \in 0 .. ByteSize - 1
    BY <1>1, <1>2, Division
  <1>5. (x \div (ByteSize * ByteSize)) % ByteSize \in 0 .. ByteSize - 1
    BY <1>1, <1>2, Division
  <1>6. x < ByteSize * ByteSize * ByteSize
    <2>1. ByteSize * ByteSize * ByteSize \in Nat
      BY SizeFacts
    <2> QED BY <2>1 DEF MaxLba
  <1>7. x = (x % ByteSize) + ByteSize * (((x \div ByteSize) % ByteSize)
                                            + ByteSize * ((x \div (ByteSize * ByteSize)) % ByteSize))
    BY <1>1, <1>6, ThreeBytes
  <1> QED BY <1>1, <1>3, <1>4, <1>5, <1>7

-----------------------------------------------------------------------------
(* Each action preserves the invariant.                                    *)

\* After boot the drives are idle and nobody owns one.
LEMMA InitInv == Init => IInv
  <1> SUFFICES ASSUME Init PROVE IInv
    OBVIOUS
  <1>1. kind \in [Drives -> {"ata", "atapi", "none"}]
    BY IdeAssumption DEF Init
  <1>2. \A d \in Drives : Idle(d) \in Status
    BY IdeAssumption, <1>1 DEF Idle, Status
  <1>3. DevicesFit
    <2> SUFFICES ASSUME NEW d \in Drives PROVE DeviceFits(d)
      BY DEF DevicesFit
    <2>1. dev[d] = Idle(d)
      BY DEF Init
    <2>2. dev[d].ready <=> kind[d] # "none"
      <3>1. dev[d].ready = (kind[d] # "none")
        BY <2>1 DEF Idle
      <3> QED BY <3>1
    <2>3. dev[d].left = 0 /\ ~dev[d].busy /\ ~dev[d].drq
      BY <2>1 DEF Idle
    <2> QED BY <2>2, <2>3, SizeFacts DEF DeviceFits
  <1>4. Types
    <2>1. \A d \in Drives : dev[d].at = 0 /\ dev[d].left = 0
      BY DEF Init, Idle
    <2>2. dev \in [Drives -> Status]
      BY <1>2 DEF Init
    <2>3. 0 \in 0 .. ByteSize - 1 /\ 0 \in 0 .. ByteSize
      BY SizeFacts
    <2> QED BY <1>1, <2>1, <2>2, <2>3 DEF Init, Types, Jobs, TypeOK
  <1>5. Owners /\ SelectFits /\ ReadFits /\ DetectFits
    BY DEF Init, Owners, SelectFits, ReadFits, Reading, DetectFits
  <1> QED BY <1>3, <1>4, <1>5 DEF IInv

\* The drive of the operation gets a sector ready.
LEMMA DeviceReadyInv ==
  ASSUME NEW d \in Drives, IInv, DeviceReady(d)
  PROVE  IInv'
  <1> DEFINE r == [dev[d] EXCEPT !.busy = FALSE, !.drq = TRUE]
  <1>1. dev[d] \in Status
    BY DEF IInv, Types, Jobs
  <1>2. r \in Status
    BY <1>1, IdeAssumption DEF Status
  <1>3. dev' = [dev EXCEPT ![d] = r] /\ dev[d].busy /\ kind[d] = "ata"
        /\ UNCHANGED <<kind, busyness, opened, ports, pc, job, ret>>
    BY DEF DeviceReady, IInv, Types, Jobs, Status
  <1>4. dev' \in [Drives -> Status] /\ dev'[d] = r /\ \A e \in Drives : e # d => dev'[e] = dev[e]
    BY <1>2, <1>3, OneDrive DEF IInv
  <1>5. d = job.drive /\ pc \in {"wait data", "wait identify"}
        /\ dev[d].left > 0 /\ ~dev[d].drq /\ ~dev[d].err
    BY <1>3 DEF IInv, DevicesFit, DeviceFits, DetectFits
  <1>6. dev'[d].ready = dev[d].ready /\ dev'[d].cmd = dev[d].cmd /\ dev'[d].at = dev[d].at
        /\ ~dev'[d].busy /\ dev'[d].drq /\ ~dev'[d].err /\ dev'[d].left = dev[d].left
    BY <1>1, <1>4, <1>5, SizeFacts DEF Status
  <1>7. dev'[d].left \in Nat /\ dev'[d].left <= ByteSize /\ (dev'[d].left = 0 => ~(dev'[d].left > 0))
    <2>1. dev[d].left <= ByteSize
      BY DEF IInv, DevicesFit, DeviceFits
    <2> QED BY <2>1, <1>1, <1>6, SizeFacts DEF Status
  <1>8. ports' = ports
    <2>1. 1 \in 0 .. ByteSize - 1
      BY SizeFacts
    <2> QED BY <2>1, <1>3 DEF IInv, Types, Jobs, TypeOK
  <1> HIDE DEF r
  <1>9. DevicesFit'
    <2> SUFFICES ASSUME NEW e \in Drives PROVE DeviceFits(e)'
      BY DEF DevicesFit
    <2>1. DeviceFits(e) /\ DeviceFits(d)
      BY DEF IInv, DevicesFit
    <2>2. CASE e = d
      BY <2>1, <2>2, <1>3, <1>5, <1>6, <1>7 DEF DeviceFits
    <2>3. CASE e # d
      BY <2>1, <2>3, <1>3, <1>4 DEF DeviceFits
    <2> QED BY <2>2, <2>3
  <1>10. Types'
    <2>1. ASSUME NEW e \in Drives PROVE dev'[e].at \in Nat /\ dev'[e].left \in 0 .. ByteSize
      <3>1. dev'[e] \in Status /\ dev'[e].left <= ByteSize
        BY <1>4, <1>9 DEF DevicesFit, DeviceFits
      <3> QED BY <3>1, SizeFacts DEF Status
    <2> QED BY <2>1, <1>3, <1>4, <1>8 DEF IInv, Types, Jobs, TypeOK
  <1>11. ReadFits'
    BY <1>3, <1>5, <1>6, ZenonT(30) DEF IInv, ReadFits, Reading, Addressed, Filled, OnTheWay
  <1>12. DetectFits'
    BY <1>3, <1>5, <1>6, <1>8, <1>7 DEF IInv, DetectFits
  <1>13. Owners' /\ SelectFits'
    BY <1>3, <1>8 DEF IInv, Owners, SelectFits
  <1> QED BY <1>9, <1>10, <1>11, <1>12, <1>13 DEF IInv

\* The drive gives up: what it had left to do is gone.
LEMMA DeviceFailsInv ==
  ASSUME NEW d \in Drives, IInv, DeviceFails(d)
  PROVE  IInv'
  <1> DEFINE r == [dev[d] EXCEPT !.busy = FALSE, !.err = TRUE, !.left = 0]
  <1>1. dev[d] \in Status
    BY DEF IInv, Types, Jobs
  <1>2. r \in Status
    BY <1>1, IdeAssumption DEF Status
  <1>3. dev' = [dev EXCEPT ![d] = r] /\ dev[d].busy
        /\ UNCHANGED <<kind, busyness, opened, ports, pc, job, ret>>
    BY DEF DeviceFails, IInv, Types, Jobs, Status
  <1>4. dev' \in [Drives -> Status] /\ dev'[d] = r /\ \A e \in Drives : e # d => dev'[e] = dev[e]
    BY <1>2, <1>3, OneDrive DEF IInv
  <1>5. d = job.drive /\ pc \in {"wait data", "wait identify"}
        /\ dev[d].left > 0 /\ ~dev[d].drq /\ ~dev[d].err
    BY <1>3 DEF IInv, DevicesFit, DeviceFits, DetectFits
  <1>6. dev'[d].ready = dev[d].ready /\ dev'[d].cmd = dev[d].cmd /\ dev'[d].at = dev[d].at
        /\ ~dev'[d].busy /\ dev'[d].err /\ ~dev'[d].drq /\ dev'[d].left = 0
    BY <1>1, <1>4, <1>5, SizeFacts DEF Status
  <1>7. dev'[d].left \in Nat /\ dev'[d].left <= ByteSize /\ (dev'[d].left = 0 => ~(dev'[d].left > 0))
    <2>1. dev[d].left <= ByteSize
      BY DEF IInv, DevicesFit, DeviceFits
    <2> QED BY <2>1, <1>1, <1>6, SizeFacts DEF Status
  <1>8. ports' = ports
    <2>1. 1 \in 0 .. ByteSize - 1
      BY SizeFacts
    <2> QED BY <2>1, <1>3 DEF IInv, Types, Jobs, TypeOK
  <1> HIDE DEF r
  <1>9. DevicesFit'
    <2> SUFFICES ASSUME NEW e \in Drives PROVE DeviceFits(e)'
      BY DEF DevicesFit
    <2>1. DeviceFits(e) /\ DeviceFits(d)
      BY DEF IInv, DevicesFit
    <2>2. CASE e = d
      BY <2>1, <2>2, <1>3, <1>5, <1>6, <1>7 DEF DeviceFits
    <2>3. CASE e # d
      BY <2>1, <2>3, <1>3, <1>4 DEF DeviceFits
    <2> QED BY <2>2, <2>3
  <1>10. Types'
    <2>1. ASSUME NEW e \in Drives PROVE dev'[e].at \in Nat /\ dev'[e].left \in 0 .. ByteSize
      <3>1. dev'[e] \in Status /\ dev'[e].left <= ByteSize
        BY <1>4, <1>9 DEF DevicesFit, DeviceFits
      <3> QED BY <3>1, SizeFacts DEF Status
    <2> QED BY <2>1, <1>3, <1>4, <1>8 DEF IInv, Types, Jobs, TypeOK
  <1>11. ReadFits'
    BY <1>3, <1>5, <1>6 DEF IInv, ReadFits, Reading, Addressed, Filled, OnTheWay
  <1>12. DetectFits'
    BY <1>3, <1>5, <1>6, <1>8, <1>7 DEF IInv, DetectFits
  <1>13. Owners' /\ SelectFits'
    BY <1>3, <1>8 DEF IInv, Owners, SelectFits
  <1> QED BY <1>9, <1>10, <1>11, <1>12, <1>13 DEF IInv

\* A drive that is not ATA leaves its signature in the ports.
LEMMA DeviceSignsInv ==
  ASSUME NEW d \in Drives, IInv, DeviceSigns(d)
  PROVE  IInv'
  <1> DEFINE r == [dev[d] EXCEPT !.busy = FALSE, !.left = 0]
  <1>1. dev[d] \in Status
    BY DEF IInv, Types, Jobs
  <1>2. r \in Status
    BY <1>1, IdeAssumption DEF Status
  <1>3. dev' = [dev EXCEPT ![d] = r] /\ dev[d].busy /\ kind[d] = "atapi" /\ dev[d].cmd = "identify"
        /\ ports' = [ports EXCEPT !.lba1 = 1, !.lba2 = 1]
        /\ UNCHANGED <<kind, busyness, opened, pc, job, ret>>
    BY DEF DeviceSigns, IInv, Types, Jobs, Status
  <1>4. dev' \in [Drives -> Status] /\ dev'[d] = r /\ \A e \in Drives : e # d => dev'[e] = dev[e]
    BY <1>2, <1>3, OneDrive DEF IInv
  <1>5. d = job.drive /\ pc \in {"wait data", "wait identify"}
        /\ dev[d].left > 0 /\ ~dev[d].drq /\ ~dev[d].err
    BY <1>3 DEF IInv, DevicesFit, DeviceFits, DetectFits
  <1>6. dev'[d].ready = dev[d].ready /\ dev'[d].cmd = dev[d].cmd /\ dev'[d].at = dev[d].at
        /\ ~dev'[d].busy /\ ~dev'[d].err /\ ~dev'[d].drq /\ dev'[d].left = 0
    BY <1>1, <1>4, <1>5, SizeFacts DEF Status
  <1>7. dev'[d].left \in Nat /\ dev'[d].left <= ByteSize /\ (dev'[d].left = 0 => ~(dev'[d].left > 0))
    <2>1. dev[d].left <= ByteSize
      BY DEF IInv, DevicesFit, DeviceFits
    <2> QED BY <2>1, <1>1, <1>6, SizeFacts DEF Status
  <1>8. ports'.lba1 = 1 /\ ports'.select = ports.select
        /\ ports' \in [select: Drives, seccount0: 0 .. ByteSize - 1, lba0: 0 .. ByteSize - 1,
                        lba1: 0 .. ByteSize - 1, lba2: 0 .. ByteSize - 1]
    <2>1. 1 \in 0 .. ByteSize - 1
      BY SizeFacts
    <2> QED BY <2>1, <1>3 DEF IInv, Types, Jobs, TypeOK
  <1> HIDE DEF r
  <1>9. DevicesFit'
    <2> SUFFICES ASSUME NEW e \in Drives PROVE DeviceFits(e)'
      BY DEF DevicesFit
    <2>1. DeviceFits(e) /\ DeviceFits(d)
      BY DEF IInv, DevicesFit
    <2>2. CASE e = d
      BY <2>1, <2>2, <1>3, <1>5, <1>6, <1>7 DEF DeviceFits
    <2>3. CASE e # d
      BY <2>1, <2>3, <1>3, <1>4 DEF DeviceFits
    <2> QED BY <2>2, <2>3
  <1>10. Types'
    <2>1. ASSUME NEW e \in Drives PROVE dev'[e].at \in Nat /\ dev'[e].left \in 0 .. ByteSize
      <3>1. dev'[e] \in Status /\ dev'[e].left <= ByteSize
        BY <1>4, <1>9 DEF DevicesFit, DeviceFits
      <3> QED BY <3>1, SizeFacts DEF Status
    <2> QED BY <2>1, <1>3, <1>4, <1>8 DEF IInv, Types, Jobs, TypeOK
  <1>11. ReadFits'
    BY <1>3, <1>5, <1>6 DEF IInv, ReadFits, Reading, Addressed, Filled, OnTheWay
  <1>12. DetectFits'
    BY <1>3, <1>5, <1>6, <1>8, <1>7 DEF IInv, DetectFits
  <1>13. Owners' /\ SelectFits'
    BY <1>3, <1>8 DEF IInv, Owners, SelectFits
  <1> QED BY <1>9, <1>10, <1>11, <1>12, <1>13 DEF IInv

\* select() stops waiting.
LEMMA WaitIdleInv ==
  ASSUME IInv, WaitIdle
  PROVE  IInv'
  <1>1. job.drive \in Drives /\ DeviceFits(job.drive) /\ ports.select = job.drive /\ dev[job.drive] \in Status
    BY DEF IInv, Types, Jobs, DevicesFit, SelectFits, WaitIdle, WaitCommand, Selected, Return
  <1>2. dev[job.drive].left \in Nat
    BY <1>1 DEF Status
  <1>3. Types'
    BY SizeFacts DEF IInv, Types, Jobs, TypeOK, WaitIdle, WaitCommand, Selected, Return
  <1>4. DevicesFit'
    BY DEF IInv, DevicesFit, DeviceFits, DetectFits, SelectFits, WaitIdle, WaitCommand, Selected,
       Return
  <1>5. ReadFits'
    BY <1>1, <1>2 DEF IInv, DeviceFits, ReadFits, Reading, Addressed, Filled, OnTheWay,
       DetectFits, WaitIdle, WaitCommand, Selected, Return
  <1>6. DetectFits'
    BY <1>1, <1>2 DEF IInv, DeviceFits, DetectFits, ReadFits, WaitIdle, WaitCommand, Selected,
       Return
  <1>7. Owners' /\ SelectFits'
    BY DEF IInv, Owners, SelectFits, WaitIdle, WaitCommand, Selected, Return
  <1> QED BY <1>3, <1>4, <1>5, <1>6, <1>7 DEF IInv

\* The wait before the read command ends, with DRIVE_READY or with an error.
LEMMA WaitReadyInv ==
  ASSUME IInv, WaitReady
  PROVE  IInv'
  <1>1. job.drive \in Drives /\ DeviceFits(job.drive) /\ ports.select = job.drive /\ dev[job.drive] \in Status
    BY DEF IInv, Types, Jobs, DevicesFit, SelectFits, WaitReady, WaitCommand, Selected, Return
  <1>2. dev[job.drive].left \in Nat
    BY <1>1 DEF Status
  <1>3. Types'
    BY SizeFacts DEF IInv, Types, Jobs, TypeOK, WaitReady, WaitCommand, Selected, Return
  <1>4. DevicesFit'
    BY DEF IInv, DevicesFit, DeviceFits, DetectFits, SelectFits, WaitReady, WaitCommand,
       Selected, Return
  <1>5. ReadFits'
    BY <1>1, <1>2 DEF IInv, DeviceFits, ReadFits, Reading, Addressed, Filled, OnTheWay,
       DetectFits, WaitReady, WaitCommand, Selected, Return
  <1>6. DetectFits'
    BY <1>1, <1>2 DEF IInv, DeviceFits, DetectFits, ReadFits, WaitReady, WaitCommand, Selected,
       Return
  <1>7. Owners' /\ SelectFits'
    BY DEF IInv, Owners, SelectFits, WaitReady, WaitCommand, Selected, Return
  <1> QED BY <1>3, <1>4, <1>5, <1>6, <1>7 DEF IInv

\* The wait for a sector ends, with DATA_REQUEST or with an error.
LEMMA WaitDataInv ==
  ASSUME IInv, WaitData
  PROVE  IInv'
  <1>1. job.drive \in Drives /\ DeviceFits(job.drive) /\ ports.select = job.drive /\ dev[job.drive] \in Status
    BY DEF IInv, Types, Jobs, DevicesFit, SelectFits, WaitData, WaitCommand, Selected, Return
  <1>2. dev[job.drive].left \in Nat
    BY <1>1 DEF Status
  <1>3. Types'
    BY SizeFacts DEF IInv, Types, Jobs, TypeOK, WaitData, WaitCommand, Selected, Return
  <1>4. DevicesFit'
    BY DEF IInv, DevicesFit, DeviceFits, DetectFits, SelectFits, WaitData, WaitCommand, Selected,
       Return
  <1>5. ReadFits'
    BY <1>1, <1>2 DEF IInv, DeviceFits, ReadFits, Reading, Addressed, Filled, OnTheWay,
       DetectFits, WaitData, WaitCommand, Selected, Return
  <1>6. DetectFits'
    BY <1>1, <1>2 DEF IInv, DeviceFits, DetectFits, ReadFits, WaitData, WaitCommand, Selected,
       Return
  <1>7. Owners' /\ SelectFits'
    BY DEF IInv, Owners, SelectFits, WaitData, WaitCommand, Selected, Return
  <1> QED BY <1>3, <1>4, <1>5, <1>6, <1>7 DEF IInv

\* The wait after identify ends.
LEMMA WaitIdentifyInv ==
  ASSUME IInv, WaitIdentify
  PROVE  IInv'
  <1>1. job.drive \in Drives /\ DeviceFits(job.drive) /\ ports.select = job.drive /\ dev[job.drive] \in Status
    BY DEF IInv, Types, Jobs, DevicesFit, SelectFits, WaitIdentify, WaitCommand, Selected, Return
  <1>2. dev[job.drive].left \in Nat
    BY <1>1 DEF Status
  <1>3. Types'
    BY SizeFacts DEF IInv, Types, Jobs, TypeOK, WaitIdentify, WaitCommand, Selected, Return
  <1>4. DevicesFit'
    BY DEF IInv, DevicesFit, DeviceFits, DetectFits, SelectFits, WaitIdentify, WaitCommand,
       Selected, Return
  <1>5. ReadFits'
    BY <1>1, <1>2 DEF IInv, DeviceFits, ReadFits, Reading, Addressed, Filled, OnTheWay,
       DetectFits, WaitIdentify, WaitCommand, Selected, Return
  <1>6. DetectFits'
    BY <1>1, <1>2 DEF IInv, DeviceFits, DetectFits, ReadFits, WaitIdentify, WaitCommand,
       Selected, Return
  <1>7. Owners' /\ SelectFits'
    BY DEF IInv, Owners, SelectFits, WaitIdentify, WaitCommand, Selected, Return
  <1> QED BY <1>3, <1>4, <1>5, <1>6, <1>7 DEF IInv

\* detect goes on to the data only if the ports have the signature of an ATA
\* drive, and then the data is there.
LEMMA CheckSignatureInv ==
  ASSUME IInv, CheckSignature
  PROVE  IInv'
  <1>1. job.drive \in Drives /\ DeviceFits(job.drive) /\ ports.select = job.drive /\ dev[job.drive] \in Status
    BY DEF IInv, Types, Jobs, DevicesFit, SelectFits, CheckSignature, Return
  <1>2. dev[job.drive].left \in Nat
    BY <1>1 DEF Status
  <1>3. Types'
    BY SizeFacts DEF IInv, Types, Jobs, TypeOK, CheckSignature, Return
  <1>4. DevicesFit'
    BY DEF IInv, DevicesFit, DeviceFits, DetectFits, SelectFits, CheckSignature, Return
  <1>5. ReadFits'
    BY <1>1, <1>2 DEF IInv, DeviceFits, ReadFits, Reading, Addressed, Filled, OnTheWay,
       DetectFits, CheckSignature, Return
  <1>6. DetectFits'
    BY <1>1, <1>2 DEF IInv, DeviceFits, DetectFits, ReadFits, CheckSignature, Return
  <1>7. Owners' /\ SelectFits'
    BY DEF IInv, Owners, SelectFits, CheckSignature, Return
  <1> QED BY <1>3, <1>4, <1>5, <1>6, <1>7 DEF IInv

\* detect clears the address ports before it writes the command.
LEMMA DetectInv ==
  ASSUME NEW c \in Clients, NEW d \in Drives, IInv, Detect(c, d)
  PROVE  IInv'
  <1>1. Types'
    BY SizeFacts DEF IInv, Types, Jobs, TypeOK, Detect
  <1>2. DevicesFit'
    BY DEF IInv, DevicesFit, DeviceFits, DetectFits, SelectFits, Detect
  <1>3. ReadFits'
    BY DEF IInv, DeviceFits, ReadFits, Reading, Addressed, Filled, OnTheWay, DetectFits, Detect
  <1>4. DetectFits'
    BY DEF IInv, DeviceFits, DetectFits, ReadFits, Detect
  <1>5. Owners' /\ SelectFits'
    BY DEF IInv, Owners, SelectFits, Detect
  <1> QED BY <1>1, <1>2, <1>3, <1>4, <1>5 DEF IInv

\* open gives a drive to one client at a time.
LEMMA OpenInv ==
  ASSUME NEW c \in Clients, NEW d \in Drives, IInv, Open(c, d)
  PROVE  IInv'
  <1>1. job' = [job EXCEPT !.op = "open"] /\ UNCHANGED <<kind, ports, dev, pc>> /\ pc = "idle"
    BY DEF Open
  <1>2. job' \in Jobs
        /\ job'.drive = job.drive /\ job'.op = "open"
    BY <1>1 DEF IInv, Types, Jobs
  <1>3. busyness' \in [Drives -> BOOLEAN] /\ opened' \subseteq Clients \X Drives
        /\ ret' \in {"none", "Ok", "DriveBusy", "AtaError", "NotAta"}
    <2>1. CASE busyness[d]
      BY <2>1 DEF Open, IInv, Types, Jobs, TypeOK
    <2>2. CASE ~busyness[d]
      <3>1. busyness' = [busyness EXCEPT ![d] = TRUE] /\ opened' = opened \cup {<<c, d>>} /\ ret' = "Ok"
        BY <2>2 DEF Open
      <3>2. busyness' \in [Drives -> BOOLEAN]
        BY <3>1 DEF IInv, Types, Jobs, TypeOK
      <3>3. opened' \subseteq Clients \X Drives
        <4>1. opened \subseteq Clients \X Drives /\ <<c, d>> \in Clients \X Drives
          BY DEF IInv, Types, Jobs, TypeOK
        <4> QED BY <3>1, <4>1, Zenon
      <3> QED BY <3>1, <3>2, <3>3
    <2> QED BY <2>1, <2>2
  <1>4. Types'
    BY <1>1, <1>2, <1>3 DEF IInv, Types, Jobs, TypeOK
  <1>5. DevicesFit' /\ SelectFits' /\ ReadFits' /\ DetectFits'
    BY <1>1, <1>2 DEF IInv, DevicesFit, DeviceFits, SelectFits, ReadFits, Reading, DetectFits
  <1>6. Owners'
    <2>1. CASE busyness[d]
      BY <2>1 DEF Open, IInv, Owners
    <2>2. CASE ~busyness[d]
      <3>1. busyness' = [busyness EXCEPT ![d] = TRUE] /\ opened' = opened \cup {<<c, d>>}
        BY <2>2 DEF Open
      <3>2. \A b \in Clients : <<b, d>> \notin opened
        BY <2>2 DEF IInv, Owners
      <3>3. \A b \in Clients, e \in Drives : <<b, e>> \in opened' <=> <<b, e>> \in opened \/ (b = c /\ e = d)
        BY <3>1
      <3>4. \A e \in Drives : busyness'[e] <=> busyness[e] \/ e = d
        BY <3>1 DEF IInv, Types, Jobs, TypeOK
      <3> QED BY <3>2, <3>3, <3>4 DEF IInv, Owners
    <2> QED BY <2>1, <2>2
  <1> QED BY <1>4, <1>5, <1>6 DEF IInv

\* drop gives back the one drive it owned.
LEMMA DropDriveInv ==
  ASSUME NEW c \in Clients, NEW d \in Drives, IInv, DropDrive(c, d)
  PROVE  IInv'
  <1>1. /\ <<c, d>> \in opened /\ opened' = opened \ {<<c, d>>}
        /\ busyness' = [busyness EXCEPT ![d] = FALSE]
        /\ UNCHANGED <<kind, ports, dev, pc, job, ret>>
    BY DEF DropDrive
  <1>2. Types'
    BY <1>1 DEF IInv, Types, Jobs, TypeOK
  <1>3. DevicesFit' /\ SelectFits' /\ ReadFits' /\ DetectFits'
    BY <1>1, ZenonT(30) DEF IInv, DevicesFit, DeviceFits, SelectFits, ReadFits, Reading, Addressed, Filled,
       OnTheWay, DetectFits
  <1>4. Owners'
    <2>1. \A b \in Clients, e \in Drives : <<b, e>> \in opened' <=> <<b, e>> \in opened /\ ~(b = c /\ e = d)
      BY <1>1
    <2>2. \A e \in Drives : busyness'[e] <=> busyness[e] /\ e # d
      BY <1>1 DEF IInv, Types, Jobs, TypeOK
    <2> QED BY <1>1, <2>1, <2>2 DEF IInv, Owners
  <1> QED BY <1>2, <1>3, <1>4 DEF IInv

\* read_sectors stops at an address that three bytes cannot hold and at more
\* buffers than one byte can count.
LEMMA ReadSectorsInv ==
  ASSUME NEW c \in Clients, NEW d \in Drives, IInv, ReadSectors(c, d)
  PROVE  IInv'
  <1>1. PICK lba \in Lbas, n \in Counts :
          /\ job' = [op |-> "read", drive |-> d, lba |-> lba, count |-> n, buffs |-> <<>>]
          /\ IF lba > MaxLba - 1 \/ n > ByteSize - 1
             THEN pc' = "panic" /\ UNCHANGED ports
             ELSE pc' = "wait idle" /\ ports' = [ports EXCEPT !.select = d]
    BY DEF ReadSectors
  <1>2. lba \in Nat /\ n \in Nat /\ n # 0 /\ ByteSize \in Nat
    BY IdeAssumption
  <1>3. pc = "idle" /\ ret' = "none" /\ UNCHANGED <<kind, busyness, opened, dev>>
    BY DEF ReadSectors
  <1>4. Types'
    <2>1. job' \in Jobs
      <3>1. <<>> \in Seq(Words) /\ "read" \in {"none", "open", "read", "detect"}
        OBVIOUS
      <3>2. lba \in Nat /\ n \in Nat
        BY <1>2
      <3> QED BY <1>1, <3>1, <3>2 DEF Jobs
    <2>2. pc' \in {"panic", "wait idle"} /\ ports' \in [select: Drives, seccount0: 0 .. ByteSize - 1,
            lba0: 0 .. ByteSize - 1, lba1: 0 .. ByteSize - 1, lba2: 0 .. ByteSize - 1]
      BY <1>1 DEF IInv, Types, Jobs, TypeOK
    <2> QED BY <1>3, <2>1, <2>2 DEF IInv, Types, Jobs, TypeOK
  <1>5. DevicesFit'
    BY <1>1, <1>3 DEF IInv, DevicesFit, DeviceFits
  <1>6. MaxLba \in Nat
    <2>1. ByteSize * ByteSize * ByteSize \in Nat /\ ByteSize * ByteSize * ByteSize > 0
      BY SizeFacts
    <2> QED BY <2>1 DEF MaxLba
  <1>7. ReadFits' /\ DetectFits'
    <2>1. job'.op = "read" /\ job'.count = n /\ job'.lba = lba /\ job'.buffs = <<>> /\ ret' = "none"
      BY <1>1, <1>3
    <2>2. CASE lba > MaxLba - 1 \/ n > ByteSize - 1
      BY <1>1, <2>1, <2>2 DEF ReadFits, Reading, DetectFits
    <2>3. CASE ~(lba > MaxLba - 1 \/ n > ByteSize - 1)
      <3>1. lba < MaxLba /\ n \in 1 .. ByteSize - 1
        BY <1>2, <1>6, <2>3
      <3>2. pc' = "wait idle"
        BY <1>1, <2>3
      <3>3. ReadFits'
        BY <1>2, <2>1, <3>1, <3>2 DEF ReadFits, Reading
      <3>4. DetectFits'
        BY <2>1, <3>2 DEF DetectFits
      <3> QED BY <3>3, <3>4
    <2> QED BY <2>2, <2>3
  <1>8. Owners' /\ SelectFits'
    BY <1>1, <1>3 DEF IInv, Types, Jobs, TypeOK, Owners, SelectFits
  <1> QED BY <1>4, <1>5, <1>7, <1>8 DEF IInv

\* The ports get the address and the number of sectors.
LEMMA WriteAddressInv ==
  ASSUME IInv, WriteAddress
  PROVE  IInv'
  <1>1. /\ pc = "address" /\ pc' = "wait ready" /\ UNCHANGED <<kind, busyness, opened, dev, job, ret>>
        /\ job.lba \in Nat /\ job.count \in 1 .. ByteSize - 1 /\ job.lba < MaxLba
    BY DEF WriteAddress, IInv, Types, Jobs, ReadFits, Reading
  <1>2. ports' = [ports EXCEPT !.seccount0 = job.count, !.lba0 = job.lba % ByteSize,
                               !.lba1 = (job.lba \div ByteSize) % ByteSize,
                               !.lba2 = (job.lba \div (ByteSize * ByteSize)) % ByteSize]
    <2>1. \A n \in 1 .. ByteSize - 1 : n % ByteSize = n
      BY SizeFacts
    <2>2. \A x \in Nat : x \div 1 = x
      OBVIOUS
    <2>3. <<1, ByteSize, ByteSize * ByteSize>>[0 + 1] = 1 /\ <<1, ByteSize, ByteSize * ByteSize>>[1 + 1] = ByteSize
          /\ <<1, ByteSize, ByteSize * ByteSize>>[2 + 1] = ByteSize * ByteSize
      OBVIOUS
    <2> QED BY <1>1, <2>1, <2>2, <2>3 DEF WriteAddress, SecCount, LbaByte
  <1>3. /\ job.lba % ByteSize \in 0 .. ByteSize - 1
        /\ (job.lba \div ByteSize) % ByteSize \in 0 .. ByteSize - 1
        /\ (job.lba \div (ByteSize * ByteSize)) % ByteSize \in 0 .. ByteSize - 1
        /\ job.count \in 0 .. ByteSize - 1
        /\ job.lba = (job.lba % ByteSize)
                       + ByteSize * (((job.lba \div ByteSize) % ByteSize)
                                       + ByteSize * ((job.lba \div (ByteSize * ByteSize)) % ByteSize))
    BY <1>1, AddressBytes
  <1>5. /\ ports' \in [select: Drives, seccount0: 0 .. ByteSize - 1, lba0: 0 .. ByteSize - 1,
                       lba1: 0 .. ByteSize - 1, lba2: 0 .. ByteSize - 1]
        /\ ports'.select = ports.select /\ ports'.seccount0 = job.count
        /\ ports'.lba0 = job.lba % ByteSize
        /\ ports'.lba1 = (job.lba \div ByteSize) % ByteSize
        /\ ports'.lba2 = (job.lba \div (ByteSize * ByteSize)) % ByteSize
    BY <1>2, <1>3 DEF IInv, Types, Jobs, TypeOK
  <1>6. Types'
    BY <1>1, <1>5 DEF IInv, Types, Jobs, TypeOK
  <1>7. Addressed'
    BY <1>1, <1>3, <1>5 DEF Addressed
  <1>8. DevicesFit' /\ DetectFits'
    BY <1>1, <1>5 DEF IInv, DevicesFit, DeviceFits, DetectFits, ReadFits
  <1>9. ReadFits'
    BY <1>1, <1>7 DEF IInv, ReadFits, Reading
  <1>10. Owners' /\ SelectFits'
    BY <1>1, <1>5 DEF IInv, Owners, SelectFits
  <1> QED BY <1>6, <1>8, <1>9, <1>10 DEF IInv


\* The drive accepts the read command: it has the whole job to do.
LEMMA WriteReadPioInv ==
  ASSUME IInv, WriteReadPio
  PROVE  IInv'
  <1> DEFINE d == job.drive
             r == [dev[d] EXCEPT !.busy = TRUE, !.err = FALSE, !.drq = FALSE, !.cmd = "read",
                                 !.at = job.lba, !.left = job.count]
  <1>1. /\ pc = "read pio" /\ pc' = "wait data" /\ UNCHANGED <<kind, busyness, opened, ports, job, ret>>
        /\ dev' = [dev EXCEPT ![ports.select] = Accept(ports.select, "read")]
    BY DEF WriteReadPio
  <1>2. /\ d \in Drives /\ dev[d] \in Status /\ ports.select = d /\ DeviceFits(d)
        /\ job.lba \in Nat /\ job.count \in Nat /\ job.op = "read" /\ job.buffs = <<>> /\ Len(job.buffs) = 0
        /\ kind[d] # "none" /\ Addressed
    BY <1>1 DEF IInv, Types, Jobs, DevicesFit, SelectFits, ReadFits
  <1>3. job.count \in 1 .. ByteSize - 1
    BY <1>1, <1>2 DEF IInv, ReadFits, Reading
  <1>4. job.count # 0 /\ job.count > 0 /\ job.count <= ByteSize
    BY <1>3, SizeFacts
  <1>5. Accept(d, "read") = r
    BY <1>2, <1>4 DEF Accept, Addressed
  <1>6. r \in Status
    BY <1>2 DEF Status
  <1>7. dev' = [dev EXCEPT ![d] = r]
    BY <1>1, <1>2, <1>5
  <1>8. dev' \in [Drives -> Status] /\ dev'[d] = r /\ \A e \in Drives : e # d => dev'[e] = dev[e]
    BY <1>2, <1>6, <1>7, OneDrive DEF IInv
  <1>9. /\ dev'[d].ready = dev[d].ready /\ dev'[d].cmd = "read" /\ dev'[d].at = job.lba
        /\ dev'[d].busy /\ ~dev'[d].err /\ ~dev'[d].drq /\ dev'[d].left = job.count
    BY <1>2, <1>8 DEF Status
  <1> HIDE DEF r
  <1>10. DevicesFit'
    <2> SUFFICES ASSUME NEW e \in Drives PROVE DeviceFits(e)'
      BY DEF DevicesFit
    <2>1. CASE e = d
      BY <2>1, <1>1, <1>2, <1>4, <1>9 DEF DeviceFits
    <2>2. CASE e # d
      <3>1. DeviceFits(e) /\ dev'[e] = dev[e]
        BY <2>2, <1>8 DEF IInv, DevicesFit
      <3> QED BY <2>2, <3>1, <1>1 DEF DeviceFits
    <2> QED BY <2>1, <2>2
  <1>11. Types'
    <2>1. ASSUME NEW e \in Drives PROVE dev'[e].at \in Nat /\ dev'[e].left \in 0 .. ByteSize
      <3>1. dev'[e] \in Status /\ dev'[e].left <= ByteSize
        BY <1>8, <1>10 DEF DevicesFit, DeviceFits
      <3> QED BY <3>1, SizeFacts DEF Status
    <2> QED BY <2>1, <1>1, <1>8 DEF IInv, Types, Jobs, TypeOK
  <1>12. ReadFits'
    <2>1. OnTheWay'
      <3>1. job.lba = job.lba + Len(job.buffs) /\ job.count = job.count - Len(job.buffs)
        BY <1>2
      <3>2. job' = job
        BY <1>1
      <3> QED BY <3>1, <3>2, <1>9 DEF OnTheWay
    <2>2. Filled'
      <3>1. job' = job /\ Len(job.buffs) = 0
        BY <1>1, <1>2
      <3>2. \A i \in 1 .. 0 : FALSE
        OBVIOUS
      <3> QED BY <3>1, <3>2 DEF Filled
    <2>3. Len(job'.buffs) < job'.count
      BY <1>1, <1>2, <1>4
    <2> QED BY <2>1, <2>2, <2>3, <1>1, <1>2, <1>3 DEF IInv, ReadFits, Reading
  <1>13. DetectFits'
    BY <1>1, <1>2 DEF DetectFits
  <1>14. Owners' /\ SelectFits'
    BY <1>1 DEF IInv, Owners, SelectFits
  <1> QED BY <1>10, <1>11, <1>12, <1>13, <1>14 DEF IInv

\* The drive accepts identify; where there is no drive nothing happens.
LEMMA WriteIdentifyInv ==
  ASSUME IInv, WriteIdentify
  PROVE  IInv'
  <1> DEFINE d == job.drive
             r == Accept(d, "identify")
  <1>1. /\ pc = "identify" /\ pc' = "wait identify" /\ UNCHANGED <<kind, busyness, opened, ports, job, ret>>
        /\ dev' = [dev EXCEPT ![ports.select] = Accept(ports.select, "identify")]
    BY DEF WriteIdentify
  <1>2. /\ d \in Drives /\ dev[d] \in Status /\ ports.select = d /\ DeviceFits(d)
        /\ job.op = "detect" /\ job.count = 1 /\ job.buffs = <<>>
        /\ ports.lba1 = 0 /\ ports.lba2 = 0 /\ ports.lba0 \in 0 .. ByteSize - 1
    BY <1>1 DEF IInv, Types, Jobs, TypeOK, DevicesFit, SelectFits, DetectFits
  <1>3. ports.lba0 + ByteSize * (ports.lba1 + ByteSize * ports.lba2) \in Nat
    BY <1>2, SizeFacts
  <1>4. r \in Status
    BY <1>2, <1>3 DEF Accept, Status
  <1>5. dev' = [dev EXCEPT ![d] = r]
    BY <1>1, <1>2
  <1>6. dev' \in [Drives -> Status] /\ dev'[d] = r /\ \A e \in Drives : e # d => dev'[e] = dev[e]
    BY <1>2, <1>4, <1>5, OneDrive DEF IInv
  <1>7. dev'[d].ready = dev[d].ready
    BY <1>2, <1>6 DEF Accept, Status
  <1>8. CASE kind[d] = "none"
    <2>1. dev'[d] = dev[d]
      BY <1>6, <1>8 DEF Accept
    <2>2. dev' = dev
      <3>1. \A e \in Drives : dev'[e] = dev[e]
        BY <2>1, <1>6
      <3>2. dev' \in [Drives -> Status] /\ dev \in [Drives -> Status]
        BY <1>6 DEF IInv, Types, Jobs
      <3> QED BY <3>1, <3>2
    <2>3. dev[d].left \in Nat /\ ~(dev[d].left > 0)
      BY <1>1, <1>2 DEF DeviceFits, Status
    <2>4. Types' /\ Owners' /\ SelectFits'
      BY <2>2, <1>1 DEF IInv, Types, Jobs, TypeOK, Owners, SelectFits
    <2>5. DevicesFit'
      BY <2>2, <1>1 DEF IInv, DevicesFit, DeviceFits
    <2>6. ReadFits' /\ DetectFits'
      BY <2>2, <2>3, <1>1, <1>2, <1>8 DEF ReadFits, Reading, DetectFits
    <2> QED BY <2>4, <2>5, <2>6 DEF IInv
  <1>9. CASE kind[d] # "none"
    <2>1. /\ dev'[d].busy /\ ~dev'[d].err /\ ~dev'[d].drq /\ dev'[d].left = 1
      BY <1>2, <1>6, <1>9 DEF Accept, Status
    <2> HIDE DEF r
    <2>2. DevicesFit'
      <3> SUFFICES ASSUME NEW e \in Drives PROVE DeviceFits(e)'
        BY DEF DevicesFit
      <3>1. CASE e = d
        <4>1. dev'[d].left <= ByteSize /\ dev'[d].left > 0
          BY <2>1, SizeFacts
        <4>2. dev'[d].ready <=> kind'[d] # "none"
          BY <1>1, <1>2, <1>7 DEF DeviceFits
        <4>3. d = job'.drive /\ kind'[d] # "none"
          BY <1>1, <1>9
        <4> QED BY <3>1, <4>1, <4>2, <4>3, <2>1, <1>1 DEF DeviceFits
      <3>2. CASE e # d
        <4>1. DeviceFits(e) /\ dev'[e] = dev[e]
          BY <3>2, <1>6 DEF IInv, DevicesFit
        <4> QED BY <3>2, <4>1, <1>1 DEF DeviceFits
      <3> QED BY <3>1, <3>2
    <2>3. Types'
      <3>1. ASSUME NEW e \in Drives PROVE dev'[e].at \in Nat /\ dev'[e].left \in 0 .. ByteSize
        <4>1. dev'[e] \in Status /\ dev'[e].left <= ByteSize
          BY <1>6, <2>2 DEF DevicesFit, DeviceFits
        <4> QED BY <4>1, SizeFacts DEF Status
      <3> QED BY <3>1, <1>1, <1>6 DEF IInv, Types, Jobs, TypeOK
    <2>4. ReadFits'
      BY <1>1, <1>2 DEF ReadFits, Reading
    <2>5. DetectFits'
      <3>1. job' = job /\ ports' = ports
        BY <1>1
      <3>2. dev'[d].left > 0
        BY <2>1
      <3> QED BY <3>1, <3>2, <1>1, <1>2, <2>1 DEF DetectFits
    <2>6. Owners' /\ SelectFits'
      BY <1>1 DEF IInv, Owners, SelectFits
    <2> QED BY <2>2, <2>3, <2>4, <2>5, <2>6 DEF IInv
  <1> QED BY <1>8, <1>9

\* One sector moves from the drive to the next buffer: the part that the drive
\* has left shrinks by what the buffers gain.
LEMMA ReadPioDataInv ==
  ASSUME IInv, ReadPioData
  PROVE  IInv'
  <1> DEFINE d == job.drive
             r == Drained(d)
             w == DataOf(d)
             n == Len(job.buffs)
  <1>1. /\ pc = "data" /\ UNCHANGED <<kind, busyness, opened, ports>>
        /\ job' = [job EXCEPT !.buffs = Append(job.buffs, DataOf(ports.select))]
        /\ dev' = [dev EXCEPT ![ports.select] = Drained(ports.select)]
        /\ IF n + 1 = job.count
           THEN pc' = "idle" /\ ret' = "Ok"
           ELSE pc' = "wait data" /\ ret' = ret
    BY DEF ReadPioData, Return
  <1>2. /\ d \in Drives /\ dev[d] \in Status /\ ports.select = d /\ DeviceFits(d) /\ dev[d].drq
        /\ job.op \in {"read", "detect"}
        /\ job.buffs \in Seq(Words) /\ n \in Nat /\ job.lba \in Nat /\ job.count \in Nat
    <2>1. d \in Drives /\ job.buffs \in Seq(Words) /\ job.lba \in Nat /\ job.count \in Nat
      BY DEF IInv, Types, Jobs
    <2>2. dev[d] \in Status /\ DeviceFits(d)
      BY <2>1 DEF IInv, Types, Jobs, DevicesFit
    <2>3. ports.select = d /\ dev[d].drq /\ job.op \in {"read", "detect"}
      BY <1>1 DEF IInv, SelectFits, DetectFits
    <2> QED BY <2>1, <2>2, <2>3
  <1>3. dev[d].left \in Nat /\ dev[d].left > 0 /\ dev[d].at \in Nat /\ dev[d].left <= ByteSize
        /\ ~dev[d].err /\ ~dev[d].busy /\ kind[d] = "ata"
    BY <1>2 DEF DeviceFits, Status
  <1>4. r \in Status
    <2>1. dev[d].left - 1 \in Nat /\ dev[d].at + 1 \in Nat /\ (dev[d].left > 1) \in BOOLEAN
      BY <1>3
    <2> QED BY <1>2, <2>1 DEF Drained, Status
  <1>5. dev' = [dev EXCEPT ![d] = r]
    BY <1>1, <1>2
  <1>6. dev' \in [Drives -> Status] /\ dev'[d] = r /\ \A e \in Drives : e # d => dev'[e] = dev[e]
    BY <1>2, <1>4, <1>5, OneDrive DEF IInv
  <1>7. /\ dev'[d].ready = dev[d].ready /\ dev'[d].cmd = dev[d].cmd /\ dev'[d].at = dev[d].at + 1
        /\ ~dev'[d].err /\ ~dev'[d].drq /\ dev'[d].left = dev[d].left - 1
    BY <1>2, <1>3, <1>6 DEF Drained, Status
  <1>8. dev'[d].busy <=> dev[d].left > 1
    <2>1. dev'[d].busy = (dev[d].left > 1)
      BY <1>2, <1>6 DEF Drained, Status
    <2> QED BY <2>1
  <1>9. w \in Words
    BY <1>2, <1>3 DEF DataOf, Words
  <1>10. job' = [job EXCEPT !.buffs = Append(job.buffs, w)]
    BY <1>1, <1>2
  <1> HIDE DEF r, w
  <1>11. /\ job' \in Jobs
         /\ job'.op = job.op /\ job'.drive = d /\ job'.lba = job.lba /\ job'.count = job.count
         /\ job'.buffs = Append(job.buffs, w)
    <2>1. Append(job.buffs, w) \in Seq(Words)
      BY <1>2, <1>9
    <2>2. job \in Jobs
      BY DEF IInv, Types, Jobs
    <2> QED BY <2>1, <2>2, <1>10 DEF Jobs
  <1>12. Len(job'.buffs) = n + 1 /\ job'.buffs[n + 1] = w /\ \A i \in 1 .. n : job'.buffs[i] = job.buffs[i]
    BY <1>2, <1>9, <1>11
  <1>13. pc' \in {"idle", "wait data"} /\ ret' \in {"none", "Ok", "DriveBusy", "AtaError", "NotAta"}
    BY <1>1 DEF IInv, Types, Jobs, TypeOK
  <1>14. dev[d].left = job.count - n
    <2>1. CASE job.op = "read"
      BY <2>1, <1>1, <1>3 DEF IInv, ReadFits, Reading, OnTheWay
    <2>2. CASE job.op = "detect"
      <3>1. job.buffs = <<>> /\ job.count = 1 /\ dev[d].left = 1
        BY <2>2, <1>1 DEF IInv, DetectFits
      <3>2. n = 0
        BY <3>1
      <3> QED BY <3>1, <3>2
    <2> QED BY <1>2, <2>1, <2>2
  <1>15. DevicesFit'
    <2> SUFFICES ASSUME NEW e \in Drives PROVE DeviceFits(e)'
      BY DEF DevicesFit
    <2>1. CASE e = d
      <3>1. dev'[d].left \in Nat /\ dev'[d].left <= ByteSize /\ (dev'[d].left > 0 <=> dev[d].left > 1)
        BY <1>3, <1>7, SizeFacts
      <3>2. dev[d].left > 1 => pc' = "wait data"
        <4>1. dev[d].left > 1 => n + 1 # job.count
          BY <1>2, <1>3, <1>14
        <4> QED BY <4>1, <1>1
      <3> QED BY <2>1, <3>1, <3>2, <1>1, <1>2, <1>3, <1>7, <1>8, <1>11 DEF DeviceFits
    <2>2. CASE e # d
      <3>1. DeviceFits(e) /\ dev'[e] = dev[e]
        BY <2>2, <1>6 DEF IInv, DevicesFit
      <3> QED BY <2>2, <3>1, <1>1 DEF DeviceFits
    <2> QED BY <2>1, <2>2
  <1>16. Types'
    <2>1. ASSUME NEW e \in Drives PROVE dev'[e].at \in Nat /\ dev'[e].left \in 0 .. ByteSize
      <3>1. dev'[e] \in Status /\ dev'[e].left <= ByteSize
        BY <1>6, <1>15 DEF DevicesFit, DeviceFits
      <3> QED BY <3>1, SizeFacts DEF Status
    <2> QED BY <2>1, <1>1, <1>6, <1>11, <1>13 DEF IInv, Types, Jobs, TypeOK
  <1>17. ReadFits'
    <2>1. CASE job.op = "read"
      <3>1. /\ Filled /\ n < job.count /\ job.count \in 1 .. ByteSize - 1 /\ job.lba < MaxLba
            /\ dev[d].cmd = "read" /\ dev[d].at = job.lba + n
        BY <2>1, <1>1, <1>3 DEF IInv, ReadFits, Reading, OnTheWay
      <3>2. w = <<"sector", d, job.lba + (n + 1) - 1>>
        <4>1. job.lba + (n + 1) - 1 = job.lba + n
          BY <1>2
        <4> QED BY <4>1, <3>1, <1>2 DEF w, DataOf
      <3>3. Filled'
        <4> SUFFICES ASSUME NEW i \in 1 .. Len(job'.buffs)
                     PROVE  job'.buffs[i] = <<"sector", d, job.lba + i - 1>>
          BY <1>11 DEF Filled
        <4>1. CASE i = n + 1
          BY <4>1, <3>2, <1>12
        <4>2. CASE i # n + 1
          <5>1. i \in 1 .. n
            BY <4>2, <1>2, <1>12
          <5> QED BY <5>1, <3>1, <1>12 DEF Filled
        <4> QED BY <4>1, <4>2
      <3>4. OnTheWay'
        <4>1. dev[d].at + 1 = job.lba + (n + 1)
          BY <3>1, <1>2
        <4>2. dev[d].left - 1 = job.count - (n + 1)
          BY <1>2, <1>14
        <4> QED BY <3>1, <4>1, <4>2, <1>7, <1>11, <1>12 DEF OnTheWay
      <3>5. n + 1 = job.count \/ n + 1 < job.count
        BY <3>1, <1>2
      <3> QED BY <3>1, <3>3, <3>4, <3>5, <2>1, <1>1, <1>11, <1>12 DEF ReadFits, Reading
    <2>2. CASE job.op = "detect"
      <3>1. n = 0 /\ job.count = 1
        BY <2>2, <1>1 DEF IInv, DetectFits
      <3>2. pc' = "idle"
        BY <3>1, <1>1
      <3> QED BY <2>2, <3>2, <1>11 DEF ReadFits, Reading
    <2> QED BY <1>2, <2>1, <2>2
  <1>18. DetectFits'
    <2>1. CASE job.op = "read"
      BY <2>1, <1>11, <1>13 DEF DetectFits
    <2>2. CASE job.op = "detect"
      <3>1. n = 0 /\ job.count = 1
        BY <2>2, <1>1 DEF IInv, DetectFits
      <3>2. pc' = "idle"
        BY <3>1, <1>1
      <3> QED BY <2>2, <3>2, <1>11 DEF DetectFits
    <2> QED BY <1>2, <2>1, <2>2
  <1>19. Owners' /\ SelectFits'
    BY <1>1, <1>2, <1>11 DEF IInv, Owners, SelectFits
  <1> QED BY <1>15, <1>16, <1>17, <1>18, <1>19 DEF IInv

\* Steps that change nothing.
LEMMA StutterInv ==
  ASSUME IInv, UNCHANGED vars
  PROVE  IInv'
  <1>1. Types' /\ Owners' /\ SelectFits'
    BY DEF vars, IInv, Types, Jobs, TypeOK, Owners, SelectFits
  <1>2. DevicesFit'
    BY DEF vars, IInv, DevicesFit, DeviceFits
  <1>3. ReadFits' /\ DetectFits'
    BY DEF vars, IInv, ReadFits, Reading, Addressed, Filled, OnTheWay, DetectFits
  <1> QED BY <1>1, <1>2, <1>3 DEF IInv

\* Every step preserves the invariant.
LEMMA NextInv == IInv /\ [Next]_vars => IInv'
  <1> SUFFICES ASSUME IInv, [Next]_vars PROVE IInv'
    OBVIOUS
  <1>1. CASE Driver
    BY <1>1, WaitIdleInv, WriteAddressInv, WaitReadyInv, WriteReadPioInv, WaitDataInv, ReadPioDataInv,
       WriteIdentifyInv, WaitIdentifyInv, CheckSignatureInv DEF Driver
  <1>2. CASE Spin \/ Halted \/ UNCHANGED vars
    BY <1>2, StutterInv DEF Spin, Halted
  <1>3. ASSUME NEW d \in Drives, Device(d) PROVE IInv'
    BY <1>3, DeviceReadyInv, DeviceFailsInv, DeviceSignsInv DEF Device
  <1>4. ASSUME NEW c \in Clients, NEW d \in Drives,
               Open(c, d) \/ DropDrive(c, d) \/ ReadSectors(c, d) \/ Detect(c, d)
        PROVE  IInv'
    BY <1>4, OpenInv, DropDriveInv, ReadSectorsInv, DetectInv
  <1> QED BY <1>1, <1>2, <1>3, <1>4 DEF Next

-----------------------------------------------------------------------------
(* The properties.                                                         *)

\* The invariant holds in every state the driver and its drives can reach.
THEOREM InvariantHolds == Spec => []IInv
  BY InitInv, NextInv, PTL DEF Spec

\* IdeChannel::open and IdeDrive::drop: the flag of a drive says whether an
\* IdeDrive for it exists, and there is never a second one.
THEOREM OwnerTheorem == Spec => []OneOwner
  <1>1. IInv => OneOwner
    BY DEF IInv, Types, Jobs, Owners, OneOwner
  <1> QED BY <1>1, InvariantHolds, PTL

\* The driver writes a command only to a drive that is idle and without data, and
\* reads the data port only when the drive of the operation offers data.
THEOREM PortsTheorem == Spec => []PortsUsedInTurn
  <1>1. IInv => PortsUsedInTurn
    <2> SUFFICES ASSUME IInv PROVE PortsUsedInTurn
      OBVIOUS
    <2>1. pc # "idle" /\ pc # "panic" => ports.select = job.drive
      BY DEF IInv, SelectFits
    <2>2. pc = "data" => Selected.drq
      BY <2>1 DEF Selected, IInv, DetectFits
    <2>3. pc \in {"read pio", "identify"} => ~Selected.busy /\ ~Selected.drq
      <3> SUFFICES ASSUME pc \in {"read pio", "identify"} PROVE ~Selected.busy /\ ~Selected.drq
        OBVIOUS
      <3>1. job.drive \in Drives /\ DeviceFits(job.drive) /\ Selected = dev[job.drive]
        BY <2>1 DEF IInv, Types, Jobs, DevicesFit, Selected
      <3> QED BY <3>1 DEF DeviceFits
    <2> QED BY <2>1, <2>2, <2>3 DEF PortsUsedInTurn
  <1> QED BY <1>1, InvariantHolds, PTL

\* read_sectors: whatever the drives did while it polled, a read that returns Ok
\* has filled its buffers with the sectors asked for, in order, and from its drive.
THEOREM ReadTheorem == Spec => []ReadsWhatWasAsked
  <1>1. IInv => ReadsWhatWasAsked
    <2> SUFFICES ASSUME IInv, pc = "idle", ret = "Ok", job.op = "read"
                 PROVE  /\ job.buffs = [i \in 1 .. job.count |-> <<"sector", job.drive, job.lba + i - 1>>]
                        /\ dev[job.drive].left = 0 /\ ~dev[job.drive].busy
      BY DEF ReadsWhatWasAsked
    <2>1. Filled /\ Len(job.buffs) = job.count
      BY DEF IInv, ReadFits
    <2>2. job.drive \in Drives /\ DeviceFits(job.drive) /\ dev[job.drive] \in Status /\ job.buffs \in Seq(Words)
      BY DEF IInv, Types, Jobs, DevicesFit
    <2>3. dev[job.drive].left \in Nat
      BY <2>2 DEF Status
    <2>4. dev[job.drive].left = 0 /\ ~dev[job.drive].busy
      BY <2>2, <2>3 DEF DeviceFits
    <2>5. job.buffs = [i \in 1 .. job.count |-> job.buffs[i]]
      BY <2>1, <2>2
    <2> QED BY <2>1, <2>4, <2>5 DEF Filled
  <1> QED BY <1>1, InvariantHolds, PTL
=============================================================================
