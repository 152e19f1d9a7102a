------------------------------- MODULE SdCard -------------------------------
(* The MicroSD card driver of libds2 (libfat/source/ds2_msc*.c) and the card  *)
(* behind it.                                                                 *)
(*                                                                            *)
(* MMC_Initialize sends one command after the other; each handler looks at    *)
(* the last command and its response, and chooses the next one.  One action   *)
(* of the module is one handler: the response in "rsp" is consumed, the next  *)
(* command sent.  A command or its response may be lost at any time.          *)
(*                                                                            *)
(* Once the card is up, a transfer is a chain of three or four commands that  *)
(* the application waits for; Transfers is the set of its outcomes.           *)
EXTENDS Naturals, Sequences, FiniteSets

CONSTANTS
    Kinds,      \* the kinds of cards: a subset of AllKinds
    BlockCount, \* blocks on the card
    BlockSize,  \* MMC_BLOCKSIZE
    Limit41,    \* how often SD_SEND_OP_COND is sent: 100 in the code
    MaxPolls,   \* bound: the polls that a card needs to power up
    LateFaults  \* whether the commands of mmc_select_card may fail too

AllKinds == {"sd1", "sd2", "sdhc", "mmc"}

ASSUME CardAssumption ==
    /\ Kinds \subseteq AllKinds
    /\ BlockCount \in Nat \ {0} /\ BlockSize \in Nat \ {0}
    /\ Limit41 \in Nat \ {0} /\ MaxPolls \in Nat
    /\ LateFaults \in BOOLEAN

VARIABLES
    card,   \* the card, as its specification has it
    blocks, \* what the card stores, block by block
    drv,    \* mmcinfo, sd2_0, limit_41, num_6 and use_4bit
    cmd,    \* request->cmd: the last command sent during initialisation
    rsp     \* its response, as the mmc_unpack functions report it

cardVars == <<card, blocks, drv, cmd, rsp>>

Block == 0..BlockCount - 1
Stale == BlockCount \* contents that no block should have

(* What a handler learns of a response: nothing came, or it had an error bit  *)
(* or the wrong header; the card is still busy powering up; or all is well.   *)
Responses == {"none", "error", "busy", "ok"}

Cards == [kind : Kinds, mode : {"idle", "ready", "ident", "stby", "tran", "data"},
          app : BOOLEAN, hcs : BOOLEAN, wide : BOOLEAN, polls : 0..MaxPolls]

Drivers == [sd : BOOLEAN, sd2_0 : BOOLEAN, limit_41 : 0..Limit41, use_4bit : BOOLEAN,
            num_6 : {0, 3}, block_num : {0, BlockCount}]

Commands == {"GO_IDLE_STATE", "SEND_IF_COND", "APP_CMD", "SD_SEND_OP_COND",
             "SEND_OP_COND", "ALL_SEND_CID", "SET_RELATIVE_ADDR", "SEND_CSD",
             "SELECT_CARD", "SWITCH", "SWITCH_HS", "APP_CMD_RCA", "SET_BUS_WIDTH"}
Phases == {"off", "failed", "up", "unmounted"}

-----------------------------------------------------------------------------
(* The card.                                                                  *)

IsSd(c) == c.kind # "mmc"

(* An SDHC card never becomes ready for a host that has not sent command 8.   *)
Busy(c) == c.polls > 0 \/ (c.kind = "sdhc" /\ ~c.hcs)

Poll(c) == [c EXCEPT !.polls = IF @ > 0 THEN @ - 1 ELSE 0, !.app = FALSE,
                     !.mode = IF Busy(c) THEN "idle" ELSE "ready"]

(* Whether the card answers command k in its present mode.  A card that does  *)
(* not know a command, or not in this mode, stays silent.                     *)
Accepts(c, k) ==
    \/ k = "SEND_IF_COND" /\ c.mode = "idle" /\ c.kind \in {"sd2", "sdhc"}
    \/ k = "APP_CMD" /\ c.mode = "idle" /\ IsSd(c)
    \/ k = "SD_SEND_OP_COND" /\ c.mode = "idle" /\ c.app
    \/ k = "SEND_OP_COND" /\ c.mode = "idle" /\ ~IsSd(c)
    \/ k = "ALL_SEND_CID" /\ c.mode = "ready"
    \/ k = "SET_RELATIVE_ADDR" /\ c.mode = "ident"
    \/ k = "SEND_CSD" /\ c.mode = "stby"
    \/ k = "SELECT_CARD" /\ c.mode = "stby"
    \/ k \in {"SWITCH", "SWITCH_HS"} /\ c.mode = "tran" /\ c.kind = "sdhc"
    \/ k = "APP_CMD_RCA" /\ c.mode = "tran" /\ IsSd(c)
    \/ k = "SET_BUS_WIDTH" /\ c.mode = "tran" /\ c.app
    \/ k = "SEND_STATUS" /\ c.mode \in {"stby", "tran", "data"}
    \/ k = "SET_BLOCKLEN" /\ c.mode = "tran"
    \/ k = "STOP_TRANSMISSION" /\ c.mode = "data"

(* The card after a command that it accepts.                                  *)
After(c, k) ==
    CASE k = "SEND_IF_COND" -> [c EXCEPT !.hcs = TRUE]
      [] k \in {"APP_CMD", "APP_CMD_RCA"} -> [c EXCEPT !.app = TRUE]
      [] k \in {"SD_SEND_OP_COND", "SEND_OP_COND"} -> Poll(c)
      [] k = "ALL_SEND_CID" -> [c EXCEPT !.mode = "ident"]
      [] k = "SET_RELATIVE_ADDR" -> [c EXCEPT !.mode = "stby"]
      [] k = "SELECT_CARD" -> [c EXCEPT !.mode = "tran"]
      [] k = "SET_BUS_WIDTH" -> [c EXCEPT !.wide = TRUE, !.app = FALSE]
      [] k = "STOP_TRANSMISSION" -> [c EXCEPT !.mode = "tran"]
      [] OTHER -> c

Answer(c, k) == IF k \in {"SD_SEND_OP_COND", "SEND_OP_COND"} /\ Busy(c) THEN "busy" ELSE "ok"

(* What may become of command k: it is lost, or it is carried out, and its    *)
(* response may be lost, or damaged.                                          *)
Exchange(c, k, faults) ==
    LET lost    == [card |-> c, rsp |-> "none"]
        done    == [card |-> After(c, k), rsp |-> Answer(c, k)]
    IN  IF Accepts(c, k)
        THEN {done} \union (IF faults THEN {lost} \union
                 {[done EXCEPT !.rsp = r] : r \in {"none", "error"}} ELSE {})
        ELSE {lost}

(* GO_IDLE_STATE has no response and returns the card to where power-up left  *)
(* it; the card may miss it.                                                  *)
Reset(c) == [c EXCEPT !.mode = "idle", !.app = FALSE, !.hcs = FALSE, !.wide = FALSE]

-----------------------------------------------------------------------------
(* Initialisation.                                                            *)

CardInit ==
    /\ card \in {[kind |-> k, mode |-> "idle", app |-> FALSE, hcs |-> FALSE,
                  wide |-> FALSE, polls |-> p] : k \in Kinds, p \in 0..MaxPolls}
    /\ blocks = [b \in Block |-> b]
    /\ drv = [sd |-> FALSE, sd2_0 |-> FALSE, limit_41 |-> 0, use_4bit |-> FALSE,
              num_6 |-> 0, block_num |-> 0]
    /\ cmd = "off" /\ rsp = "none"

(* mmc_simple_cmd: command k is sent, and its response awaited.               *)
Send(k, faults) ==
    /\ cmd' = k
    /\ \E x \in Exchange(card, k, faults) : card' = x.card /\ rsp' = x.rsp
    /\ UNCHANGED blocks

Stop(phase) ==
    /\ cmd' = phase /\ rsp' = "none"
    /\ UNCHANGED <<card, blocks>>

SendGoIdle ==
    /\ cmd' = "GO_IDLE_STATE" /\ rsp' = "none"
    /\ card' \in {card, Reset(card)}
    /\ UNCHANGED blocks

(* MMC_Initialize, up to the first turn of the loop in mmc_init_card.         *)
MMC_Initialize ==
    /\ cmd \in {"off", "failed"}
    /\ drv' = [drv EXCEPT !.num_6 = 0, !.limit_41 = 0, !.sd2_0 = FALSE,
                          !.use_4bit = FALSE, !.sd = TRUE]
    /\ SendGoIdle

AfterGoIdle ==
    /\ cmd = "GO_IDLE_STATE"
    /\ IF drv.sd THEN Send("SEND_IF_COND", TRUE) ELSE Send("SEND_OP_COND", TRUE)
    /\ drv' = IF drv.sd THEN drv ELSE [drv EXCEPT !.use_4bit = FALSE]

(* The response to command 8 is unpacked, and not looked at.                  *)
AfterSendIfCond ==
    /\ cmd = "SEND_IF_COND"
    /\ Send("APP_CMD", TRUE)
    /\ UNCHANGED drv

\* Mutant: the turns are not counted.
AppCmdForever ==
    /\ cmd = "APP_CMD"
    /\ Send("SD_SEND_OP_COND", TRUE)
    /\ UNCHANGED drv

(* SD_SEND_OP_COND is sent whatever came of APP_CMD, a number of times; then  *)
(* the card is taken for an MMC card.                                         *)
AfterAppCmd ==
    /\ cmd = "APP_CMD"
    /\ \/ /\ drv.limit_41 < Limit41
          /\ drv' = [drv EXCEPT !.limit_41 = @ + 1]
          /\ Send("SD_SEND_OP_COND", TRUE)
       \/ /\ drv.limit_41 = Limit41
          /\ drv' = [drv EXCEPT !.sd = FALSE]
          /\ SendGoIdle

AfterSdSendOpCond ==
    /\ cmd = "SD_SEND_OP_COND"
    /\ \/ /\ rsp \in {"none", "error"}
          /\ drv' = [drv EXCEPT !.use_4bit = FALSE]
          /\ Send("SEND_OP_COND", TRUE)
       \/ /\ rsp = "busy"
          /\ Send("APP_CMD", TRUE)
          /\ UNCHANGED drv
       \/ /\ rsp = "ok"
          /\ drv' = [drv EXCEPT !.sd = TRUE]
          /\ Send("ALL_SEND_CID", TRUE)

AfterSendOpCond ==
    /\ cmd = "SEND_OP_COND"
    /\ \/ /\ rsp \in {"none", "error"}
          /\ Stop("failed")
          /\ UNCHANGED drv
       \/ /\ rsp = "busy"
          /\ Send("SEND_OP_COND", TRUE)
          /\ UNCHANGED drv
       \/ /\ rsp = "ok"
          /\ drv' = [drv EXCEPT !.sd = FALSE]
          /\ Send("ALL_SEND_CID", TRUE)

AfterAllSendCid ==
    /\ cmd = "ALL_SEND_CID"
    /\ IF rsp = "ok" THEN Send("SET_RELATIVE_ADDR", TRUE) ELSE Stop("failed")
    /\ UNCHANGED drv

AfterSetRelativeAddr ==
    /\ cmd = "SET_RELATIVE_ADDR"
    /\ IF rsp = "ok" THEN Send("SEND_CSD", TRUE) ELSE Stop("failed")
    /\ UNCHANGED drv

(* mmc_unpack_csd: the CSD of an SDHC card has version 1, that of the others  *)
(* version 0.                                                                 *)
CsdStructure(c) == IF c.kind = "sdhc" THEN 1 ELSE 0

(* mmc_configure_card finds the size; mmc_select_card begins.                 *)
AfterSendCsd ==
    /\ cmd = "SEND_CSD"
    /\ IF rsp = "ok"
       THEN /\ drv' = [drv EXCEPT !.sd2_0 = CsdStructure(card) # 0, !.block_num = BlockCount]
            /\ Send("SELECT_CARD", LateFaults)
       ELSE Stop("failed") /\ UNCHANGED drv

(* What mmc_select_card returns is not looked at: the driver is up even when  *)
(* the card was not selected or has kept its narrow bus.                      *)
AfterSelectCard ==
    /\ cmd = "SELECT_CARD"
    /\ \/ /\ rsp # "ok" \/ ~drv.sd
          /\ Stop("up")
          /\ UNCHANGED drv
       \/ /\ rsp = "ok" /\ drv.sd /\ drv.sd2_0
          /\ Send("SWITCH", LateFaults)
          /\ drv' = [drv EXCEPT !.use_4bit = FALSE]
       \/ /\ rsp = "ok" /\ drv.sd /\ ~drv.sd2_0
          /\ Send("APP_CMD_RCA", LateFaults)
          /\ drv' = [drv EXCEPT !.num_6 = 3]

(* Command 6 serves to ask for the high speed, to switch to it, and, after    *)
(* APP_CMD, to widen the bus; num_6 tells the driver whether data follows.    *)
AfterSwitch ==
    /\ cmd \in {"SWITCH", "SWITCH_HS"}
    /\ \/ /\ cmd = "SWITCH" /\ rsp = "ok"
          /\ Send("SWITCH_HS", LateFaults)
          /\ UNCHANGED drv
       \/ /\ Send("APP_CMD_RCA", LateFaults)
          /\ drv' = [drv EXCEPT !.num_6 = 3]

\* Mutant: the driver does not use the bus that it asks for.
AppCmdRcaOnly ==
    /\ cmd = "APP_CMD_RCA"
    /\ IF rsp = "ok" THEN Send("SET_BUS_WIDTH", LateFaults) ELSE Stop("up")
    /\ UNCHANGED drv

AfterAppCmdRca ==
    /\ cmd = "APP_CMD_RCA"
    /\ IF rsp = "ok"
       THEN Send("SET_BUS_WIDTH", LateFaults) /\ drv' = [drv EXCEPT !.use_4bit = TRUE]
       ELSE Stop("up") /\ UNCHANGED drv

AfterSetBusWidth ==
    /\ cmd = "SET_BUS_WIDTH"
    /\ Stop("up")
    /\ UNCHANGED drv

CardStep ==
    \/ AfterGoIdle \/ AfterSendIfCond \/ AfterAppCmd \/ AfterSdSendOpCond
    \/ AfterSendOpCond \/ AfterAllSendCid \/ AfterSetRelativeAddr \/ AfterSendCsd
    \/ AfterSelectCard \/ AfterSwitch \/ AfterAppCmdRca \/ AfterSetBusWidth

-----------------------------------------------------------------------------
(* Transfers, once the driver is up.                                          *)

(* The argument of a data command, and the block that the card takes it for.  *)
Argument(b) == IF drv.sd2_0 THEN b ELSE b * BlockSize
BlockAt(c, arg) == IF c.kind = "sdhc" THEN arg ELSE arg \div BlockSize

(* The blocks that a data command for n blocks from argument arg reaches.     *)
Reached(c, arg, n) == {b \in Block : BlockAt(c, arg) <= b /\ b < BlockAt(c, arg) + n}

(* The range checks of MMC_ReadBlock, MMC_ReadMultiBlock and the two writes.  *)
InRange(first, n, write) ==
    IF n > 1 /\ ~write THEN first + n <= drv.block_num ELSE first <= drv.block_num

(* The outcomes of a transfer of n blocks from block "first": whether it is   *)
(* reported as done, whether data moved, and what became of the card.  With   *)
(* several blocks, the transfer goes on until STOP_TRANSMISSION; when that is *)
(* lost, the data has moved although the transfer is reported as failed.      *)
Transfers(first, n, write) ==
    LET Outcome(c, ok, moved) == [card |-> c, ok |-> ok, moved |-> moved]
        Answered(cs, k) == UNION {Exchange(c, k, TRUE) : c \in cs}
        Good(xs)   == {x.card : x \in {y \in xs : y.rsp = "ok"}}
        Bad(xs)    == {Outcome(x.card, FALSE, FALSE) : x \in {y \in xs : y.rsp # "ok"}}
        status     == Answered({card}, "SEND_STATUS")
        blocklen   == Answered(Good(status), "SET_BLOCKLEN")
        fits       == BlockAt(card, Argument(first)) + n <= BlockCount
        started    == {[c EXCEPT !.mode = IF n > 1 THEN "data" ELSE "tran"] :
                          c \in Good(blocklen)}
        stopped    == Answered(started, "STOP_TRANSMISSION")
    IN  {Outcome(card, FALSE, FALSE)} \union
        (IF InRange(first, n, write)
         THEN Bad(status) \union Bad(blocklen) \union
              (IF ~fits THEN {}
               ELSE IF n > 1
               THEN {Outcome(c, FALSE, FALSE) : c \in started} \union
                    {Outcome(x.card, x.rsp = "ok", TRUE) : x \in stopped}
               ELSE {Outcome(c, TRUE, TRUE) : c \in started})
         ELSE {})

(* MMC_ReadBlock and MMC_ReadMultiBlock; MMC_WriteBlock and                   *)
(* MMC_WriteMultiBlock.                                                       *)
Reads(first, n) == Transfers(first, n, FALSE)
Writes(first, n) == Transfers(first, n, TRUE)

(* The data of a transfer is as sent only if both ends use the same bus.      *)
SameBus == drv.use_4bit = card.wide

(* _MMC_ReadSectors: what arrives, block by block.                            *)
Fetched(first, n) ==
    [i \in 0..n - 1 |->
        IF SameBus THEN blocks[BlockAt(card, Argument(first)) + i] ELSE Stale]

(* _MMC_WriteSectors: what the card stores once "data" has moved.             *)
Stored(first, n, data) ==
    [b \in Block |->
        IF b \in Reached(card, Argument(first), n)
        THEN IF SameBus THEN data[b - BlockAt(card, Argument(first))] ELSE Stale
        ELSE blocks[b]]

CardTypeOK ==
    /\ card \in Cards
    /\ blocks \in [Block -> Block \union {Stale}]
    /\ drv \in Drivers
    /\ cmd \in Commands \union Phases
    /\ rsp \in Responses
=============================================================================
