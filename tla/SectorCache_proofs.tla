-------------------------- MODULE SectorCache_proofs --------------------------
(***************************************************************************)
(* Proofs about SectorCache and the driver below it, for cards, caches and *)
(* calls of any size, whatever commands and transfers fail: what was       *)
(* written is kept, a flush that succeeds has stored it, and a driver that *)
(* is up agrees with its card.                                             *)
(***************************************************************************)
EXTENDS SectorCache, FiniteSetTheorems, SequenceTheorems, WellFoundedInduction, TLAPS

(* How far the identification of the card has come, by the last command.      *)
Mounted == {"up", "unmounted"}
Selected == {"SELECT_CARD", "SWITCH", "SWITCH_HS", "APP_CMD_RCA", "SET_BUS_WIDTH"} \union Mounted
Identified == {"ALL_SEND_CID", "SET_RELATIVE_ADDR", "SEND_CSD"} \union Selected

(* What the driver takes the card for is what it is, from the command on that *)
(* only a card which has powered up answers.                                  *)
Known ==
    /\ card.app => IsSd(card)
    /\ cmd = "SD_SEND_OP_COND" /\ rsp = "ok" => IsSd(card)
    /\ cmd = "SEND_OP_COND" /\ rsp = "ok" => ~IsSd(card)
    /\ cmd \in Identified => (drv.sd <=> IsSd(card))
    /\ cmd = "SEND_CSD" /\ rsp = "ok" => card.mode = "stby"
    /\ cmd \in Selected => (drv.sd2_0 <=> card.kind = "sdhc")
    /\ cmd \in {"SWITCH", "SWITCH_HS"} => card.kind = "sdhc"

(* The bus stays narrow until the card is told otherwise.                     *)
Narrow ==
    /\ cmd \notin Mounted \union {"SET_BUS_WIDTH"} => ~card.wide /\ ~drv.use_4bit

(* If nothing is lost once the card is selected, both ends widen the bus, or  *)
(* neither does.                                                              *)
Agreed ==
    ~LateFaults =>
        /\ cmd \in {"SELECT_CARD", "SWITCH", "SWITCH_HS", "APP_CMD_RCA"} =>
              card.mode = "tran" /\ rsp = "ok"
        /\ cmd = "APP_CMD_RCA" => card.app
        /\ cmd \in Mounted \union {"SET_BUS_WIDTH"} => SameBus

DriverInv == CardTypeOK /\ Known /\ Narrow /\ Agreed

(* Until the card is mounted, nothing has touched the cache or the blocks.    *)
Fresh ==
    cmd \notin Mounted =>
        /\ \A b \in Block : blocks[b] = b
        /\ \A p \in Page : pages[p] = FreePage
        /\ call = Idle /\ suspect = {} /\ flushed = FALSE

(* A call stays within the partition, and is made once the driver is up.      *)
CallFits ==
    /\ call.op # "idle" => cmd = "up" /\ ~flushed
    /\ call.op \in {"read", "write"} =>
          call.left \in Nat \ {0} /\ call.sector + call.left <= EndOfPartition

InUse(p) == pages[p].sector # CACHE_FREE

(* Pages hold the sectors of a whole page, each another one; free pages hold  *)
(* nothing; pages in use are those that have been used.                       *)
PagesFit ==
    /\ \A p \in Page : pages[p].dirty => InUse(p)
    /\ \A p \in Page : InUse(p) =>
          Base(pages[p].sector) = pages[p].sector /\ pages[p].count = Count(pages[p].sector)
    /\ \A p, q \in Page : InUse(p) /\ pages[p].sector = pages[q].sector => p = q
    /\ \A p \in Page : InUse(p) => p \in Range(used)

(* The current contents of a sector are where WrittenIsKept says.             *)
Current ==
    SameBus => \A s \in Sector \ suspect :
        /\ \A p \in Holding(s) : pages[p].data[s - pages[p].sector] = s
        /\ (\A p \in Holding(s) : ~pages[p].dirty) => blocks[s] = s

FlushedIsClean == flushed => \A p \in Page : ~pages[p].dirty

CacheInv ==
    /\ DriverInv /\ TypeOK
    /\ Fresh /\ CallFits /\ PagesFit /\ Current /\ FlushedIsClean

-----------------------------------------------------------------------------
(* The card.                                                                  *)

(* What a command that a card accepts makes of it.                            *)
LEMMA AfterFact ==
  ASSUME NEW c \in Cards, NEW k
  PROVE  /\ After(c, k) \in Cards /\ After(c, k).kind = c.kind
         /\ After(c, k).app => c.app \/ k \in {"APP_CMD", "APP_CMD_RCA"}
         /\ After(c, k).wide <=> c.wide \/ k = "SET_BUS_WIDTH"
         /\ k \in {"APP_CMD", "APP_CMD_RCA"} => After(c, k).app
         /\ k = "SELECT_CARD" => After(c, k).mode = "tran"
         /\ k = "SET_RELATIVE_ADDR" => After(c, k).mode = "stby"
         /\ k \in {"SEND_CSD", "SWITCH", "SWITCH_HS", "SEND_STATUS", "SET_BLOCKLEN"} =>
               After(c, k) = c
         /\ k = "APP_CMD_RCA" => After(c, k).mode = c.mode
         /\ k = "STOP_TRANSMISSION" =>
               After(c, k).app = c.app /\ After(c, k).wide = c.wide
  <1>1. Poll(c) \in Cards /\ Poll(c).kind = c.kind /\ ~Poll(c).app /\ Poll(c).wide = c.wide
    <2> DEFINE p == IF c.polls > 0 THEN c.polls - 1 ELSE 0
               m == IF Busy(c) THEN "idle" ELSE "ready"
    <2>1. p \in 0..MaxPolls
      BY CardAssumption DEF Cards
    <2>2. m \in {"idle", "ready"}
      BY DEF Busy
    <2>3. Poll(c) = [c EXCEPT !.polls = p, !.app = FALSE, !.mode = m]
      BY DEF Poll
    <2> HIDE DEF p, m
    <2>4. QED
      BY <2>1, <2>2, <2>3 DEF Cards
  <1>2. CASE k \in {"SD_SEND_OP_COND", "SEND_OP_COND"}
    <2>1. After(c, k) = Poll(c)
      BY <1>2 DEF After
    <2>2. QED
      BY <1>1, <1>2, <2>1
  <1>3. CASE k \notin {"SD_SEND_OP_COND", "SEND_OP_COND"}
    BY <1>3 DEF After, Cards
  <1>4. QED
    BY <1>2, <1>3

(* A response says that the card has accepted the command; and if nothing is  *)
(* lost, an accepted command has one.                                         *)
LEMMA ExchangeFact ==
  ASSUME NEW c \in Cards, NEW k, NEW faults \in BOOLEAN, NEW x \in Exchange(c, k, faults)
  PROVE  /\ x.card \in Cards /\ x.rsp \in Responses
         /\ x.card = c \/ (Accepts(c, k) /\ x.card = After(c, k))
         /\ x.rsp = "ok" => Accepts(c, k) /\ x.card = After(c, k)
         /\ ~faults /\ Accepts(c, k) => x.card = After(c, k) /\ x.rsp = Answer(c, k)
  <1> DEFINE lost == [card |-> c, rsp |-> "none"]
             done == [card |-> After(c, k), rsp |-> Answer(c, k)]
  <1>1. done.card = After(c, k) /\ done.rsp = Answer(c, k) /\ Answer(c, k) \in Responses
    BY DEF Answer, Responses
  <1>2. lost.card = c /\ lost.rsp = "none" /\ "none" \in Responses /\ "error" \in Responses
    BY DEF Responses
  <1>3. \A r : [done EXCEPT !.rsp = r].card = After(c, k) /\ [done EXCEPT !.rsp = r].rsp = r
    OBVIOUS
  <1>4. \/ x = lost /\ (faults \/ ~Accepts(c, k))
        \/ x = done /\ Accepts(c, k)
        \/ faults /\ Accepts(c, k) /\ \E r \in {"none", "error"} : x = [done EXCEPT !.rsp = r]
    BY DEF Exchange
  <1>5. After(c, k) \in Cards
    BY AfterFact
  <1> HIDE DEF lost, done
  <1>6. QED
    BY <1>1, <1>2, <1>3, <1>4, <1>5

LEMMA SendFact ==
  ASSUME CardTypeOK, NEW k, NEW faults \in BOOLEAN, Send(k, faults)
  PROVE  /\ cmd' = k /\ UNCHANGED blocks
         /\ card' \in Cards /\ rsp' \in Responses /\ card'.kind = card.kind
         /\ card' = card \/ (Accepts(card, k) /\ card' = After(card, k))
         /\ rsp' = "ok" => Accepts(card, k) /\ card' = After(card, k)
         /\ ~faults /\ Accepts(card, k) => card' = After(card, k) /\ rsp' = Answer(card, k)
  <1>1. PICK x \in Exchange(card, k, faults) : card' = x.card /\ rsp' = x.rsp
    BY DEF Send
  <1>2. card \in Cards
    BY DEF CardTypeOK
  <1>3. /\ x.card \in Cards /\ x.rsp \in Responses
        /\ x.card = card \/ (Accepts(card, k) /\ x.card = After(card, k))
        /\ x.rsp = "ok" => Accepts(card, k) /\ x.card = After(card, k)
        /\ ~faults /\ Accepts(card, k) => x.card = After(card, k) /\ x.rsp = Answer(card, k)
    BY <1>2, ExchangeFact
  <1>4. After(card, k).kind = card.kind
    BY <1>2, AfterFact
  <1>5. QED
    BY <1>1, <1>3, <1>4 DEF Send

(* GO_IDLE_STATE makes the bus narrow, and ends an application command.       *)
LEMMA GoIdleFact ==
  ASSUME CardTypeOK, SendGoIdle
  PROVE  /\ card' \in Cards /\ card'.kind = card.kind /\ cmd' = "GO_IDLE_STATE"
         /\ rsp' = "none" /\ UNCHANGED blocks
         /\ card'.app => card.app
         /\ card'.wide => card.wide
  BY DEF CardTypeOK, SendGoIdle, Reset, Cards

-----------------------------------------------------------------------------
(* Identification.                                                            *)

(* What a command leaves of the card that the driver has come to know.        *)
LEMMA SendKeeps ==
  ASSUME DriverInv, NEW k \in Commands, NEW faults \in BOOLEAN, Send(k, faults)
  PROVE  /\ cmd' = k /\ card' \in Cards /\ rsp' \in Responses /\ UNCHANGED blocks
         /\ card'.kind = card.kind /\ (IsSd(card') <=> IsSd(card))
         /\ card'.app => IsSd(card)
         /\ k # "SET_BUS_WIDTH" => card'.wide = card.wide
         /\ k = "SD_SEND_OP_COND" /\ rsp' = "ok" => IsSd(card)
         /\ k = "SEND_OP_COND" /\ rsp' = "ok" => ~IsSd(card)
         /\ k = "SEND_CSD" /\ rsp' = "ok" => card'.mode = "stby"
         /\ ~faults /\ k = "SELECT_CARD" /\ card.mode = "stby" => card'.mode = "tran" /\ rsp' = "ok"
         /\ ~faults /\ k \in {"SWITCH", "SWITCH_HS"} /\ card.mode = "tran" /\ card.kind = "sdhc" =>
               card'.mode = "tran" /\ rsp' = "ok"
         /\ ~faults /\ k = "APP_CMD_RCA" /\ card.mode = "tran" /\ IsSd(card) =>
               card'.mode = "tran" /\ card'.app /\ rsp' = "ok"
         /\ ~faults /\ k = "SET_BUS_WIDTH" /\ card.mode = "tran" /\ card.app => card'.wide
  <1>1. CardTypeOK /\ card \in Cards /\ (card.app => IsSd(card))
    BY DEF DriverInv, CardTypeOK, Known
  <1>2. /\ cmd' = k /\ UNCHANGED blocks
        /\ card' \in Cards /\ rsp' \in Responses /\ card'.kind = card.kind
        /\ card' = card \/ (Accepts(card, k) /\ card' = After(card, k))
        /\ rsp' = "ok" => Accepts(card, k) /\ card' = After(card, k)
        /\ ~faults /\ Accepts(card, k) => card' = After(card, k) /\ rsp' = Answer(card, k)
    BY <1>1, SendFact
  <1>3. /\ After(card, k).app => card.app \/ k \in {"APP_CMD", "APP_CMD_RCA"}
        /\ After(card, k).wide <=> card.wide \/ k = "SET_BUS_WIDTH"
        /\ k \in {"APP_CMD", "APP_CMD_RCA"} => After(card, k).app
        /\ k = "SELECT_CARD" => After(card, k).mode = "tran"
        /\ k \in {"SEND_CSD", "SWITCH", "SWITCH_HS"} => After(card, k) = card
        /\ k = "APP_CMD_RCA" => After(card, k).mode = card.mode
    BY <1>1, AfterFact
  <1>4. k \in {"APP_CMD", "APP_CMD_RCA"} /\ Accepts(card, k) => IsSd(card)
    BY DEF Accepts
  <1>5. /\ k = "SD_SEND_OP_COND" /\ Accepts(card, k) => card.app
        /\ k = "SEND_OP_COND" /\ Accepts(card, k) => ~IsSd(card)
        /\ k = "SEND_CSD" /\ Accepts(card, k) => card.mode = "stby"
    BY DEF Accepts
  <1>6. /\ k = "SELECT_CARD" /\ card.mode = "stby" => Accepts(card, k)
        /\ k \in {"SWITCH", "SWITCH_HS"} /\ card.mode = "tran" /\ card.kind = "sdhc" => Accepts(card, k)
        /\ k = "APP_CMD_RCA" /\ card.mode = "tran" /\ IsSd(card) => Accepts(card, k)
        /\ k = "SET_BUS_WIDTH" /\ card.mode = "tran" /\ card.app => Accepts(card, k)
    BY DEF Accepts
  <1>7. k \notin {"SD_SEND_OP_COND", "SEND_OP_COND"} => Answer(card, k) = "ok"
    BY DEF Answer
  <1>8. IsSd(card') <=> IsSd(card)
    BY <1>2 DEF IsSd
  <1>9. card'.app => IsSd(card)
    BY <1>1, <1>2, <1>3, <1>4
  <1>10. k # "SET_BUS_WIDTH" => card'.wide = card.wide
    <2>1. card.wide \in BOOLEAN /\ After(card, k).wide \in BOOLEAN
      BY <1>1, AfterFact DEF Cards
    <2>2. QED
      BY <1>2, <1>3, <2>1
  <1>11. QED
    BY <1>1, <1>2, <1>3, <1>5, <1>6, <1>7, <1>8, <1>9, <1>10

LEMMA DriverInit == CardInit => DriverInv
  <1> SUFFICES ASSUME CardInit PROVE DriverInv
    OBVIOUS
  <1>1. card \in Cards /\ ~card.app /\ ~card.wide
    <2>1. PICK k \in Kinds, p \in 0..MaxPolls :
             card = [kind |-> k, mode |-> "idle", app |-> FALSE, hcs |-> FALSE,
                     wide |-> FALSE, polls |-> p]
      BY DEF CardInit
    <2>2. QED
      BY <2>1 DEF Cards
  <1>2. drv \in Drivers /\ ~drv.use_4bit
    BY CardAssumption DEF CardInit, Drivers
  <1>3. blocks \in [Block -> Block \union {Stale}]
    BY DEF CardInit
  <1>4. QED
    BY <1>1, <1>2, <1>3
    DEF CardInit, DriverInv, CardTypeOK, Known, Narrow, Agreed, Phases, Responses, Identified,
        Selected, Mounted

(* MMC_Initialize and the handlers up to the one that finds the card's size.  *)
LEMMA IdentifyStep ==
  ASSUME DriverInv,
         \/ MMC_Initialize \/ AfterGoIdle \/ AfterSendIfCond \/ AfterAppCmd \/ AfterSdSendOpCond
         \/ AfterSendOpCond \/ AfterAllSendCid \/ AfterSetRelativeAddr
  PROVE  DriverInv'
  <1> USE DEF Commands, Phases, Identified, Selected, Mounted
  <1>1. /\ card \in Cards /\ drv \in Drivers /\ CardTypeOK
        /\ blocks \in [Block -> Block \union {Stale}]
        /\ card.app => IsSd(card)
    BY DEF DriverInv, CardTypeOK, Known
  <1>2. ASSUME drv' \in Drivers, ~drv'.use_4bit, SendGoIdle, ~card.wide
        PROVE  DriverInv'
    <2>1. /\ card' \in Cards /\ card'.kind = card.kind /\ cmd' = "GO_IDLE_STATE"
          /\ rsp' = "none" /\ UNCHANGED blocks
          /\ card'.app => card.app
          /\ card'.wide => card.wide
      BY <1>1, <1>2, GoIdleFact
    <2>2. IsSd(card') <=> IsSd(card)
      BY <2>1 DEF IsSd
    <2>3. QED
      BY <1>1, <1>2, <2>1, <2>2
      DEF DriverInv, CardTypeOK, Known, Narrow, Agreed, Responses
  <1>3. ASSUME NEW k \in Commands \ Selected, Send(k, TRUE), drv' \in Drivers, ~drv'.use_4bit,
               ~card.wide, k \in Identified => (drv'.sd <=> IsSd(card))
        PROVE  DriverInv'
    <2>1. /\ cmd' = k /\ card' \in Cards /\ rsp' \in Responses /\ UNCHANGED blocks
          /\ card'.kind = card.kind /\ (IsSd(card') <=> IsSd(card))
          /\ card'.app => IsSd(card)
          /\ card'.wide = card.wide
          /\ k = "SD_SEND_OP_COND" /\ rsp' = "ok" => IsSd(card)
          /\ k = "SEND_OP_COND" /\ rsp' = "ok" => ~IsSd(card)
          /\ k = "SEND_CSD" /\ rsp' = "ok" => card'.mode = "stby"
      BY <1>3, SendKeeps
    <2>2. QED
      BY <1>1, <1>3, <2>1 DEF DriverInv, CardTypeOK, Known, Narrow, Agreed
  <1>4. ASSUME Stop("failed"), UNCHANGED drv, ~card.wide, ~drv.use_4bit
        PROVE  DriverInv'
    BY <1>1, <1>4 DEF Stop, DriverInv, CardTypeOK, Known, Narrow, Agreed, Responses
  <1>5. cmd \notin Mounted \union {"SET_BUS_WIDTH"} /\ cmd \notin Selected
    BY DEF MMC_Initialize, AfterGoIdle, AfterSendIfCond, AfterAppCmd, AfterSdSendOpCond,
           AfterSendOpCond, AfterAllSendCid, AfterSetRelativeAddr
  <1>6. ~card.wide /\ ~drv.use_4bit
    BY <1>5 DEF DriverInv, Narrow
  <1>7. CASE MMC_Initialize
    <2>1. drv' \in Drivers /\ ~drv'.use_4bit
      <3>1. 0 \in 0..Limit41 /\ 0 \in {0, 3}
        BY CardAssumption
      <3>2. drv' = [drv EXCEPT !.num_6 = 0, !.limit_41 = 0, !.sd2_0 = FALSE,
                                !.use_4bit = FALSE, !.sd = TRUE]
        BY <1>7 DEF MMC_Initialize
      <3>3. QED
        BY ONLY <1>1, <3>1, <3>2 DEF Drivers
    <2>2. QED
      BY <1>2, <1>6, <1>7, <2>1 DEF MMC_Initialize
  <1>8. CASE AfterGoIdle
    <2>1. drv' \in Drivers /\ ~drv'.use_4bit
      BY <1>1, <1>6, <1>8 DEF AfterGoIdle, Drivers
    <2>2. Send("SEND_IF_COND", TRUE) \/ Send("SEND_OP_COND", TRUE)
      BY <1>8 DEF AfterGoIdle
    <2>3. QED
      BY <1>3, <1>6, <2>1, <2>2
  <1>9. CASE AfterSendIfCond
    BY <1>1, <1>3, <1>6, <1>9 DEF AfterSendIfCond
  <1>10. CASE AfterAppCmd
    <2>1. drv' \in Drivers /\ ~drv'.use_4bit
      <3>1. drv.limit_41 \in 0..Limit41
        BY <1>1 DEF Drivers
      <3>2. CASE drv.limit_41 < Limit41 /\ drv' = [drv EXCEPT !.limit_41 = drv.limit_41 + 1]
        <4>1. drv.limit_41 + 1 \in 0..Limit41
          BY <3>1, <3>2, CardAssumption
        <4>2. QED
          BY ONLY <1>1, <1>6, <3>2, <4>1 DEF Drivers
      <3>3. CASE drv' = [drv EXCEPT !.sd = FALSE]
        BY ONLY <1>1, <1>6, <3>3 DEF Drivers
      <3>4. QED
        BY <1>10, <3>2, <3>3, Zenon DEF AfterAppCmd
    <2>2. Send("SD_SEND_OP_COND", TRUE) \/ SendGoIdle
      BY <1>10 DEF AfterAppCmd
    <2>3. QED
      BY <1>2, <1>3, <1>6, <2>1, <2>2
  <1>11. CASE AfterSdSendOpCond
    <2>1. drv' \in Drivers /\ ~drv'.use_4bit
      BY <1>1, <1>6, <1>11 DEF AfterSdSendOpCond, Drivers
    <2>2. CASE rsp = "ok"
      <3>1. Send("ALL_SEND_CID", TRUE) /\ drv' = [drv EXCEPT !.sd = TRUE]
        BY <1>11, <2>2 DEF AfterSdSendOpCond
      <3>2. IsSd(card) /\ drv'.sd
        BY <1>1, <1>11, <2>2, <3>1 DEF AfterSdSendOpCond, DriverInv, Known, Drivers
      <3>3. QED
        BY <1>3, <1>6, <2>1, <3>1, <3>2
    <2>3. CASE rsp # "ok"
      BY <1>3, <1>6, <1>11, <2>1, <2>3 DEF AfterSdSendOpCond
    <2>4. QED
      BY <2>2, <2>3
  <1>12. CASE AfterSendOpCond
    <2>1. drv' \in Drivers /\ ~drv'.use_4bit
      BY <1>1, <1>6, <1>12 DEF AfterSendOpCond, Drivers
    <2>2. CASE rsp = "ok"
      <3>1. Send("ALL_SEND_CID", TRUE) /\ drv' = [drv EXCEPT !.sd = FALSE]
        BY <1>12, <2>2 DEF AfterSendOpCond
      <3>2. ~IsSd(card) /\ ~drv'.sd
        BY <1>1, <1>12, <2>2, <3>1 DEF AfterSendOpCond, DriverInv, Known, Drivers
      <3>3. QED
        BY <1>3, <1>6, <2>1, <3>1, <3>2
    <2>3. CASE rsp # "ok"
      BY <1>3, <1>4, <1>6, <1>12, <2>1, <2>3 DEF AfterSendOpCond
    <2>4. QED
      BY <2>2, <2>3
  <1>13. CASE AfterAllSendCid
    <2>1. drv.sd <=> IsSd(card)
      BY <1>13 DEF AfterAllSendCid, DriverInv, Known
    <2>2. QED
      BY <1>1, <1>3, <1>4, <1>6, <1>13, <2>1 DEF AfterAllSendCid
  <1>14. CASE AfterSetRelativeAddr
    <2>1. drv.sd <=> IsSd(card)
      BY <1>14 DEF AfterSetRelativeAddr, DriverInv, Known
    <2>2. QED
      BY <1>1, <1>3, <1>4, <1>6, <1>14, <2>1 DEF AfterSetRelativeAddr
  <1>15. QED
    BY <1>7, <1>8, <1>9, <1>10, <1>11, <1>12, <1>13, <1>14

(* mmc_configure_card and mmc_select_card.                                    *)
LEMMA SelectStep ==
  ASSUME DriverInv,
         AfterSendCsd \/ AfterSelectCard \/ AfterSwitch \/ AfterAppCmdRca \/ AfterSetBusWidth
  PROVE  DriverInv'
  <1> USE DEF Commands, Phases, Identified, Selected, Mounted
  <1>1. /\ card \in Cards /\ drv \in Drivers /\ CardTypeOK /\ LateFaults \in BOOLEAN
        /\ blocks \in [Block -> Block \union {Stale}]
        /\ card.app => IsSd(card)
        /\ drv.sd <=> IsSd(card)
    BY CardAssumption
    DEF DriverInv, CardTypeOK, Known, AfterSendCsd, AfterSelectCard, AfterSwitch, AfterAppCmdRca,
        AfterSetBusWidth
  <1>2. card.kind = "sdhc" => IsSd(card)
    BY DEF IsSd
  <1>3. ASSUME Stop("up"), UNCHANGED drv, drv.sd2_0 <=> card.kind = "sdhc",
               ~LateFaults => SameBus
        PROVE  DriverInv'
    BY <1>1, <1>3 DEF Stop, DriverInv, CardTypeOK, Known, Narrow, Agreed, Responses, SameBus
  <1>4. ASSUME NEW k \in Selected \ (Mounted \union {"SET_BUS_WIDTH"}), Send(k, LateFaults),
               drv' \in Drivers, drv'.sd = drv.sd, drv'.sd2_0 <=> card.kind = "sdhc",
               ~drv'.use_4bit, ~card.wide,
               k \in {"SWITCH", "SWITCH_HS"} => card.kind = "sdhc",
               k = "APP_CMD_RCA" => (~LateFaults => IsSd(card)),
               ~LateFaults => card.mode = IF k = "SELECT_CARD" THEN "stby" ELSE "tran"
        PROVE  DriverInv'
    <2>1. /\ cmd' = k /\ card' \in Cards /\ rsp' \in Responses /\ UNCHANGED blocks
          /\ card'.kind = card.kind /\ (IsSd(card') <=> IsSd(card))
          /\ card'.app => IsSd(card)
          /\ card'.wide = card.wide
          /\ ~LateFaults => card'.mode = "tran" /\ rsp' = "ok"
          /\ ~LateFaults /\ k = "APP_CMD_RCA" => card'.app
      BY <1>1, <1>4, SendKeeps
    <2>2. CardTypeOK' /\ Narrow'
      BY <1>1, <1>4, <2>1 DEF CardTypeOK, Narrow
    <2>3. Known'
      BY <1>1, <1>4, <2>1 DEF Known
    <2>4. Agreed'
      BY <1>1, <1>2, <1>4, <2>1 DEF Agreed
    <2>5. QED
      BY <2>2, <2>3, <2>4 DEF DriverInv
  <1>5. CASE AfterSendCsd
    <2>1. ~card.wide /\ ~drv.use_4bit
      BY <1>5 DEF AfterSendCsd, DriverInv, Narrow
    <2>2. CASE rsp = "ok"
      <3>1. /\ Send("SELECT_CARD", LateFaults)
            /\ drv' = [drv EXCEPT !.sd2_0 = CsdStructure(card) # 0, !.block_num = BlockCount]
        BY <1>5, <2>2 DEF AfterSendCsd
      <3>2. (CsdStructure(card) # 0) <=> card.kind = "sdhc"
        BY DEF CsdStructure
      <3>3. (CsdStructure(card) # 0) \in BOOLEAN
        OBVIOUS
      <3>4. /\ drv' \in Drivers /\ drv'.sd = drv.sd /\ ~drv'.use_4bit
            /\ drv'.sd2_0 <=> card.kind = "sdhc"
        BY <1>1, <2>1, <3>1, <3>2, <3>3 DEF Drivers
      <3>5. card.mode = "stby"
        BY <1>5, <2>2 DEF AfterSendCsd, DriverInv, Known
      <3>6. QED
        BY <1>4, <2>1, <3>1, <3>4, <3>5
    <2>3. CASE rsp # "ok"
      BY <1>1, <1>5, <2>1, <2>3
      DEF AfterSendCsd, Stop, DriverInv, CardTypeOK, Known, Narrow, Agreed, Responses
    <2>4. QED
      BY <2>2, <2>3
  <1>6. CASE AfterSelectCard
    <2>1. /\ ~card.wide /\ ~drv.use_4bit /\ (drv.sd2_0 <=> card.kind = "sdhc")
          /\ ~LateFaults => card.mode = "tran"
      BY <1>6 DEF AfterSelectCard, DriverInv, Narrow, Known, Agreed
    <2>2. CASE Stop("up") /\ UNCHANGED drv
      <3>1. SameBus
        BY <1>1, <2>1 DEF SameBus, Drivers, Cards
      <3>2. QED
        BY <1>3, <2>1, <2>2, <3>1
    <2>3. CASE drv.sd /\ drv.sd2_0 /\ Send("SWITCH", LateFaults)
               /\ drv' = [drv EXCEPT !.use_4bit = FALSE]
      <3>1. /\ drv' \in Drivers /\ drv'.sd = drv.sd /\ drv'.sd2_0 = drv.sd2_0 /\ ~drv'.use_4bit
        BY <1>1, <2>3 DEF Drivers
      <3>2. QED
        BY <1>4, <2>1, <2>3, <3>1
    <2>4. CASE drv.sd /\ Send("APP_CMD_RCA", LateFaults) /\ drv' = [drv EXCEPT !.num_6 = 3]
      <3>1. /\ drv' \in Drivers /\ drv'.sd = drv.sd /\ drv'.sd2_0 = drv.sd2_0 /\ ~drv'.use_4bit
        BY <1>1, <2>1, <2>4 DEF Drivers
      <3>2. QED
        BY <1>1, <1>4, <2>1, <2>4, <3>1
    <2>5. QED
      BY <1>6, <2>2, <2>3, <2>4, Zenon DEF AfterSelectCard
  <1>7. CASE AfterSwitch
    <2>1. /\ ~card.wide /\ ~drv.use_4bit /\ (drv.sd2_0 <=> card.kind = "sdhc")
          /\ card.kind = "sdhc" /\ (~LateFaults => card.mode = "tran")
      BY <1>7 DEF AfterSwitch, DriverInv, Narrow, Known, Agreed
    <2>2. CASE cmd = "SWITCH" /\ Send("SWITCH_HS", LateFaults) /\ UNCHANGED drv
      BY <1>1, <1>4, <2>1, <2>2
    <2>3. CASE Send("APP_CMD_RCA", LateFaults) /\ drv' = [drv EXCEPT !.num_6 = 3]
      <3>1. /\ drv' \in Drivers /\ drv'.sd = drv.sd /\ drv'.sd2_0 = drv.sd2_0 /\ ~drv'.use_4bit
        BY <1>1, <2>1, <2>3 DEF Drivers
      <3>2. QED
        BY <1>2, <1>4, <2>1, <2>3, <3>1
    <2>4. QED
      BY <1>7, <2>2, <2>3, Zenon DEF AfterSwitch
  <1>8. CASE AfterAppCmdRca
    <2>1. /\ ~card.wide /\ ~drv.use_4bit /\ (drv.sd2_0 <=> card.kind = "sdhc")
          /\ ~LateFaults => card.mode = "tran" /\ rsp = "ok" /\ card.app
      BY <1>8 DEF AfterAppCmdRca, DriverInv, Narrow, Known, Agreed
    <2>2. CASE rsp = "ok"
      <3>1. Send("SET_BUS_WIDTH", LateFaults) /\ drv' = [drv EXCEPT !.use_4bit = TRUE]
        BY <1>8, <2>2 DEF AfterAppCmdRca
      <3>2. /\ cmd' = "SET_BUS_WIDTH" /\ card' \in Cards /\ rsp' \in Responses /\ UNCHANGED blocks
            /\ card'.kind = card.kind /\ (IsSd(card') <=> IsSd(card))
            /\ card'.app => IsSd(card)
            /\ ~LateFaults => card'.wide
        BY <1>1, <2>1, <3>1, SendKeeps
      <3>3. /\ drv' \in Drivers /\ drv'.sd = drv.sd /\ drv'.sd2_0 = drv.sd2_0 /\ drv'.use_4bit
        BY <1>1, <3>1 DEF Drivers
      <3>4. ~LateFaults => SameBus'
        BY <3>2, <3>3 DEF SameBus, Cards, Drivers
      <3>5. QED
        BY <1>1, <2>1, <3>2, <3>3, <3>4 DEF DriverInv, CardTypeOK, Known, Narrow, Agreed
    <2>3. CASE rsp # "ok"
      BY <1>3, <1>8, <2>1, <2>3 DEF AfterAppCmdRca
    <2>4. QED
      BY <2>2, <2>3
  <1>9. CASE AfterSetBusWidth
    <2>1. (drv.sd2_0 <=> card.kind = "sdhc") /\ (~LateFaults => SameBus)
      BY <1>9 DEF AfterSetBusWidth, DriverInv, Known, Agreed
    <2>2. QED
      BY <1>3, <1>9, <2>1 DEF AfterSetBusWidth
  <1>10. QED
    BY <1>5, <1>6, <1>7, <1>8, <1>9

(* A step after which card and driver know of each other what they knew.      *)
LEMMA DriverKeeps ==
  ASSUME DriverInv, card' \in Cards, card'.kind = card.kind, card'.app = card.app,
         card'.wide = card.wide, blocks' \in [Block -> Block \union {Stale}], UNCHANGED <<drv, rsp>>,
         (cmd = "up" /\ cmd' \in Mounted) \/ UNCHANGED <<card, cmd>>
  PROVE  DriverInv' /\ (SameBus' <=> SameBus)
  <1>1. IsSd(card') <=> IsSd(card)
    BY DEF IsSd
  <1>2. SameBus' <=> SameBus
    BY DEF SameBus
  <1>3. CASE cmd = "up" /\ cmd' \in Mounted
    BY <1>1, <1>2, <1>3
    DEF DriverInv, CardTypeOK, Known, Narrow, Agreed, Mounted, Selected, Identified, Phases
  <1>4. CASE UNCHANGED <<card, cmd>>
    BY <1>2, <1>4 DEF DriverInv, CardTypeOK, Known, Narrow, Agreed
  <1>5. QED
    BY <1>2, <1>3, <1>4

-----------------------------------------------------------------------------
(* Transfers.                                                                 *)

(* The card, in any mode.                                                     *)
Alike == {c \in Cards : c.kind = card.kind /\ c.app = card.app /\ c.wide = card.wide}

(* Whatever the outcome of a transfer, the card is left in another mode at    *)
(* most; and what is reported as done has been done.                          *)
LEMMA TransferFact ==
  ASSUME card \in Cards, NEW first, NEW n, NEW write, NEW o \in Transfers(first, n, write)
  PROVE  o.card \in Alike /\ o.ok \in BOOLEAN /\ o.moved \in BOOLEAN /\ (o.ok => o.moved)
  <1> DEFINE Result(c, ok, moved) == [card |-> c, ok |-> ok, moved |-> moved]
             Answered(cs, k) == UNION {Exchange(c, k, TRUE) : c \in cs}
             Good(xs)   == {x.card : x \in {y \in xs : y.rsp = "ok"}}
             Bad(xs)    == {Result(x.card, FALSE, FALSE) : x \in {y \in xs : y.rsp # "ok"}}
             status     == Answered({card}, "SEND_STATUS")
             blocklen   == Answered(Good(status), "SET_BLOCKLEN")
             started    == {[c EXCEPT !.mode = IF n > 1 THEN "data" ELSE "tran"] :
                               c \in Good(blocklen)}
             stopped    == Answered(started, "STOP_TRANSMISSION")
  <1>1. \/ o = Result(card, FALSE, FALSE)
        \/ o \in Bad(status) \/ o \in Bad(blocklen)
        \/ \E c \in started : o = Result(c, FALSE, FALSE) \/ o = Result(c, TRUE, TRUE)
        \/ \E x \in stopped : o = Result(x.card, x.rsp = "ok", TRUE)
    BY Zenon DEF Transfers
  <1>2. card \in Alike
    BY DEF Alike
  <1>3. ASSUME NEW c \in Alike, NEW k \in {"SEND_STATUS", "SET_BLOCKLEN", "STOP_TRANSMISSION"},
               NEW x \in Exchange(c, k, TRUE)
        PROVE  x.card \in Alike
    <2>1. c \in Cards
      BY DEF Alike
    <2>2. x.card \in Cards /\ (x.card = c \/ x.card = After(c, k))
      BY <2>1, ExchangeFact
    <2>3. After(c, k).kind = c.kind /\ After(c, k).app = c.app /\ After(c, k).wide = c.wide
      BY <2>1, AfterFact
    <2>4. QED
      BY <2>2, <2>3 DEF Alike
  <1>4. \A x \in status : x.card \in Alike
    BY <1>2, <1>3
  <1>5. \A x \in blocklen : x.card \in Alike
    BY <1>3, <1>4
  <1>6. \A c \in started : c \in Alike
    <2> SUFFICES ASSUME NEW c \in Good(blocklen)
                 PROVE  [c EXCEPT !.mode = IF n > 1 THEN "data" ELSE "tran"] \in Alike
      BY Zenon
    <2> DEFINE m == IF n > 1 THEN "data" ELSE "tran"
    <2>1. c \in Alike
      BY <1>5
    <2>2. m \in {"data", "tran"}
      OBVIOUS
    <2> HIDE DEF m
    <2>3. [c EXCEPT !.mode = m] \in Alike
      BY <2>1, <2>2 DEF Alike, Cards
    <2>4. QED
      BY <2>3 DEF m
  <1>7. \A x \in stopped : x.card \in Alike
    BY <1>3, <1>6
  <1> HIDE DEF status, blocklen, started, stopped
  <1>8. CASE o \in Bad(status) \/ o \in Bad(blocklen)
    <2>1. PICK x \in status \union blocklen : o = Result(x.card, FALSE, FALSE)
      BY <1>8, Zenon
    <2>2. QED
      BY <1>4, <1>5, <2>1
  <1>9. CASE \E x \in stopped : o = Result(x.card, x.rsp = "ok", TRUE)
    <2>1. PICK x \in stopped : o = Result(x.card, x.rsp = "ok", TRUE)
      BY <1>9
    <2> DEFINE ok == x.rsp = "ok"
    <2>2. x.card \in Alike /\ ok \in BOOLEAN
      BY <1>7
    <2>3. o = Result(x.card, ok, TRUE)
      BY <2>1
    <2> HIDE DEF ok
    <2>4. QED
      BY <2>2, <2>3
  <1>10. CASE \E c \in started : o = Result(c, FALSE, FALSE) \/ o = Result(c, TRUE, TRUE)
    <2>1. PICK c \in started : o = Result(c, FALSE, FALSE) \/ o = Result(c, TRUE, TRUE)
      BY <1>10
    <2>2. c \in Alike
      BY <1>6
    <2>3. CASE o = Result(c, FALSE, FALSE)
      BY <2>2, <2>3
    <2>4. CASE o = Result(c, TRUE, TRUE)
      BY <2>2, <2>4
    <2>5. QED
      BY <2>1, <2>3, <2>4
  <1>11. CASE o = Result(card, FALSE, FALSE)
    BY <1>2, <1>11
  <1>12. QED
    BY <1>1, <1>8, <1>9, <1>10, <1>11, Zenon

(* Driver and card agree on addresses.                                        *)
LEMMA AddressFact ==
  ASSUME drv.sd2_0 <=> card.kind = "sdhc", NEW b \in Nat
  PROVE  BlockAt(card, Argument(b)) = b
  <1>1. (b * BlockSize) \div BlockSize = b
    BY CardAssumption
  <1>2. QED
    BY <1>1 DEF BlockAt, Argument

-----------------------------------------------------------------------------
(* Pages.                                                                     *)

LEMMA MultiplesFact ==
  ASSUME NEW n \in Nat, NEW a \in Nat, NEW b \in Nat, a < b
  PROVE  a * n + n <= b * n
  <1>1. b - a - 1 \in Nat /\ (b - a - 1) * n \in Nat
    OBVIOUS
  <1>2. b * n = a * n + n + (b - a - 1) * n
    OBVIOUS
  <1>3. QED
    BY <1>1, <1>2

LEMMA DivFact ==
  ASSUME NEW n \in Nat \ {0}, NEW q \in Nat, NEW t \in Nat, q * n <= t, t < q * n + n
  PROVE  t \div n = q
  <1> DEFINE d == t \div n
  <1>1. d \in Nat /\ d * n <= t /\ t < d * n + n /\ d * n \in Nat /\ q * n \in Nat
    OBVIOUS
  <1> HIDE DEF d
  <1>2. ~(d < q)
    BY <1>1, MultiplesFact
  <1>3. ~(q < d)
    BY <1>1, MultiplesFact
  <1>4. d = q
    BY <1>1, <1>2, <1>3
  <1>5. QED
    BY <1>4 DEF d

(* A page starts at one sector for all sectors in it, and ends in the         *)
(* partition.                                                                 *)
LEMMA BaseFact ==
  ASSUME NEW s \in Sector
  PROVE  /\ Base(s) \in Sector /\ Count(s) \in 1..SectorsPerPage
         /\ s \in Base(s)..Base(s) + Count(s) - 1
         /\ Base(s) + Count(s) <= EndOfPartition
         /\ \A t \in Base(s)..Base(s) + Count(s) - 1 : Base(t) = Base(s) /\ Count(t) = Count(s)
  <1> DEFINE q == s \div SectorsPerPage
             b == q * SectorsPerPage
  <1>1. s \in Nat /\ s < EndOfPartition /\ EndOfPartition \in Nat
    BY CardAssumption, CacheAssumption DEF Sector
  <1>2. SectorsPerPage \in Nat /\ SectorsPerPage > 0
    BY CacheAssumption
  <1>3. q \in Nat /\ b \in Nat /\ b <= s /\ s < b + SectorsPerPage
    BY <1>1, <1>2
  <1>4. \A t \in b..b + SectorsPerPage - 1 : t \div SectorsPerPage = q
    <2> SUFFICES ASSUME NEW t \in b..b + SectorsPerPage - 1 PROVE t \div SectorsPerPage = q
      OBVIOUS
    <2>1. t \in Nat /\ q * SectorsPerPage <= t /\ t < q * SectorsPerPage + SectorsPerPage
      BY <1>2, <1>3
    <2>2. QED
      BY <1>2, <1>3, <2>1, DivFact
  <1>5. Base(s) = b
    BY DEF Base
  <1> HIDE DEF b, q
  <1>6. Count(s) = IF b + SectorsPerPage > EndOfPartition THEN EndOfPartition - b
                                                         ELSE SectorsPerPage
    BY <1>5 DEF Count
  <1>7. /\ Base(s) \in Sector /\ Count(s) \in 1..SectorsPerPage
        /\ s \in Base(s)..Base(s) + Count(s) - 1
        /\ Base(s) + Count(s) <= EndOfPartition
    BY <1>1, <1>2, <1>3, <1>5, <1>6 DEF Sector
  <1>8. \A t \in Base(s)..Base(s) + Count(s) - 1 : Base(t) = Base(s)
    <2> SUFFICES ASSUME NEW t \in Base(s)..Base(s) + Count(s) - 1 PROVE Base(t) = Base(s)
      OBVIOUS
    <2>1. t \in b..b + SectorsPerPage - 1
      BY <1>2, <1>3, <1>5, <1>7
    <2>2. QED
      BY <1>4, <1>5, <2>1 DEF Base, b
  <1>9. \A t \in Base(s)..Base(s) + Count(s) - 1 : Count(t) = Count(s)
    BY <1>8 DEF Count
  <1>10. QED
    BY <1>7, <1>8, <1>9

(* The page used last moves to the end.                                       *)
LEMMA TouchFact ==
  ASSUME used \in Seq(Page), IsInjective(used), NEW p \in Page, Touch(p)
  PROVE  /\ used' \in Seq(Page) /\ IsInjective(used')
         /\ Range(used') = Range(used) \union {p}
  <1>1. Len(used) \in Nat /\ DOMAIN used = 1..Len(used) /\ \A k \in 1..Len(used) : used[k] \in Page
    OBVIOUS
  <1>2. CASE p \notin Range(used) /\ used' = Append(used, p)
    <2>1. /\ used' \in Seq(Page) /\ Len(used') = Len(used) + 1 /\ DOMAIN used' = 1..Len(used) + 1
          /\ used'[Len(used) + 1] = p /\ \A k \in 1..Len(used) : used'[k] = used[k]
      BY <1>1, <1>2
    <2>2. \A k \in 1..Len(used) : used[k] # p
      BY <1>1, <1>2 DEF Range
    <2>3. QED
      BY ONLY <1>1, <2>1, <2>2, IsInjective(used) DEF IsInjective, Range
  <1>3. ASSUME NEW i \in DOMAIN used, used[i] = p, used' = Append(RemoveAt(used, i), p)
        PROVE  /\ used' \in Seq(Page) /\ IsInjective(used')
               /\ Range(used') = Range(used) \union {p}
    <2> DEFINE n == Len(used)
               a == SubSeq(used, 1, i - 1)
               b == SubSeq(used, i + 1, n)
    <2>1. n \in Nat /\ i \in 1..n
      BY <1>1
    <2>2. /\ a \in Seq(Page) /\ Len(a) = i - 1 /\ \A k \in 1..i - 1 : a[k] = used[k]
      <3>1. i - 1 \in Int /\ 1 \in Int /\ \A k \in 1..i - 1 : used[k] \in Page
        BY <1>1, <2>1
      <3>2. /\ a \in Seq(Page) /\ Len(a) = (IF 1 <= i - 1 THEN (i - 1) - 1 + 1 ELSE 0)
            /\ \A k \in 1..(i - 1) - 1 + 1 : a[k] = used[1 + k - 1]
        BY ONLY <3>1, SubSeqProperties
      <3>3. QED
        BY <2>1, <3>2
    <2>3. /\ b \in Seq(Page) /\ Len(b) = n - i /\ \A k \in 1..n - i : b[k] = used[i + k]
      <3>1. i + 1 \in Int /\ n \in Int /\ \A k \in i + 1..n : used[k] \in Page
        BY <1>1, <2>1
      <3>2. /\ b \in Seq(Page) /\ Len(b) = (IF i + 1 <= n THEN n - (i + 1) + 1 ELSE 0)
            /\ \A k \in 1..n - (i + 1) + 1 : b[k] = used[(i + 1) + k - 1]
        BY ONLY <3>1, SubSeqProperties
      <3>3. QED
        BY <2>1, <3>2
    <2> HIDE DEF a, b
    <2>4. used' = Append(a \o b, p)
      BY <1>3 DEF RemoveAt, a, b
    <2>5. /\ a \o b \in Seq(Page) /\ Len(a \o b) = n - 1
          /\ \A k \in 1..n - 1 : (a \o b)[k] = IF k < i THEN used[k] ELSE used[k + 1]
      BY <2>1, <2>2, <2>3
    <2>6. /\ used' \in Seq(Page) /\ DOMAIN used' = 1..n /\ used'[n] = p
          /\ \A k \in 1..n - 1 : used'[k] = IF k < i THEN used[k] ELSE used[k + 1]
      BY <2>1, <2>4, <2>5
    <2>7. IsInjective(used')
      <3> SUFFICES ASSUME NEW k \in 1..n, NEW l \in 1..n, used'[k] = used'[l] PROVE k = l
        BY <2>6 DEF IsInjective
      <3> DEFINE Old(m) == IF m = n THEN i ELSE IF m < i THEN m ELSE m + 1
      <3>1. \A m \in 1..n : Old(m) \in 1..n /\ used'[m] = used[Old(m)]
        BY <1>3, <2>1, <2>6
      <3>2. Old(k) = Old(l)
        BY <1>1, <3>1 DEF IsInjective
      <3>3. QED
        BY <2>1, <3>2
    <2>8. Range(used') = Range(used) \union {p}
      <3>1. ASSUME NEW x \in Range(used') PROVE x \in Range(used)
        <4>1. PICK k \in 1..n : x = used'[k]
          BY <2>6 DEF Range
        <4>2. \E m \in 1..n : x = used[m]
          <5>1. CASE k = n
            BY <1>3, <2>1, <2>6, <4>1, <5>1
          <5>2. CASE k # n /\ k < i
            <6>1. k \in 1..n - 1
              BY <2>1, <5>2
            <6>2. x = used[k]
              BY <2>6, <4>1, <5>2, <6>1
            <6>3. QED
              BY <6>2
          <5>3. CASE k # n /\ ~(k < i)
            <6>1. k \in 1..n - 1 /\ k + 1 \in 1..n
              BY <2>1, <5>3
            <6>2. x = used[k + 1]
              BY <2>6, <4>1, <5>3, <6>1
            <6>3. QED
              BY <6>1, <6>2
          <5>4. QED
            BY <5>1, <5>2, <5>3
        <4>3. QED
          BY <1>1, <4>2 DEF Range
      <3>2. ASSUME NEW x \in Range(used) PROVE x \in Range(used')
        <4>1. PICK m \in 1..n : x = used[m]
          BY <1>1 DEF Range
        <4>2. CASE m = i
          BY <1>3, <2>1, <2>6, <4>1, <4>2 DEF Range
        <4>3. CASE m < i
          <5>1. m \in 1..n - 1
            BY <2>1, <4>3
          <5>2. used'[m] = used[m]
            BY <2>6, <4>3, <5>1
          <5>3. QED
            BY <2>6, <4>1, <5>2 DEF Range
        <4>4. CASE m > i
          <5>1. m - 1 \in 1..n /\ used'[m - 1] = used[m]
            BY <2>1, <2>6, <4>1, <4>4
          <5>2. QED
            BY <2>6, <4>1, <5>1 DEF Range
        <4>5. QED
          BY <2>1, <4>1, <4>2, <4>3, <4>4
      <3>3. p \in Range(used')
        BY <2>1, <2>6 DEF Range
      <3>4. p \in Range(used)
        BY <1>3 DEF Range
      <3>5. QED
        BY <3>1, <3>2, <3>3, <3>4
    <2>9. QED
      BY <2>6, <2>7, <2>8
  <1>4. QED
    BY <1>2, <1>3 DEF Touch

LEMMA LeastFact ==
  ASSUME NEW S \in SUBSET Nat, S # {}
  PROVE  \E p \in S : \A q \in S : p <= q
  <1>1. PICK p \in S : \A q \in S : ~ (<<q, p>> \in OpToRel(<, Nat))
    BY NatLessThanWellFounded, WFMin
  <1>2. \A q \in S : ~ (q < p)
    BY <1>1 DEF OpToRel
  <1>3. QED
    BY <1>2

(* The entry to be replaced is one of the entries, since those in use have    *)
(* been used.                                                                 *)
LEMMA VictimFact ==
  ASSUME used \in Seq(Page), \A p \in Page : InUse(p) => p \in Range(used)
  PROVE  Victim \in Page
  <1> DEFINE free == {p \in Page : pages[p].sector = CACHE_FREE}
  <1>1. CASE free = {}
    <2>1. 1 \in Page
      BY CacheAssumption DEF Page
    <2>2. 1 \in Range(used)
      BY <1>1, <2>1 DEF InUse
    <2>3. used # <<>>
      BY <2>2 DEF Range
    <2>4. Head(used) \in Page
      BY <2>3
    <2>5. QED
      BY <1>1, <2>4 DEF Victim
  <1>2. CASE free # {}
    <2> free \in SUBSET Nat
      BY CacheAssumption DEF Page
    <2>1. \E p \in free : \A q \in free : p <= q
      BY <1>2, LeastFact
    <2>2. (CHOOSE p \in free : \A q \in free : p <= q) \in free
      BY <2>1
    <2>3. QED
      BY <1>2, <2>2 DEF Victim
  <1>3. QED
    BY <1>1, <1>2

(* What an entry in use holds.                                                *)
LEMMA EntryFact ==
  ASSUME TypeOK, PagesFit, NEW p \in Page
  PROVE  /\ ~InUse(p) => SectorsOf(pages[p]) = {}
         /\ InUse(p) =>
               /\ pages[p].sector \in Sector /\ pages[p].count \in 1..SectorsPerPage
               /\ pages[p].sector + pages[p].count <= EndOfPartition
               /\ SectorsOf(pages[p]) = pages[p].sector..pages[p].sector + pages[p].count - 1
               /\ \A s \in SectorsOf(pages[p]) :
                     s \in Sector /\ Base(s) = pages[p].sector /\ Count(s) = pages[p].count
  <1>1. CASE ~InUse(p)
    BY <1>1 DEF InUse, SectorsOf
  <1>2. CASE InUse(p)
    <2> DEFINE b == pages[p].sector
               n == pages[p].count
    <2>1. b \in Sector /\ n = Count(b) /\ Base(b) = b
      BY <1>2 DEF TypeOK, InUse, PagesFit
    <2>2. SectorsOf(pages[p]) = b..b + n - 1
      BY <1>2 DEF InUse, SectorsOf
    <2>3. /\ n \in 1..SectorsPerPage /\ b + n <= EndOfPartition
          /\ \A s \in b..b + n - 1 : Base(s) = b /\ Count(s) = n
      BY <2>1, BaseFact
    <2>4. \A s \in b..b + n - 1 : s \in Sector
      BY <2>1, <2>3, CardAssumption, CacheAssumption DEF Sector
    <2>5. QED
      BY <1>2, <2>1, <2>2, <2>3, <2>4
  <1>3. QED
    BY <1>1, <1>2

(* No sector is in two entries.                                               *)
LEMMA HoldingFact ==
  ASSUME TypeOK, PagesFit, NEW s \in Sector
  PROVE  /\ \A p \in Page : p \in Holding(s) <=> InUse(p) /\ pages[p].sector = Base(s)
         /\ \A p, q \in Holding(s) : p = q
  <1>1. ASSUME NEW p \in Page
        PROVE  p \in Holding(s) <=> InUse(p) /\ pages[p].sector = Base(s)
    <2>1. CASE p \in Holding(s)
      BY <2>1, EntryFact DEF Holding
    <2>2. CASE InUse(p) /\ pages[p].sector = Base(s)
      <3>1. /\ SectorsOf(pages[p]) = pages[p].sector..pages[p].sector + pages[p].count - 1
            /\ Base(Base(s)) = Base(s) /\ pages[p].count = Count(Base(s))
        BY <2>2, EntryFact DEF PagesFit
      <3>2. /\ s \in Base(s)..Base(s) + Count(s) - 1
            /\ Base(s) \in Base(s)..Base(s) + Count(s) - 1
            /\ Count(Base(s)) = Count(s)
        <4>1. /\ Base(s) \in Nat /\ Count(s) \in Nat \ {0} /\ s \in Base(s)..Base(s) + Count(s) - 1
              /\ \A t \in Base(s)..Base(s) + Count(s) - 1 : Count(t) = Count(s)
          BY BaseFact, CacheAssumption DEF Sector
        <4>2. QED
          BY <4>1
      <3>3. QED
        BY <2>2, <3>1, <3>2 DEF Holding
    <2>3. QED
      BY <2>1, <2>2
  <1>2. Holding(s) \subseteq Page
    BY DEF Holding
  <1>3. QED
    BY <1>1, <1>2 DEF PagesFit

-----------------------------------------------------------------------------
(* The steps of the cache.                                                    *)

LEMMA MountStep == ASSUME CacheInv, Mount PROVE CacheInv'
  <1>1. /\ cmd \notin Mounted /\ UNCHANGED <<cacheVars, blocks>>
    BY DEF Mount, Mounted, MMC_Initialize, CardStep, AfterGoIdle, AfterSendIfCond, AfterAppCmd,
           AfterSdSendOpCond, AfterSendOpCond, AfterAllSendCid, AfterSetRelativeAddr,
           AfterSendCsd, AfterSelectCard, AfterSwitch, AfterAppCmdRca, AfterSetBusWidth,
           Send, SendGoIdle, Stop
  <1>2. DriverInv'
    BY IdentifyStep, SelectStep DEF CacheInv, Mount, CardStep
  <1>3. /\ \A b \in Block : blocks[b] = b
        /\ \A p \in Page : pages[p] = FreePage
        /\ call = Idle /\ suspect = {} /\ flushed = FALSE
    BY <1>1 DEF CacheInv, Fresh
  <1>4. TypeOK' /\ PagesFit'
    BY <1>1, <1>2
    DEF CacheInv, TypeOK, PagesFit, InUse, DriverInv, cacheVars
  <1>5. Fresh' /\ CallFits' /\ FlushedIsClean'
    BY <1>1, <1>3 DEF Fresh, CallFits, FlushedIsClean, Idle, cacheVars, FreePage
  <1>6. Current'
    <2>1. \A s \in Sector : Holding(s)' = {}
      BY <1>1, <1>3 DEF Holding, SectorsOf, FreePage, cacheVars
    <2>2. \A s \in Sector : s \in Block
      BY CardAssumption, CacheAssumption DEF Sector, Block
    <2>3. QED
      BY <1>1, <1>3, <2>1, <2>2 DEF Current
  <1>7. QED
    BY <1>2, <1>4, <1>5, <1>6 DEF CacheInv

LEMMA BeginStep ==
  ASSUME CacheInv, BeginRead \/ BeginWrite \/ BeginFlush \/ BeginUnmount
  PROVE  CacheInv'
  <1>1. PICK op \in {"read", "write", "flush", "unmount"}, s \in Sector, n \in 0..MaxSectors :
           /\ Begin(op, s, n)
           /\ op \in {"read", "write"} => n # 0 /\ s + n <= EndOfPartition
    <2>1. 0 \in Sector /\ 0 \in 0..MaxSectors /\ MaxSectors \in Nat
      BY CacheAssumption DEF Sector
    <2>2. CASE BeginRead \/ BeginWrite
      <3>1. PICK op \in {"read", "write"}, s \in Sector, n \in 1..MaxSectors :
               s + n <= EndOfPartition /\ Begin(op, s, n)
        BY <2>2 DEF BeginRead, BeginWrite
      <3>2. n # 0 /\ n \in 0..MaxSectors
        BY <2>1
      <3>3. QED
        BY <3>1, <3>2
    <2>3. CASE BeginFlush \/ BeginUnmount
      BY <2>1, <2>3 DEF BeginFlush, BeginUnmount
    <2>4. QED
      BY <2>2, <2>3
  <1>2. /\ cmd = "up" /\ call' = [op |-> op, sector |-> s, left |-> n] /\ flushed' = FALSE
        /\ UNCHANGED <<cardVars, pages, used, suspect>>
    BY <1>1 DEF Begin
  <1>3. DriverInv' /\ CardTypeOK' /\ (SameBus' <=> SameBus)
    BY <1>2 DEF CacheInv, DriverInv, CardTypeOK, Known, Narrow, Agreed, SameBus, cardVars
  <1>4. TypeOK' /\ PagesFit'
    BY <1>2, <1>3 DEF CacheInv, TypeOK, PagesFit, InUse
  <1>5. Fresh' /\ CallFits' /\ FlushedIsClean'
    BY <1>1, <1>2 DEF Fresh, CallFits, FlushedIsClean, Mounted, cardVars
  <1>6. Current'
    BY <1>2, <1>3 DEF CacheInv, Current, Holding, cardVars
  <1>7. QED
    BY <1>3, <1>4, <1>5, <1>6 DEF CacheInv

LEMMA FlushedStep == ASSUME CacheInv, Flushed PROVE CacheInv'
  <1>1. /\ call.op = "flush" /\ (\A p \in Page : ~pages[p].dirty)
        /\ call' = Idle /\ flushed' = TRUE
        /\ UNCHANGED <<cardVars, pages, used, suspect>>
    BY DEF Flushed, Return
  <1>2. cmd = "up"
    BY <1>1 DEF CacheInv, CallFits
  <1>3. DriverInv' /\ CardTypeOK' /\ (SameBus' <=> SameBus)
    BY <1>1 DEF CacheInv, DriverInv, CardTypeOK, Known, Narrow, Agreed, SameBus, cardVars
  <1>4. TypeOK' /\ PagesFit'
    BY <1>1, <1>3, CacheAssumption DEF CacheInv, TypeOK, PagesFit, InUse, Idle, Sector
  <1>5. Fresh' /\ CallFits' /\ FlushedIsClean'
    BY <1>1, <1>2 DEF Fresh, CallFits, FlushedIsClean, Mounted, cardVars, Idle
  <1>6. Current'
    BY <1>1, <1>3 DEF CacheInv, Current, Holding, cardVars
  <1>7. QED
    BY <1>3, <1>4, <1>5, <1>6 DEF CacheInv

LEMMA DestroyStep == ASSUME CacheInv, Destroy PROVE CacheInv'
  <1> DEFINE lost == UNION {SectorsOf(pages[p]) : p \in {q \in Page : pages[q].dirty}}
  <1>1. /\ pages' = [p \in Page |-> FreePage] /\ used' = <<>> /\ suspect' = suspect \union lost
        /\ call' = Idle /\ flushed' = FALSE /\ cmd' = "unmounted"
        /\ UNCHANGED <<card, blocks, drv, rsp>>
        /\ call.op \in {"destroy", "unmount"}
    BY DEF Destroy, Return
  <1>2. cmd = "up"
    BY <1>1 DEF CacheInv, CallFits
  <1>3. DriverInv' /\ CardTypeOK' /\ (SameBus' <=> SameBus)
    BY <1>1, <1>2, DriverKeeps DEF CacheInv, DriverInv, CardTypeOK, Mounted
  <1>4. lost \subseteq Sector
    <2>1. \A p \in Page : \A s \in SectorsOf(pages[p]) : s \in Sector
      BY EntryFact DEF CacheInv
    <2>2. QED
      BY <2>1
  <1>5. FreePage \in [sector : Sector \union {CACHE_FREE}, count : 0..SectorsPerPage,
                      dirty : BOOLEAN, data : [0..SectorsPerPage - 1 -> Content]]
    BY CacheAssumption DEF FreePage, NoData, Content
  <1>6. TypeOK'
    <2>1. <<>> \in Seq(Page) /\ IsInjective(<<>>)
      BY DEF IsInjective
    <2>2. pages' \in [Page -> [sector : Sector \union {CACHE_FREE}, count : 0..SectorsPerPage,
                              dirty : BOOLEAN, data : [0..SectorsPerPage - 1 -> Content]]]
      BY <1>1, <1>5
    <2>3. Idle \in [op : {"idle", "read", "write", "flush", "unmount", "destroy"},
                   sector : Sector, left : 0..MaxSectors]
      BY CacheAssumption DEF Idle, Sector
    <2>4. suspect' \subseteq Sector
      BY <1>1, <1>4 DEF CacheInv, TypeOK
    <2>5. QED
      BY <1>1, <1>3, <2>1, <2>2, <2>3, <2>4 DEF TypeOK
  <1>7. PagesFit' /\ Fresh' /\ CallFits' /\ FlushedIsClean'
    BY <1>1
    DEF PagesFit, InUse, FreePage, Fresh, Mounted, CallFits, Idle, FlushedIsClean
  <1>8. Current'
    <2>1. \A s \in Sector : Holding(s)' = {}
      BY <1>1 DEF Holding, SectorsOf, FreePage
    <2>2. ASSUME SameBus, NEW s \in Sector \ suspect' PROVE blocks'[s] = s
      <3>1. s \in Sector \ suspect /\ s \notin lost
        BY <1>1, <2>2
      <3>2. \A p \in Holding(s) : ~pages[p].dirty
        BY <3>1 DEF Holding
      <3>3. QED
        BY <1>1, <2>2, <3>1, <3>2 DEF CacheInv, Current
    <2>3. QED
      BY <1>3, <2>1, <2>2 DEF Current
  <1>9. QED
    BY <1>3, <1>6, <1>7, <1>8 DEF CacheInv

(* The steps after which the same entries hold the same sectors.              *)
LEMMA SameSectors ==
  ASSUME CacheInv, pages' \in [Page -> [sector : Sector \union {CACHE_FREE}, count : 0..SectorsPerPage,
                              dirty : BOOLEAN, data : [0..SectorsPerPage - 1 -> Content]]],
         \A p \in Page : pages'[p].sector = pages[p].sector /\ pages'[p].count = pages[p].count,
         \A p \in Page : pages'[p].dirty => InUse(p),
         Range(used) \subseteq Range(used')
  PROVE  PagesFit' /\ \A s : Holding(s)' = Holding(s)
  <1>1. \A p \in Page : InUse(p)' <=> InUse(p)
    BY DEF InUse
  <1>2. PagesFit'
    BY <1>1 DEF CacheInv, PagesFit
  <1>3. QED
    BY <1>2 DEF Holding, SectorsOf

(* A page that is written back is as it was, on the card too if all goes      *)
(* well; what else the card stores is not touched.                            *)
LEMMA WriteFact ==
  ASSUME CacheInv, cmd = "up", NEW p \in Page, InUse(p),
         NEW o \in Writes(pages[p].sector, pages[p].count),
         card' = o.card,
         blocks' = IF o.moved THEN Stored(pages[p].sector, pages[p].count, pages[p].data)
                   ELSE blocks,
         pages' = IF o.ok THEN [pages EXCEPT ![p].dirty = FALSE] ELSE pages,
         UNCHANGED <<drv, cmd, rsp, used, suspect>>
  PROVE  /\ DriverInv' /\ PagesFit' /\ Current'
         /\ pages' \in [Page -> [sector : Sector \union {CACHE_FREE}, count : 0..SectorsPerPage,
                                 dirty : BOOLEAN, data : [0..SectorsPerPage - 1 -> Content]]]
  <1> DEFINE first == pages[p].sector
             n == pages[p].count
             old == pages[p].data
             Entry == [sector : Sector \union {CACHE_FREE}, count : 0..SectorsPerPage,
                       dirty : BOOLEAN, data : [0..SectorsPerPage - 1 -> Content]]
  <1>1. /\ TypeOK /\ PagesFit /\ Current /\ card \in Cards /\ drv \in Drivers
        /\ blocks \in [Block -> Block \union {Stale}]
        /\ pages \in [Page -> Entry] /\ DriverInv
    BY DEF CacheInv, TypeOK, CardTypeOK
  <1>2. /\ first \in Sector /\ n \in 1..SectorsPerPage /\ first + n <= EndOfPartition
        /\ SectorsOf(pages[p]) = first..first + n - 1
    BY <1>1, EntryFact
  <1>3. o.card \in Alike /\ (o.ok => o.moved) /\ o.ok \in BOOLEAN
    BY <1>1, TransferFact DEF Writes
  <1>4. BlockAt(card, Argument(first)) = first
    BY <1>1, <1>2, AddressFact, CacheAssumption
    DEF DriverInv, Known, Mounted, Selected, Sector
  <1>5. /\ first \in Nat /\ n \in Nat /\ first + n <= BlockCount /\ SectorsPerPage \in Nat
        /\ BlockCount \in Nat
    BY <1>2, CardAssumption, CacheAssumption DEF Sector
  <1>6. old \in [0..SectorsPerPage - 1 -> Content]
    BY <1>1
  <1>7. Stored(first, n, old) =
           [b \in Block |-> IF b \in first..first + n - 1
                            THEN IF SameBus THEN old[b - first] ELSE Stale
                            ELSE blocks[b]]
    <2>1. Reached(card, Argument(first), n) = first..first + n - 1
      BY <1>4, <1>5 DEF Reached, Block
    <2>2. QED
      BY <1>4, <2>1 DEF Stored
  <1>8. Stored(first, n, old) \in [Block -> Block \union {Stale}]
    <2>1. \A b \in first..first + n - 1 : b - first \in 0..SectorsPerPage - 1
      BY <1>2, <1>5
    <2>2. \A b \in first..first + n - 1 : old[b - first] \in Block \union {Stale}
      BY <1>6, <2>1 DEF Content
    <2>3. QED
      BY <1>1, <1>7, <2>2
  <1>9. DriverInv' /\ (SameBus' <=> SameBus)
    <2>1. blocks' \in [Block -> Block \union {Stale}]
      BY <1>1, <1>8
    <2>2. /\ card' \in Cards /\ card'.kind = card.kind /\ card'.app = card.app
          /\ card'.wide = card.wide
      BY <1>3 DEF Alike
    <2>3. QED
      BY <1>1, <2>1, <2>2, DriverKeeps DEF Mounted
  <1>10. /\ pages' \in [Page -> Entry]
         /\ \A q \in Page : /\ pages'[q].sector = pages[q].sector
                            /\ pages'[q].count = pages[q].count
                            /\ pages'[q].data = pages[q].data
                            /\ q # p => pages'[q].dirty = pages[q].dirty
         /\ pages'[p].dirty => pages[p].dirty
         /\ ~o.ok => pages'[p].dirty = pages[p].dirty
    <2>1. CASE o.ok
      <3>1. pages' = [pages EXCEPT ![p] = [pages[p] EXCEPT !.dirty = FALSE]]
        BY <2>1
      <3>2. /\ [pages[p] EXCEPT !.dirty = FALSE] \in Entry
            /\ [pages[p] EXCEPT !.dirty = FALSE].sector = pages[p].sector
            /\ [pages[p] EXCEPT !.dirty = FALSE].count = pages[p].count
            /\ [pages[p] EXCEPT !.dirty = FALSE].data = pages[p].data
            /\ [pages[p] EXCEPT !.dirty = FALSE].dirty = FALSE
        BY <1>1
      <3>3. QED
        BY <1>1, <2>1, <3>1, <3>2
    <2>2. CASE ~o.ok
      BY <1>1, <2>2
    <2>3. QED
      BY <1>3, <2>1, <2>2
  <1>11. PagesFit' /\ \A s : Holding(s)' = Holding(s)
    <2>1. \A q \in Page : pages'[q].dirty => InUse(q)
      BY <1>1, <1>10 DEF PagesFit
    <2>2. QED
      BY <1>10, <2>1, SameSectors
  <1>12. Current'
    <2> SUFFICES ASSUME SameBus, NEW s \in Sector \ suspect
                 PROVE  /\ \A q \in Holding(s) : pages'[q].data[s - pages'[q].sector] = s
                        /\ (\A q \in Holding(s) : ~pages'[q].dirty) => blocks'[s] = s
      BY <1>9, <1>11 DEF Current
    <2>1. /\ \A q \in Holding(s) : pages[q].data[s - pages[q].sector] = s
          /\ (\A q \in Holding(s) : ~pages[q].dirty) => blocks[s] = s
          /\ Holding(s) \subseteq Page
      BY <1>1 DEF Current, Holding
    <2>2. s \in Block
      BY CardAssumption, CacheAssumption DEF Sector, Block
    <2>3. CASE s \in first..first + n - 1
      <3>1. p \in Holding(s)
        BY <1>2, <2>3 DEF Holding
      <3>2. old[s - first] = s
        BY <2>1, <3>1
      <3>3. o.moved => blocks'[s] = s
        BY <1>7, <2>2, <2>3, <3>2
      <3>4. ~o.moved => blocks'[s] = blocks[s] /\ \A q \in Page : pages'[q].dirty = pages[q].dirty
        BY <1>3, <1>10
      <3>5. \A q \in Holding(s) : pages'[q].data[s - pages'[q].sector] = s
        BY ONLY <1>10, <2>1
      <3>6. (\A q \in Holding(s) : ~pages'[q].dirty) => blocks'[s] = s
        BY ONLY <2>1, <3>3, <3>4
      <3>7. QED
        BY ONLY <3>5, <3>6
    <2>4. CASE s \notin first..first + n - 1
      <3>1. p \notin Holding(s)
        BY <1>2, <2>4 DEF Holding
      <3>2. blocks'[s] = blocks[s]
        BY <1>7, <2>2, <2>4
      <3>3. \A q \in Holding(s) : pages'[q].dirty = pages[q].dirty
        BY ONLY <1>10, <2>1, <3>1
      <3>4. \A q \in Holding(s) : pages'[q].data[s - pages'[q].sector] = s
        BY ONLY <1>10, <2>1
      <3>5. (\A q \in Holding(s) : ~pages'[q].dirty) => blocks'[s] = s
        BY ONLY <2>1, <3>2, <3>3
      <3>6. QED
        BY ONLY <3>4, <3>5
    <2>5. QED
      BY <2>3, <2>4
  <1>13. QED
    BY <1>9, <1>10, <1>11, <1>12

LEMMA WriteStep == ASSUME CacheInv, WriteBack \/ FlushPage PROVE CacheInv'
  <1>1. PICK p \in Page : /\ pages[p].dirty /\ call.op # "idle"
                          /\ \/ WritePage(p, Return(FALSE))
                             \/ WritePage(p, call' = [call EXCEPT !.op = "destroy"] /\ UNCHANGED flushed)
    <2>1. CASE WriteBack
      <3>1. Victim \in Page
        BY VictimFact DEF CacheInv, TypeOK, PagesFit
      <3>2. pages[Victim].dirty /\ call.op # "idle" /\ WritePage(Victim, Return(FALSE))
        BY <2>1 DEF WriteBack, Missing
      <3>3. QED
        BY <3>1, <3>2
    <2>2. CASE FlushPage
      <3>1. PICK p \in Page :
               /\ pages[p].dirty /\ call.op # "idle"
               /\ WritePage(p, IF call.op = "flush" THEN Return(FALSE)
                              ELSE call' = [call EXCEPT !.op = "destroy"] /\ UNCHANGED flushed)
        BY <2>2 DEF FlushPage
      <3>2. \/ WritePage(p, Return(FALSE))
            \/ WritePage(p, call' = [call EXCEPT !.op = "destroy"] /\ UNCHANGED flushed)
        BY <3>1 DEF WritePage
      <3>3. QED
        BY <3>1, <3>2
    <2>3. QED
      BY <2>1, <2>2
  <1>2. cmd = "up" /\ ~flushed /\ InUse(p)
    BY <1>1 DEF CacheInv, CallFits, PagesFit
  <1>3. PICK o \in Writes(pages[p].sector, pages[p].count) :
           /\ card' = o.card
           /\ blocks' = IF o.moved THEN Stored(pages[p].sector, pages[p].count, pages[p].data)
                        ELSE blocks
           /\ IF o.ok THEN pages' = [pages EXCEPT ![p].dirty = FALSE] ELSE UNCHANGED pages
           /\ \/ UNCHANGED <<call, flushed>>
              \/ call' = Idle /\ flushed' = FALSE
              \/ call' = [call EXCEPT !.op = "destroy"] /\ UNCHANGED flushed
           /\ UNCHANGED <<drv, cmd, rsp, used, suspect>>
    BY <1>1 DEF WritePage, Return
  <1>4. /\ DriverInv' /\ PagesFit' /\ Current'
        /\ pages' \in [Page -> [sector : Sector \union {CACHE_FREE}, count : 0..SectorsPerPage,
                                dirty : BOOLEAN, data : [0..SectorsPerPage - 1 -> Content]]]
    BY <1>2, <1>3, WriteFact
  <1>5. /\ ~flushed' /\ flushed' \in BOOLEAN
        /\ call' \in [op : {"idle", "read", "write", "flush", "unmount", "destroy"},
                      sector : Sector, left : 0..MaxSectors]
        /\ call'.op # "idle" => call' = call \/ call'.op = "destroy"
    <2>1. Idle \in [op : {"idle", "read", "write", "flush", "unmount", "destroy"},
                    sector : Sector, left : 0..MaxSectors]
      BY CacheAssumption DEF Idle, Sector
    <2>2. call \in [op : {"idle", "read", "write", "flush", "unmount", "destroy"},
                    sector : Sector, left : 0..MaxSectors]
      BY DEF CacheInv, TypeOK
    <2>3. /\ [call EXCEPT !.op = "destroy"] \in
                [op : {"idle", "read", "write", "flush", "unmount", "destroy"},
                 sector : Sector, left : 0..MaxSectors]
          /\ [call EXCEPT !.op = "destroy"].op = "destroy"
      BY <2>2
    <2>4. call' \in {call, Idle, [call EXCEPT !.op = "destroy"]}
      BY <1>3, Zenon
    <2>5. ~flushed' /\ flushed' \in BOOLEAN
      <3>1. flushed = FALSE
        BY <1>2 DEF CacheInv, TypeOK
      <3>2. flushed' = FALSE
        BY ONLY <1>3, <3>1
      <3>3. QED
        BY <3>2
    <2>6. Idle.op = "idle"
      BY DEF Idle
    <2>7. QED
      BY <2>1, <2>2, <2>3, <2>4, <2>5, <2>6
  <1>6. TypeOK'
    BY <1>3, <1>4, <1>5 DEF CacheInv, DriverInv, TypeOK
  <1>7. Fresh' /\ CallFits' /\ FlushedIsClean'
    BY <1>2, <1>3, <1>5 DEF CacheInv, Fresh, Mounted, CallFits, FlushedIsClean
  <1>8. QED
    BY <1>4, <1>6, <1>7 DEF CacheInv

(* The sectors of a call that an entry serves: those from the sector of the   *)
(* call on, one at least, and no more than are left.                          *)
LEMMA PartFact ==
  ASSUME CacheInv, call.op \in {"read", "write"}, NEW p \in Page, p \in Holding(call.sector)
  PROVE  /\ Part(p) \subseteq SectorsOf(pages[p]) /\ Part(p) \subseteq Sector
         /\ Cardinality(Part(p)) \in 1..call.left
  <1> DEFINE last == pages[p].sector + pages[p].count - 1
             end == IF last < call.sector + call.left THEN last ELSE call.sector + call.left - 1
  <1>1. /\ InUse(p) /\ SectorsOf(pages[p]) = pages[p].sector..last
        /\ \A s \in SectorsOf(pages[p]) : s \in Sector
        /\ call.sector \in SectorsOf(pages[p])
        /\ pages[p].sector \in Nat /\ pages[p].count \in Nat
    <2>1. call.sector \in SectorsOf(pages[p])
      BY DEF Holding
    <2>2. InUse(p)
      BY <2>1, EntryFact DEF CacheInv
    <2>3. /\ pages[p].sector \in Sector /\ pages[p].count \in 1..SectorsPerPage
          /\ SectorsOf(pages[p]) = pages[p].sector..last
          /\ \A s \in SectorsOf(pages[p]) : s \in Sector
      BY <2>2, EntryFact DEF CacheInv
    <2>4. QED
      BY <2>1, <2>2, <2>3, CacheAssumption DEF Sector
  <1>2. call.left \in Nat \ {0} /\ call.sector \in Nat
    BY CacheAssumption DEF CacheInv, CallFits, TypeOK, Sector
  <1>3. last \in Int /\ pages[p].sector <= call.sector /\ call.sector <= last
    BY <1>1, <1>2
  <1> HIDE DEF last
  <1>4. end \in Nat /\ call.sector <= end /\ end <= last /\ end < call.sector + call.left
    BY <1>2, <1>3
  <1>5. Part(p) = call.sector..end
    <2>1. ASSUME NEW s PROVE s \in Part(p) <=> s \in call.sector..end
      BY <1>1, <1>2, <1>3, <1>4 DEF Part
    <2>2. QED
      BY <2>1
  <1>6. Cardinality(Part(p)) = end - call.sector + 1
    BY <1>2, <1>4, <1>5, FS_Interval
  <1>7. Part(p) \subseteq SectorsOf(pages[p])
    BY DEF Part
  <1> HIDE DEF end
  <1>8. QED
    BY <1>1, <1>2, <1>4, <1>6, <1>7

(* What has been written to a part of a page is in it, and no longer on the   *)
(* card.                                                                      *)
LEMMA ServeStep == ASSUME CacheInv, NEW p \in Page, Serve(p) PROVE CacheInv'
  <1> DEFINE part == Part(p)
             n == Cardinality(part)
             rest == call.left - n
             first == pages[p].sector
             Data == [0..SectorsPerPage - 1 -> Content]
             Entry == [sector : Sector \union {CACHE_FREE}, count : 0..SectorsPerPage,
                       dirty : BOOLEAN, data : Data]
             Old(q) == Outdated(pages[q].data, part)
             New == [i \in DOMAIN Old(p) |-> IF first + i \in part THEN first + i ELSE Old(p)[i]]
  <1>1. /\ TypeOK /\ PagesFit /\ Current /\ DriverInv
        /\ pages \in [Page -> Entry] /\ blocks \in [Block -> Block \union {Stale}]
        /\ used \in Seq(Page) /\ IsInjective(used)
    BY DEF CacheInv, TypeOK, CardTypeOK
  <1>2. call.op \in {"read", "write"} /\ p \in Holding(call.sector) /\ Touch(p)
        /\ UNCHANGED <<card, drv, cmd, rsp, suspect>>
    BY DEF Serve
  <1>3. /\ part \subseteq SectorsOf(pages[p]) /\ part \subseteq Sector
        /\ n \in 1..call.left
    BY <1>2, PartFact
  <1>4. /\ cmd = "up" /\ ~flushed /\ call.left \in Nat \ {0}
        /\ call.sector + call.left <= EndOfPartition
        /\ call.sector \in Sector /\ call.left \in 0..MaxSectors
        /\ EndOfPartition \in Nat
    BY <1>2, CardAssumption, CacheAssumption DEF CacheInv, CallFits, TypeOK
  <1>5. IF rest = 0 THEN call' = Idle /\ flushed' = FALSE
        ELSE call' = [call EXCEPT !.sector = call.sector + n, !.left = rest] /\ UNCHANGED flushed
    BY DEF Serve, Return
  <1>6. /\ call' \in [op : {"idle", "read", "write", "flush", "unmount", "destroy"},
                      sector : Sector, left : 0..MaxSectors]
        /\ flushed' = FALSE /\ CallFits'
    <2>1. CASE rest = 0
      <3>1. Idle \in [op : {"idle", "read", "write", "flush", "unmount", "destroy"},
                      sector : Sector, left : 0..MaxSectors]
        BY CacheAssumption DEF Idle, Sector
      <3>2. QED
        BY <1>5, <2>1, <3>1 DEF CallFits, Idle
    <2>2. CASE rest # 0
      <3> HIDE DEF n
      <3>1. /\ call.sector + n \in Sector /\ rest \in 1..MaxSectors /\ rest \in Nat \ {0}
            /\ (call.sector + n) + rest <= EndOfPartition
        <4>1. call.sector \in Nat
          BY <1>4 DEF Sector
        <4>2. n \in Nat /\ n <= call.left /\ rest \in Nat \ {0}
          BY <1>3, <1>4, <2>2
        <4>3. (call.sector + n) + rest = call.sector + call.left
          BY <1>4, <4>1, <4>2
        <4>4. MaxSectors \in Nat
          BY CacheAssumption
        <4>5. n # 0
          BY <1>3
        <4>6. QED
          BY <1>4, <4>1, <4>2, <4>3, <4>4, <4>5 DEF Sector
      <3> HIDE DEF rest
      <3>2. call \in [op : {"idle", "read", "write", "flush", "unmount", "destroy"},
                      sector : Sector, left : 0..MaxSectors]
        BY <1>1 DEF TypeOK
      <3>3. call' = [call EXCEPT !.sector = call.sector + n, !.left = rest] /\ UNCHANGED flushed
        BY <1>5, <2>2
      <3>4. /\ call' \in [op : {"idle", "read", "write", "flush", "unmount", "destroy"},
                          sector : Sector, left : 0..MaxSectors]
            /\ call'.sector = call.sector + n /\ call'.left = rest /\ call'.op = call.op
        <4> DEFINE next == call.sector + n
        <4>1. next \in Sector /\ rest \in 0..MaxSectors
          BY <3>1
        <4>2. call' = [call EXCEPT !.sector = next, !.left = rest]
          BY <3>3
        <4> HIDE DEF next
        <4>3. /\ call' \in [op : {"idle", "read", "write", "flush", "unmount", "destroy"},
                            sector : Sector, left : 0..MaxSectors]
              /\ call'.sector = next /\ call'.left = rest /\ call'.op = call.op
          BY ONLY <3>2, <4>1, <4>2
        <4>4. QED
          BY <4>3 DEF next
      <3>5. flushed' = FALSE
        BY <1>1, <1>4, <3>3 DEF TypeOK
      <3>6. QED
        BY <1>2, <1>4, <3>1, <3>4, <3>5 DEF CallFits
    <2>3. QED
      BY <2>1, <2>2
  <1> HIDE DEF n, rest
  <1>7. /\ used' \in Seq(Page) /\ IsInjective(used') /\ Range(used) \subseteq Range(used')
    BY <1>1, <1>2, TouchFact
  <1>8. InUse(p)
    BY <1>1, <1>2, <1>3, EntryFact DEF Holding
  <1>9. (SameBus' <=> SameBus) /\ \A s : s \in Sector \ suspect' <=> s \in Sector \ suspect
    BY <1>2 DEF SameBus
  <1>10. /\ pages' \in [Page -> Entry] /\ blocks' \in [Block -> Block \union {Stale}]
         /\ \A q \in Page : pages'[q].sector = pages[q].sector /\ pages'[q].count = pages[q].count
         /\ \A q \in Page : pages'[q].dirty => InUse(q)
         /\ (\A s : Holding(s)' = Holding(s)) => Current'
    <2>1. CASE call.op = "read"
      <3>1. UNCHANGED <<pages, blocks>>
        BY <2>1 DEF Serve
      <3>2. QED
        BY <1>1, <1>9, <3>1 DEF PagesFit, Current
    <2>2. CASE call.op = "write"
      <3>1. /\ pages' = [q \in Page |->
                  IF q # p THEN [pages[q] EXCEPT !.data = Old(q)]
                  ELSE [pages[q] EXCEPT !.dirty = TRUE, !.data = New]]
            /\ blocks' = Outdated(blocks, part)
        BY <2>2 DEF Serve
      <3>2. /\ \A q \in Page : Old(q) \in Data
            /\ \A q \in Page, i \in 0..SectorsPerPage - 1 :
                  pages[q].data[i] \notin part => Old(q)[i] = pages[q].data[i]
        BY <1>1 DEF Outdated, Content
      <3>3. /\ blocks' \in [Block -> Block \union {Stale}]
            /\ \A b \in Block : blocks[b] \notin part => blocks'[b] = blocks[b]
        BY <1>1, <3>1 DEF Outdated
      <3>4. part \subseteq Content
        BY <1>3, CardAssumption, CacheAssumption DEF Sector, Content, Block
      <3>5. /\ New \in Data
            /\ \A i \in 0..SectorsPerPage - 1 :
                  New[i] = IF first + i \in part THEN first + i ELSE Old(p)[i]
        BY <3>2, <3>4
      <3> HIDE DEF Old, New, Data, part
      <3>6. /\ pages' \in [Page -> Entry]
            /\ \A q \in Page : pages'[q].sector = pages[q].sector /\ pages'[q].count = pages[q].count
            /\ \A q \in Page : q # p => pages'[q].dirty = pages[q].dirty /\ pages'[q].data = Old(q)
            /\ pages'[p].dirty = TRUE /\ pages'[p].data = New
        <4>1. \A q \in Page : /\ [pages[q] EXCEPT !.data = Old(q)] \in Entry
                              /\ [pages[q] EXCEPT !.data = Old(q)].sector = pages[q].sector
                              /\ [pages[q] EXCEPT !.data = Old(q)].count = pages[q].count
                              /\ [pages[q] EXCEPT !.data = Old(q)].dirty = pages[q].dirty
                              /\ [pages[q] EXCEPT !.data = Old(q)].data = Old(q)
          BY <1>1, <3>2
        <4> DEFINE e == [pages[p] EXCEPT !.dirty = TRUE, !.data = New]
        <4>2. /\ e \in Entry /\ e.sector = pages[p].sector /\ e.count = pages[p].count
              /\ e.dirty = TRUE /\ e.data = New
          BY <1>1, <3>5
        <4>3. \A q \in Page : pages'[q] = IF q # p THEN [pages[q] EXCEPT !.data = Old(q)] ELSE e
          BY <3>1
        <4>4. pages' = [q \in Page |-> IF q # p THEN [pages[q] EXCEPT !.data = Old(q)] ELSE e]
          BY <3>1
        <4> HIDE DEF e, Entry
        <4>5. QED
          BY <4>1, <4>2, <4>3, <4>4
      <3>7. \A q \in Page : pages'[q].dirty => InUse(q)
        BY <1>1, <1>8, <3>6 DEF PagesFit
      <3>8. ASSUME \A s : Holding(s)' = Holding(s) PROVE Current'
        <4> SUFFICES ASSUME SameBus, NEW s \in Sector \ suspect
                     PROVE  /\ \A q \in Holding(s) : pages'[q].data[s - pages'[q].sector] = s
                            /\ (\A q \in Holding(s) : ~pages'[q].dirty) => blocks'[s] = s
          BY <1>9, <3>8 DEF Current
        <4>1. /\ \A q \in Holding(s) : pages[q].data[s - pages[q].sector] = s
              /\ (\A q \in Holding(s) : ~pages[q].dirty) => blocks[s] = s
              /\ Holding(s) \subseteq Page
          BY <1>1 DEF Current, Holding
        <4>2. s \in Block
          BY CardAssumption, CacheAssumption DEF Sector, Block
        <4>3. \A q \in Holding(s) : /\ s - pages[q].sector \in 0..SectorsPerPage - 1
                                    /\ pages[q].sector + (s - pages[q].sector) = s
          <5> SUFFICES ASSUME NEW q \in Holding(s)
                       PROVE  /\ s - pages[q].sector \in 0..SectorsPerPage - 1
                              /\ pages[q].sector + (s - pages[q].sector) = s
            OBVIOUS
          <5>1. q \in Page /\ s \in SectorsOf(pages[q])
            BY DEF Holding
          <5>2. InUse(q)
            BY <1>1, <5>1, EntryFact
          <5>3. /\ pages[q].sector \in Sector /\ pages[q].count \in 1..SectorsPerPage
                /\ s \in pages[q].sector..pages[q].sector + pages[q].count - 1
            BY <1>1, <5>1, <5>2, EntryFact
          <5>4. QED
            BY <5>3, CacheAssumption DEF Sector
        <4>4. CASE s \in part
          <5>1. p \in Holding(s)
            BY <1>3, <4>4 DEF Holding
          <5>2. \A q \in Holding(s) : q = p
            BY <1>1, <5>1, HoldingFact
          <5>3. New[s - first] = s
            BY <3>5, <4>3, <4>4, <5>1
          <5>4. QED
            BY <3>6, <5>1, <5>2, <5>3
        <4>5. CASE s \notin part
          <5>1. \A q \in Holding(s) : Old(q)[s - pages[q].sector] = s
            BY <3>2, <4>1, <4>3, <4>5
          <5>2. p \in Holding(s) => New[s - first] = s
            BY <3>5, <4>3, <4>5, <5>1
          <5>3. \A q \in Holding(s) : pages'[q].data[s - pages'[q].sector] = s
            BY <3>6, <4>1, <5>1, <5>2
          <5>4. (\A q \in Holding(s) : ~pages'[q].dirty) => blocks'[s] = s
            BY <3>3, <3>6, <4>1, <4>2, <4>5
          <5>5. QED
            BY <5>3, <5>4
        <4>6. QED
          BY <4>4, <4>5
      <3>9. QED
        BY <3>3, <3>6, <3>7, <3>8
    <2>3. QED
      BY <1>2, <2>1, <2>2
  <1>11. PagesFit' /\ \A s : Holding(s)' = Holding(s)
    BY <1>7, <1>10, SameSectors
  <1>12. DriverInv'
    <2>1. card \in Cards
      BY <1>1 DEF DriverInv, CardTypeOK
    <2>2. QED
      BY <1>1, <1>2, <1>10, <2>1, DriverKeeps
  <1>13. TypeOK'
    BY <1>1, <1>2, <1>6, <1>7, <1>10, <1>12 DEF TypeOK, DriverInv
  <1>14. Fresh' /\ FlushedIsClean'
    BY <1>2, <1>4, <1>6 DEF Fresh, Mounted, FlushedIsClean
  <1>15. QED
    BY <1>6, <1>10, <1>11, <1>12, <1>13, <1>14 DEF CacheInv

(* A page that is fetched holds what the card stores, which is current since  *)
(* no entry held any of its sectors; what a failed read destroys is suspect.  *)
LEMMA FillStep == ASSUME CacheInv, Fill PROVE CacheInv'
  <1> DEFINE v == Victim
             first == Base(call.sector)
             n == Count(call.sector)
             Into(d, f) == [i \in DOMAIN d |-> IF i < n THEN f[i] ELSE d[i]]
             Data == [0..SectorsPerPage - 1 -> Content]
             Entry == [sector : Sector \union {CACHE_FREE}, count : 0..SectorsPerPage,
                       dirty : BOOLEAN, data : Data]
             New == Into(NoData, Fetched(first, n))
             Spoilt == Into(pages[v].data, Fetched(first, n))
  <1>1. /\ TypeOK /\ PagesFit /\ Current /\ DriverInv /\ card \in Cards /\ drv \in Drivers
        /\ pages \in [Page -> Entry] /\ blocks \in [Block -> Block \union {Stale}]
        /\ used \in Seq(Page) /\ IsInjective(used) /\ suspect \subseteq Sector
        /\ call.sector \in Sector /\ flushed \in BOOLEAN
    BY DEF CacheInv, TypeOK, CardTypeOK
  <1>2. /\ call.op \in {"read", "write"} /\ Holding(call.sector) = {} /\ ~pages[v].dirty
        /\ UNCHANGED <<blocks, drv, cmd, rsp>>
    BY DEF Fill, Missing
  <1>3. v \in Page
    BY VictimFact DEF CacheInv, TypeOK, PagesFit
  <1>4. /\ cmd = "up" /\ ~flushed
    BY <1>2 DEF CacheInv, CallFits
  <1>5. /\ first \in Sector /\ n \in 1..SectorsPerPage /\ first + n <= EndOfPartition
        /\ call.sector \in first..first + n - 1
        /\ \A t \in first..first + n - 1 : Base(t) = first /\ Count(t) = n
    BY <1>1, BaseFact
  <1>6. PICK o \in Reads(first, n) :
           /\ card' = o.card
           /\ IF o.ok
              THEN /\ pages' = [pages EXCEPT ![v] = [sector |-> first, count |-> n,
                                  dirty |-> @.dirty, data |-> New]]
                   /\ Touch(v)
                   /\ UNCHANGED <<call, flushed, suspect>>
              ELSE /\ pages' = [pages EXCEPT ![v].data =
                                  IF o.moved /\ pages[v].sector # CACHE_FREE
                                  THEN Into(@, Fetched(first, n)) ELSE @]
                   /\ suspect' = IF o.moved THEN suspect \union SectorsOf(pages[v]) ELSE suspect
                   /\ Return(FALSE)
                   /\ UNCHANGED used
    BY DEF Fill
  <1>7. /\ first \in Nat /\ n \in Nat \ {0} /\ SectorsPerPage \in Nat /\ n <= SectorsPerPage
        /\ BlockCount \in Nat /\ EndOfPartition <= BlockCount /\ EndOfPartition \in Nat
    BY <1>5, CardAssumption, CacheAssumption DEF Sector
  <1>8. Fetched(first, n) \in [0..n - 1 -> Content]
        /\ (SameBus => \A i \in 0..n - 1 : Fetched(first, n)[i] = blocks[first + i])
    <2>1. BlockAt(card, Argument(first)) = first
      BY <1>1, <1>4, <1>7, AddressFact DEF DriverInv, Known, Mounted, Selected
    <2>2. \A i \in 0..n - 1 : first + i \in Block
      BY <1>5, <1>7 DEF Block
    <2>3. QED
      BY <1>1, <2>1, <2>2 DEF Fetched, Content
  <1> DEFINE data == Fetched(first, n)
  <1>9. /\ New \in Data /\ Spoilt \in Data
        /\ \A i \in 0..n - 1 : New[i] = data[i]
    <2> HIDE DEF data, first, n, v
    <2>1. \A i \in 0..SectorsPerPage - 1 : i < n => i \in 0..n - 1
      BY <1>7
    <2>2. ASSUME NEW d \in Data
          PROVE  Into(d, data) \in Data /\ \A i \in 0..n - 1 : Into(d, data)[i] = data[i]
      BY <1>7, <1>8, <2>1 DEF data
    <2>3. NoData \in Data /\ pages[v].data \in Data
      BY <1>1, <1>3 DEF NoData, Content
    <2>4. QED
      BY <2>2, <2>3 DEF data
  <1> HIDE DEF New, Spoilt, data
  <1>10. DriverInv' /\ (SameBus' <=> SameBus)
    <2>1. o.card \in Alike
      BY <1>1, TransferFact DEF Reads
    <2>2. /\ card' \in Cards /\ card'.kind = card.kind /\ card'.app = card.app
          /\ card'.wide = card.wide
      BY <1>6, <2>1 DEF Alike
    <2>3. QED
      BY <1>1, <1>2, <1>4, <2>2, DriverKeeps DEF Mounted
  <1>11. CASE o.ok
    <2> DEFINE e == [sector |-> first, count |-> n, dirty |-> FALSE, data |-> New]
    <2>1. /\ pages' = [pages EXCEPT ![v] = e] /\ Touch(v) /\ UNCHANGED <<call, flushed, suspect>>
      <3>1. pages[v].dirty = FALSE
        BY <1>1, <1>2, <1>3
      <3>2. QED
        BY <1>6, <1>11, <3>1
    <2>2. e \in Entry
      BY <1>5, <1>9
    <2>3. /\ e.sector = first /\ e.count = n /\ e.dirty = FALSE /\ e.data = New
      OBVIOUS
    <2> HIDE DEF e, Entry
    <2>4. /\ pages' \in [Page -> Entry] /\ pages'[v] = e
          /\ \A q \in Page : q # v => pages'[q] = pages[q]
      BY <1>1, <1>3, <2>1, <2>2
    <2>5. /\ used' \in Seq(Page) /\ IsInjective(used') /\ Range(used') = Range(used) \union {v}
      BY <1>1, <1>3, <2>1, TouchFact
    <2>6. \A q \in Page : InUse(q) => pages[q].sector # first
      <3>1. Base(call.sector) = first
        OBVIOUS
      <3>2. QED
        BY <1>1, <1>2, HoldingFact
    <2>7. PagesFit'
      <3>1. Base(first) = first /\ Count(first) = n /\ first # CACHE_FREE
        BY <1>5, <1>7 DEF Sector, CACHE_FREE
      <3>2. \A q \in Page : q # v => (InUse(q)' <=> InUse(q))
        BY <2>4 DEF InUse
      <3>3. ASSUME NEW q \in Page, InUse(q)'
            PROVE  /\ Base(pages'[q].sector) = pages'[q].sector
                   /\ pages'[q].count = Count(pages'[q].sector)
                   /\ q \in Range(used')
        BY <1>1, <2>3, <2>4, <2>5, <3>1, <3>2, <3>3 DEF PagesFit
      <3>4. ASSUME NEW q \in Page, pages'[q].dirty PROVE InUse(q)'
        BY <1>1, <2>3, <2>4, <3>2, <3>4 DEF PagesFit
      <3>5. ASSUME NEW q \in Page, NEW r \in Page, InUse(q)', pages'[q].sector = pages'[r].sector
            PROVE  q = r
        <4>1. InUse(r)'
          BY <3>5 DEF InUse
        <4>2. QED
          BY <1>1, <2>3, <2>4, <2>6, <3>2, <3>5, <4>1 DEF PagesFit
      <3>6. QED
        BY <3>3, <3>4, <3>5 DEF PagesFit
    <2>8. Current'
      <3> SUFFICES ASSUME SameBus, NEW s \in Sector \ suspect
                   PROVE  /\ \A q \in Holding(s)' : pages'[q].data[s - pages'[q].sector] = s
                          /\ (\A q \in Holding(s)' : ~pages'[q].dirty) => blocks'[s] = s
        BY <1>10, <2>1 DEF Current
      <3>1. /\ \A q \in Holding(s) : pages[q].data[s - pages[q].sector] = s
            /\ (\A q \in Holding(s) : ~pages[q].dirty) => blocks[s] = s
            /\ Holding(s) \subseteq Page /\ Holding(s)' \subseteq Page
        BY <1>1 DEF Current, Holding
      <3>2. \A q \in Page : q # v => (q \in Holding(s)' <=> q \in Holding(s))
        BY <2>4 DEF Holding, SectorsOf
      <3>3. (\A q \in Holding(s)' : ~pages'[q].dirty) => blocks'[s] = s
        BY <1>2, <2>4, <3>1, <3>2
      <3>4. ASSUME v \in Holding(s)' PROVE New[s - first] = s
        <4>1. s \in first..first + n - 1
          BY <2>3, <2>4, <3>4 DEF Holding, SectorsOf
        <4>2. Base(s) = first
          BY <1>5, <4>1
        <4>3. Holding(s) = {}
          BY <1>1, <2>6, <3>1, <4>2, HoldingFact
        <4>4. s - first \in 0..n - 1 /\ first + (s - first) = s
          BY <1>7, <4>1
        <4>5. New[s - first] = blocks[first + (s - first)]
          BY <1>8, <1>9, <4>4 DEF data
        <4>6. QED
          BY <3>1, <4>3, <4>4, <4>5
      <3>5. QED
        BY <2>3, <2>4, <3>1, <3>2, <3>3, <3>4
    <2>9. TypeOK'
      BY <1>1, <1>10, <2>1, <2>4, <2>5 DEF TypeOK, DriverInv, Entry
    <2>10. Fresh' /\ CallFits' /\ FlushedIsClean'
      BY <1>2, <1>4, <2>1 DEF CacheInv, Fresh, Mounted, CallFits, FlushedIsClean
    <2>11. QED
      BY <1>10, <2>7, <2>8, <2>9, <2>10 DEF CacheInv
  <1>12. CASE ~o.ok
    <2> DEFINE d == IF o.moved /\ pages[v].sector # CACHE_FREE THEN Spoilt ELSE pages[v].data
               e == [pages[v] EXCEPT !.data = d]
    <2>1. /\ pages' = [pages EXCEPT ![v] = e] /\ call' = Idle /\ flushed' = FALSE
          /\ suspect' = IF o.moved THEN suspect \union SectorsOf(pages[v]) ELSE suspect
          /\ UNCHANGED used
      BY <1>6, <1>12 DEF Return, Spoilt
    <2>2. d \in Data
      BY <1>1, <1>3, <1>9
    <2>3. ~o.moved => d = pages[v].data
      OBVIOUS
    <2> HIDE DEF d, Data
    <2>4. /\ e \in Entry /\ e.sector = pages[v].sector /\ e.count = pages[v].count
          /\ e.dirty = pages[v].dirty /\ e.data = d
      BY <1>1, <1>3, <2>2
    <2> HIDE DEF e, Entry
    <2>5. /\ pages' \in [Page -> Entry] /\ pages'[v] = e
          /\ \A q \in Page : q # v => pages'[q] = pages[q]
      BY <1>1, <1>3, <2>1, <2>4
    <2>6. \A q \in Page : /\ pages'[q].sector = pages[q].sector /\ pages'[q].count = pages[q].count
                          /\ pages'[q].dirty = pages[q].dirty
      BY <2>4, <2>5
    <2>7. PagesFit' /\ \A s : Holding(s)' = Holding(s)
      <3>1. \A q \in Page : pages'[q].dirty => InUse(q)
        BY <1>1, <2>6 DEF PagesFit
      <3>2. Range(used) \subseteq Range(used')
        BY <2>1
      <3>3. QED
        BY <2>5, <2>6, <3>1, <3>2, SameSectors DEF Entry, Data
    <2>8. suspect' \subseteq Sector /\ suspect \subseteq suspect'
      BY <1>1, <1>3, <2>1, EntryFact
    <2>9. Current'
      <3> SUFFICES ASSUME SameBus, NEW s \in Sector \ suspect'
                   PROVE  /\ \A q \in Holding(s) : pages'[q].data[s - pages'[q].sector] = s
                          /\ (\A q \in Holding(s) : ~pages'[q].dirty) => blocks'[s] = s
        BY <1>10, <2>7 DEF Current
      <3>1. /\ \A q \in Holding(s) : pages[q].data[s - pages[q].sector] = s
            /\ (\A q \in Holding(s) : ~pages[q].dirty) => blocks[s] = s
            /\ Holding(s) \subseteq Page
        BY <1>1, <2>8 DEF Current, Holding
      <3>2. v \in Holding(s) => ~o.moved
        BY <2>1 DEF Holding
      <3>3. \A q \in Holding(s) : pages'[q].data = pages[q].data
        BY <2>3, <2>4, <2>5, <3>1, <3>2
      <3>4. QED
        BY <1>2, <2>6, <3>1, <3>3
    <2>10. TypeOK'
      <3>1. Idle \in [op : {"idle", "read", "write", "flush", "unmount", "destroy"},
                      sector : Sector, left : 0..MaxSectors]
        BY CacheAssumption DEF Idle, Sector
      <3>2. QED
        BY <1>1, <1>10, <2>1, <2>5, <2>8, <3>1 DEF TypeOK, DriverInv, Entry, Data
    <2>11. Fresh' /\ CallFits' /\ FlushedIsClean'
      BY <1>2, <1>4, <2>1 DEF Fresh, Mounted, CallFits, FlushedIsClean, Idle
    <2>12. QED
      BY <1>10, <2>7, <2>9, <2>10, <2>11 DEF CacheInv
  <1>13. QED
    BY <1>11, <1>12

-----------------------------------------------------------------------------
(* The theorems.                                                              *)

LEMMA CacheInvInit == Init => CacheInv
  <1> SUFFICES ASSUME Init PROVE CacheInv
    OBVIOUS
  <1>1. DriverInv /\ CardTypeOK
    BY DriverInit DEF Init, DriverInv
  <1>2. /\ pages = [p \in Page |-> FreePage] /\ used = <<>> /\ call = Idle
        /\ flushed = FALSE /\ suspect = {} /\ cmd = "off" /\ blocks = [b \in Block |-> b]
    BY DEF Init, CacheInit, CardInit
  <1>3. FreePage \in [sector : Sector \union {CACHE_FREE}, count : 0..SectorsPerPage,
                      dirty : BOOLEAN, data : [0..SectorsPerPage - 1 -> Content]]
    BY CacheAssumption DEF FreePage, NoData, Content
  <1>4. <<>> \in Seq(Page) /\ IsInjective(<<>>)
    BY DEF IsInjective
  <1>5. Idle \in [op : {"idle", "read", "write", "flush", "unmount", "destroy"},
                  sector : Sector, left : 0..MaxSectors]
    BY CacheAssumption DEF Idle, Sector
  <1>6. TypeOK
    BY <1>1, <1>2, <1>3, <1>4, <1>5 DEF TypeOK
  <1>7. PagesFit /\ Fresh /\ CallFits /\ FlushedIsClean
    BY <1>2 DEF PagesFit, InUse, FreePage, Fresh, CallFits, Idle, FlushedIsClean
  <1>8. Current
    <2>1. \A s \in Sector : Holding(s) = {}
      BY <1>2 DEF Holding, SectorsOf, FreePage
    <2>2. \A s \in Sector : s \in Block
      BY CardAssumption, CacheAssumption DEF Sector, Block
    <2>3. QED
      BY <1>2, <2>1, <2>2 DEF Current
  <1>9. QED
    BY <1>1, <1>6, <1>7, <1>8 DEF CacheInv

LEMMA CacheInvStep == CacheInv /\ [Next]_vars => CacheInv'
  <1> SUFFICES ASSUME CacheInv, [Next]_vars PROVE CacheInv'
    OBVIOUS
  <1>1. CASE Mount
    BY <1>1, MountStep
  <1>2. CASE BeginRead \/ BeginWrite \/ BeginFlush \/ BeginUnmount
    BY <1>2, BeginStep
  <1>3. CASE \E p \in Page : Serve(p)
    BY <1>3, ServeStep
  <1>4. CASE WriteBack \/ FlushPage
    BY <1>4, WriteStep
  <1>5. CASE Fill
    BY <1>5, FillStep
  <1>6. CASE Flushed
    BY <1>6, FlushedStep
  <1>7. CASE Destroy
    BY <1>7, DestroyStep
  <1>8. CASE UNCHANGED vars
    BY <1>8
    DEF vars, cardVars, cacheVars, CacheInv, DriverInv, CardTypeOK, Known, Narrow, Agreed, SameBus,
        TypeOK, Fresh, CallFits, PagesFit, InUse, Current, Holding, FlushedIsClean
  <1>9. QED
    BY <1>1, <1>2, <1>3, <1>4, <1>5, <1>6, <1>7, <1>8 DEF Next, Work

(* The invariant that the theorems below rest on: what the driver knows of    *)
(* its card, and where the current contents of each sector are.               *)
THEOREM CacheInvariant == Spec => []CacheInv
  <1>1. QED
    BY CacheInvInit, CacheInvStep, PTL DEF Spec

(* Every page and every call stays within its bounds, whatever fails.         *)
THEOREM SectorCacheTypes == Spec => []TypeOK
  <1>1. CacheInv => TypeOK
    BY DEF CacheInv
  <1>2. QED
    BY <1>1, CacheInvariant, PTL

(* What a call of _FAT_cache_writeSectors has put in the cache is not lost:   *)
(* it is in the one page that holds the sector, and on the card too once that *)
(* page is clean, for pages of any size, whatever transfers have failed.      *)
THEOREM CacheKeeps == Spec => []WrittenIsKept
  <1>1. CacheInv => WrittenIsKept
    <2> SUFFICES ASSUME CacheInv, SameBus, NEW s \in Sector \ suspect
                 PROVE  Cardinality(Holding(s)) <= 1
      BY DEF CacheInv, Current, WrittenIsKept
    <2>1. CASE Holding(s) = {}
      BY <2>1, FS_EmptySet
    <2>2. CASE Holding(s) # {}
      <3>1. PICK p \in Holding(s) : TRUE
        BY <2>2
      <3>2. Holding(s) = {p}
        BY <3>1, HoldingFact DEF CacheInv
      <3>3. QED
        BY <3>2, FS_Singleton
    <2>3. QED
      BY <2>1, <2>2
  <1>2. QED
    BY <1>1, CacheInvariant, PTL

(* A successful _FAT_cache_flush leaves nothing in the cache alone: all that  *)
(* was written is on the card.                                                *)
THEOREM FlushIsComplete == Spec => []FlushStores
  <1>1. CacheInv => FlushStores
    BY DEF CacheInv, FlushedIsClean, Current, FlushStores, Holding
  <1>2. QED
    BY <1>1, CacheInvariant, PTL

(* If the commands of mmc_select_card are not lost, a driver that is up       *)
(* addresses the card as the card counts and uses the bus that the card uses, *)
(* whichever card there is and whatever was lost before.                      *)
THEOREM DriverAgrees == ~LateFaults => (Spec => []MountAgrees)
  <1>1. ~LateFaults /\ CacheInv => MountAgrees
    BY DEF CacheInv, DriverInv, Known, Agreed, Mounted, Selected, Identified, MountAgrees
  <1>2. CASE LateFaults
    BY <1>2
  <1>3. CASE ~LateFaults
    <2>1. CacheInv => MountAgrees
      BY <1>1, <1>3
    <2>2. Spec => []MountAgrees
      BY <2>1, CacheInvariant, PTL
    <2>3. QED
      BY <2>2
  <1>4. QED
    BY <1>2, <1>3
=============================================================================
