SPECIFICATION Spec
CONSTANTS
  Uses = {"tk_rel_wai", "tk_del_sem", "irq"}
  CFN_MAX_TSKID = 4
  CFN_MAX_PRI = 3
  TK_WAKEUP_MAXCNT = 0
  CrePri = {2}
  Tmo = {}
  RelTim = {}
  CFN_MAX_SEMID = 1
  TK_SEMAPHORE_MAXCNT = 2
  SemAtr <- MCSemAtr
  SemCnt = {1, 2}
  SemTmo <- MCSemTmo
  CFN_MAX_FLGID = 0
  Bit = {}
  FlgAtr = {}
  FlgPtn = {}
  WfMode = {}
  FlgTmo = {}
  CFN_MAX_MBXID = 0
  Msg = {}
  MsgPri <- NoMsgPri
  MbxAtr = {}
  MbxTmo = {}
  MaxEdges = 0
INVARIANTS TypeOK WaitQueuesConsistent UnitsConserved NoUnitsWithheld
PROPERTIES WaitersKeepPlace ServedInOrder HeadNotPassed
