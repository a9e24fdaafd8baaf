SPECIFICATION FairSpec
CONSTANTS
  Uses = {"tk_wup_tsk", "tk_ext_tsk", "tk_exd_tsk", "tk_rel_wai", "DI", "irq"}
  CFN_MAX_TSKID = 3
  CFN_MAX_PRI = 2
  TK_WAKEUP_MAXCNT = 0
  CrePri = {2}
  Tmo <- MCTmoLimit
  RelTim = {}
  CFN_MAX_SEMID = 0
  TK_SEMAPHORE_MAXCNT = 2
  SemAtr = {}
  SemCnt = {}
  SemTmo = {}
  CFN_MAX_FLGID = 1
  Bit = {1}
  FlgAtr <- MCFlgAtrOne
  FlgPtn = {{1}}
  WfMode <- MCWfModeClr
  FlgTmo = {10}
  CFN_MAX_MBXID = 0
  Msg = {}
  MsgPri <- NoMsgPri
  MbxAtr = {}
  MbxTmo = {}
  MaxEdges = 1
PROPERTIES SwitchServed TimedWaitEnds
