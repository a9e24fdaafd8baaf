SPECIFICATION Spec
CONSTANTS
  Uses = {"tk_wup_tsk", "tk_ext_tsk", "tk_exd_tsk", "tk_rel_wai", "DI", "irq"}
  CFN_MAX_TSKID = 3
  CFN_MAX_PRI = 2
  TK_WAKEUP_MAXCNT = 1
  CrePri = {1, 2}
  Tmo <- MCTmo
  RelTim = {0, 15}
  CFN_MAX_SEMID = 0
  TK_SEMAPHORE_MAXCNT = 2
  SemAtr = {}
  SemCnt = {}
  SemTmo = {}
  CFN_MAX_FLGID = 0
  Bit = {}
  FlgAtr = {}
  FlgPtn = {}
  WfMode = {}
  FlgTmo = {}
  CFN_MAX_MBXID = 0
  Msg = {}
  MsgPri <- NoMsgPri
  MbxAtr = {}
  MbxTmo = {}
  MaxEdges = 2
INVARIANTS TimersExact WakeupsConserved CauseFresh
PROPERTY TimeoutNeverEarly
