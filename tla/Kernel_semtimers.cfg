SPECIFICATION Spec
CONSTANTS
  Uses = {}
  CFN_MAX_TSKID = 4
  CFN_MAX_PRI = 2
  TK_WAKEUP_MAXCNT = 0
  CrePri = {1}
  Tmo = {}
  RelTim = {}
  CFN_MAX_SEMID = 1
  TK_SEMAPHORE_MAXCNT = 2
  SemAtr <- MCSemAtrFirst
  SemCnt = {0, 1, 2}
  SemTmo = {0, 10}
  CFN_MAX_FLGID = 0
  Bit = {}
  FlgAtr = {}
  FlgPtn = {}
  WfMode = {}
  FlgTmo = {}
  CFN_MAX_MBXID = 0
  Msg = {}
  MsgPri <- NoMsgPri
  MbxAtr = {}
  MbxTmo = {}
  MaxEdges = 2
INVARIANT QueuesConsistent
PROPERTY LateHandlerServes
