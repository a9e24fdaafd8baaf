SPECIFICATION Spec
CONSTANTS
  Uses = {"tk_rel_wai"}
  CFN_MAX_TSKID = 4
  CFN_MAX_PRI = 2
  TK_WAKEUP_MAXCNT = 0
  CrePri = {1, 2}
  Tmo = {}
  RelTim = {}
  CFN_MAX_SEMID = 0
  TK_SEMAPHORE_MAXCNT = 2
  SemAtr = {}
  SemCnt = {}
  SemTmo = {}
  CFN_MAX_FLGID = 1
  Bit = {1, 2}
  FlgAtr <- MCFlgAtr
  FlgPtn <- MCFlgPtn
  WfMode <- MCWfMode
  FlgTmo <- MCFlgTmo
  CFN_MAX_MBXID = 0
  Msg = {}
  MsgPri <- NoMsgPri
  MbxAtr = {}
  MbxTmo = {}
  MaxEdges = 0
INVARIANTS NoFlagMissed PatternDelivered
PROPERTY BitsUsedInTurn
