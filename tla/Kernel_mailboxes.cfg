SPECIFICATION Spec
CONSTANTS
  Uses = {"tk_rel_wai", "tk_del_mbx"}
  CFN_MAX_TSKID = 4
  CFN_MAX_PRI = 2
  TK_WAKEUP_MAXCNT = 0
  CrePri = {1, 2}
  Tmo = {}
  RelTim = {}
  CFN_MAX_SEMID = 0
  TK_SEMAPHORE_MAXCNT = 2
  SemAtr = {}
  SemCnt = {}
  SemTmo = {}
  CFN_MAX_FLGID = 0
  Bit = {}
  FlgAtr = {}
  FlgPtn = {}
  WfMode = {}
  FlgTmo = {}
  CFN_MAX_MBXID = 1
  Msg = {1, 2, 3, 4}
  MsgPri <- MCMsgPri
  MbxAtr <- MCMbxAtr
  MbxTmo <- MCMbxTmo
  MaxEdges = 1
INVARIANTS MessagesConserved NoMessageWithheld
PROPERTY MessagesKeepOrder
