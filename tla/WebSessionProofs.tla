------------------------- MODULE WebSessionProofs -------------------------
(***************************************************************************)
(* Proofs about the login session of a page (WebSession), for any number   *)
(* of requests, loads and sign-outs in progress at once.                   *)
(*                                                                         *)
(* The four invariants that TLC checks are inductive together, and no less: *)
(* a refresh that ends wakes its waiters because WaitersHaveRefresh says    *)
(* that each has one; SuspendDrains holds after it because the sign-outs    *)
(* that drained are among them; and a page that is out stays out because a  *)
(* refresh that is suspended is not under way.  One lemma an action shows   *)
(* that it keeps the four.                                                 *)
(***************************************************************************)
EXTENDS WebSession, TLAPS

\* The invariants together.
SessionInv ==
  SessionTypeOK /\ WaitersHaveRefresh /\ SuspendDrains /\ OutMeansOut

LEMMA InitSatisfiesInv == SessionInit => SessionInv
<1> SUFFICES ASSUME SessionInit PROVE SessionInv
  OBVIOUS
<1>1. SessionTypeOK
  BY DEF SessionInit, FirstLoads, SessionTypeOK, SignOuts
<1>2. WaitersHaveRefresh
  BY DEF SessionInit, FirstLoads, WaitersHaveRefresh, Waits, SignOuts
<1>3. SuspendDrains /\ OutMeansOut
  BY DEF SessionInit, SuspendDrains, OutMeansOut
<1> QED BY <1>1, <1>2, <1>3 DEF SessionInv

LEMMA StutteringKeepsInv ==
  ASSUME SessionInv, UNCHANGED sessionVars
  PROVE  SessionInv'
<1>1. SessionTypeOK'
  BY DEF SessionInv, SessionTypeOK, sessionVars, login, work
<1>2. WaitersHaveRefresh'
  BY DEF SessionInv, WaitersHaveRefresh, Waits, sessionVars, login, work
<1>3. SuspendDrains' /\ OutMeansOut'
  BY DEF SessionInv, SuspendDrains, OutMeansOut, Drained, Draining,
         sessionVars, login, work
<1> QED BY <1>1, <1>2, <1>3 DEF SessionInv

-----------------------------------------------------------------------------
(* The refresh. *)

LEMMA RefreshSucceedsKeepsInv ==
  ASSUME SessionInv, RefreshSucceeds
  PROVE  SessionInv'
<1>1. SessionTypeOK'
  BY DEF SessionInv, SessionTypeOK, RefreshSucceeds, Wake, Awake, SignedOut,
      NewToken, Become, login, work, SignOuts
<1>2. WaitersHaveRefresh'
  BY DEF SessionInv, SessionTypeOK, WaitersHaveRefresh, Waits,
      RefreshSucceeds, Wake, Awake, SignedOut, NewToken, Become, login, work,
      SignOuts
<1>3. SuspendDrains'
  BY DEF SessionInv, SessionTypeOK, SuspendDrains, Drained, Draining,
      RefreshSucceeds, Wake, Awake, SignedOut, NewToken, Become, login, work,
      SignOuts
<1>4. OutMeansOut'
  BY DEF SessionInv, SessionTypeOK, OutMeansOut, Drained, Draining,
      RefreshSucceeds, Wake, Awake, SignedOut, NewToken, Become, login, work,
      SignOuts
<1> QED BY <1>1, <1>2, <1>3, <1>4 DEF SessionInv

LEMMA RefreshRefusedKeepsInv ==
  ASSUME SessionInv, RefreshRefused
  PROVE  SessionInv'
<1>1. SessionTypeOK'
  BY DEF SessionInv, SessionTypeOK, RefreshRefused, Wake, Awake, SignedOut,
      Eject, Become, login, work, SignOuts
<1>2. WaitersHaveRefresh'
  BY DEF SessionInv, SessionTypeOK, WaitersHaveRefresh, Waits, RefreshRefused,
      Wake, Awake, SignedOut, Eject, Become, login, work, SignOuts
<1>3. SuspendDrains'
  BY DEF SessionInv, SessionTypeOK, SuspendDrains, Drained, Draining,
      RefreshRefused, Wake, Awake, SignedOut, Eject, Become, login, work,
      SignOuts
<1>4. OutMeansOut'
  BY DEF SessionInv, SessionTypeOK, OutMeansOut, Drained, Draining,
      RefreshRefused, Wake, Awake, SignedOut, Eject, Become, login, work,
      SignOuts
<1> QED BY <1>1, <1>2, <1>3, <1>4 DEF SessionInv

LEMMA RefreshFailsKeepsInv ==
  ASSUME SessionInv, RefreshFails
  PROVE  SessionInv'
<1>1. SessionTypeOK'
  BY DEF SessionInv, SessionTypeOK, RefreshFails, Wake, Awake, SignedOut,
      Become, login, work, SignOuts
<1>2. WaitersHaveRefresh'
  BY DEF SessionInv, SessionTypeOK, WaitersHaveRefresh, Waits, RefreshFails,
      Wake, Awake, SignedOut, Become, login, work, SignOuts
<1>3. SuspendDrains'
  BY DEF SessionInv, SessionTypeOK, SuspendDrains, Drained, Draining,
      RefreshFails, Wake, Awake, SignedOut, Become, login, work, SignOuts
<1>4. OutMeansOut'
  BY DEF SessionInv, SessionTypeOK, OutMeansOut, Drained, Draining,
      RefreshFails, Wake, Awake, SignedOut, Become, login, work, SignOuts
<1> QED BY <1>1, <1>2, <1>3, <1>4 DEF SessionInv

-----------------------------------------------------------------------------
(* The requests. *)

LEMMA RequestKeepsInv ==
  ASSUME SessionInv, NEW r \in Requests, Request(r)
  PROVE  SessionInv'
<1>1. SessionTypeOK'
  BY DEF SessionInv, SessionTypeOK, Request, SetReq, Join, login, work,
      SignOuts
<1>2. WaitersHaveRefresh'
  BY DEF SessionInv, SessionTypeOK, WaitersHaveRefresh, Waits, Request,
      SetReq, Join, login, work, SignOuts
<1>3. SuspendDrains'
  BY DEF SessionInv, SessionTypeOK, SuspendDrains, Drained, Draining, Request,
      SetReq, Join, login, work, SignOuts
<1>4. OutMeansOut'
  BY DEF SessionInv, SessionTypeOK, OutMeansOut, Drained, Draining, Request,
      SetReq, Join, login, work, SignOuts
<1> QED BY <1>1, <1>2, <1>3, <1>4 DEF SessionInv

LEMMA AnsweredKeepsInv ==
  ASSUME SessionInv, NEW r \in Requests, Answered(r)
  PROVE  SessionInv'
<1>1. SessionTypeOK'
  BY DEF SessionInv, SessionTypeOK, Answered, SetReq, login, work, SignOuts
<1>2. WaitersHaveRefresh'
  BY DEF SessionInv, SessionTypeOK, WaitersHaveRefresh, Waits, Answered,
      SetReq, login, work, SignOuts
<1>3. SuspendDrains'
  BY DEF SessionInv, SessionTypeOK, SuspendDrains, Drained, Draining,
      Answered, SetReq, login, work, SignOuts
<1>4. OutMeansOut'
  BY DEF SessionInv, SessionTypeOK, OutMeansOut, Drained, Draining, Answered,
      SetReq, login, work, SignOuts
<1> QED BY <1>1, <1>2, <1>3, <1>4 DEF SessionInv

LEMMA UnauthorizedKeepsInv ==
  ASSUME SessionInv, NEW r \in Requests, Unauthorized(r)
  PROVE  SessionInv'
<1>1. SessionTypeOK'
  BY DEF SessionInv, SessionTypeOK, Unauthorized, SetReq, Join, login, work,
      SignOuts
<1>2. WaitersHaveRefresh'
  BY DEF SessionInv, SessionTypeOK, WaitersHaveRefresh, Waits, Unauthorized,
      SetReq, Join, login, work, SignOuts
<1>3. SuspendDrains'
  BY DEF SessionInv, SessionTypeOK, SuspendDrains, Drained, Draining,
      Unauthorized, SetReq, Join, login, work, SignOuts
<1>4. OutMeansOut'
  BY DEF SessionInv, SessionTypeOK, OutMeansOut, Drained, Draining,
      Unauthorized, SetReq, Join, login, work, SignOuts
<1> QED BY <1>1, <1>2, <1>3, <1>4 DEF SessionInv

LEMMA EjectedKeepsInv ==
  ASSUME SessionInv, NEW r \in Requests, Ejected(r)
  PROVE  SessionInv'
<1>1. SessionTypeOK'
  BY DEF SessionInv, SessionTypeOK, Ejected, SetReq, Eject, Become, login,
      work, SignOuts
<1>2. WaitersHaveRefresh'
  BY DEF SessionInv, SessionTypeOK, WaitersHaveRefresh, Waits, Ejected,
      SetReq, Eject, Become, login, work, SignOuts
<1>3. SuspendDrains'
  BY DEF SessionInv, SessionTypeOK, SuspendDrains, Drained, Draining, Ejected,
      SetReq, Eject, Become, login, work, SignOuts
<1>4. OutMeansOut'
  <2>1. PICK held \in {FALSE, token} : Become(held, auth)
    BY DEF Ejected, Eject
  <2>2. suspended' = suspended /\ refreshing' = refreshing /\ load' = load /\ out' = out
    BY DEF Ejected
  <2>3. CASE held = FALSE
    BY <2>1, <2>2, <2>3 DEF SessionInv, OutMeansOut, Become, Drained, Draining
  <2>4. CASE held = token
    BY <2>1, <2>2, <2>4 DEF SessionInv, OutMeansOut, Become, Drained, Draining
  <2> QED BY <2>1, <2>3, <2>4
<1> QED BY <1>1, <1>2, <1>3, <1>4 DEF SessionInv

-----------------------------------------------------------------------------
(* loadConfig. *)

LEMMA StartLoadKeepsInv ==
  ASSUME SessionInv, NEW l \in Loads, StartLoad(l)
  PROVE  SessionInv'
<1>1. SessionTypeOK'
  BY DEF SessionInv, SessionTypeOK, StartLoad, SetLoad, login, work, SignOuts
<1>2. WaitersHaveRefresh'
  BY DEF SessionInv, SessionTypeOK, WaitersHaveRefresh, Waits, StartLoad,
      SetLoad, login, work, SignOuts
<1>3. SuspendDrains'
  BY DEF SessionInv, SessionTypeOK, SuspendDrains, Drained, Draining,
      StartLoad, SetLoad, login, work, SignOuts
<1>4. OutMeansOut'
  BY DEF SessionInv, SessionTypeOK, OutMeansOut, Drained, Draining, StartLoad,
      SetLoad, login, work, SignOuts
<1> QED BY <1>1, <1>2, <1>3, <1>4 DEF SessionInv

LEMMA StatusIdleKeepsInv ==
  ASSUME SessionInv, NEW l \in Loads, StatusIdle(l)
  PROVE  SessionInv'
<1>1. SessionTypeOK'
  BY DEF SessionInv, SessionTypeOK, StatusIdle, SetLoad, Report, Become,
      login, work, SignOuts
<1>2. WaitersHaveRefresh'
  BY DEF SessionInv, SessionTypeOK, WaitersHaveRefresh, Waits, StatusIdle,
      SetLoad, Report, Become, login, work, SignOuts
<1>3. SuspendDrains'
  BY DEF SessionInv, SessionTypeOK, SuspendDrains, Drained, Draining,
      StatusIdle, SetLoad, Report, Become, login, work, SignOuts
<1>4. OutMeansOut'
  BY DEF SessionInv, SessionTypeOK, OutMeansOut, Drained, Draining,
      StatusIdle, SetLoad, Report, Become, login, work, SignOuts
<1> QED BY <1>1, <1>2, <1>3, <1>4 DEF SessionInv

LEMMA StatusKnownKeepsInv ==
  ASSUME SessionInv, NEW l \in Loads, StatusKnown(l)
  PROVE  SessionInv'
<1>1. SessionTypeOK'
  BY DEF SessionInv, SessionTypeOK, StatusKnown, SetLoad, Report, Become,
      login, work, SignOuts
<1>2. WaitersHaveRefresh'
  BY DEF SessionInv, SessionTypeOK, WaitersHaveRefresh, Waits, StatusKnown,
      SetLoad, Report, Become, login, work, SignOuts
<1>3. SuspendDrains'
  BY DEF SessionInv, SessionTypeOK, SuspendDrains, Drained, Draining,
      StatusKnown, SetLoad, Report, Become, login, work, SignOuts
<1>4. OutMeansOut'
  BY DEF SessionInv, SessionTypeOK, OutMeansOut, Drained, Draining,
      StatusKnown, SetLoad, Report, Become, login, work, SignOuts
<1> QED BY <1>1, <1>2, <1>3, <1>4 DEF SessionInv

LEMMA StatusRestoresKeepsInv ==
  ASSUME SessionInv, NEW l \in Loads, StatusRestores(l)
  PROVE  SessionInv'
<1>1. SessionTypeOK'
  BY DEF SessionInv, SessionTypeOK, StatusRestores, SetLoad, Join, login,
      work, SignOuts
<1>2. WaitersHaveRefresh'
  BY DEF SessionInv, SessionTypeOK, WaitersHaveRefresh, Waits, StatusRestores,
      SetLoad, Join, login, work, SignOuts
<1>3. SuspendDrains'
  BY DEF SessionInv, SessionTypeOK, SuspendDrains, Drained, Draining,
      StatusRestores, SetLoad, Join, login, work, SignOuts
<1>4. OutMeansOut'
  BY DEF SessionInv, SessionTypeOK, OutMeansOut, Drained, Draining,
      StatusRestores, SetLoad, Join, login, work, SignOuts
<1> QED BY <1>1, <1>2, <1>3, <1>4 DEF SessionInv

LEMMA StatusAgainKeepsInv ==
  ASSUME SessionInv, NEW l \in Loads, StatusAgain(l)
  PROVE  SessionInv'
<1>1. SessionTypeOK'
  BY DEF SessionInv, SessionTypeOK, StatusAgain, SetLoad, Report, Become,
      login, work, SignOuts
<1>2. WaitersHaveRefresh'
  BY DEF SessionInv, SessionTypeOK, WaitersHaveRefresh, Waits, StatusAgain,
      SetLoad, Report, Become, login, work, SignOuts
<1>3. SuspendDrains'
  BY DEF SessionInv, SessionTypeOK, SuspendDrains, Drained, Draining,
      StatusAgain, SetLoad, Report, Become, login, work, SignOuts
<1>4. OutMeansOut'
  BY DEF SessionInv, SessionTypeOK, OutMeansOut, Drained, Draining,
      StatusAgain, SetLoad, Report, Become, login, work, SignOuts
<1> QED BY <1>1, <1>2, <1>3, <1>4 DEF SessionInv

LEMMA LoadFailsKeepsInv ==
  ASSUME SessionInv, NEW l \in Loads, LoadFails(l)
  PROVE  SessionInv'
<1>1. SessionTypeOK'
  BY DEF SessionInv, SessionTypeOK, LoadFails, SetLoad, login, work, SignOuts
<1>2. WaitersHaveRefresh'
  BY DEF SessionInv, SessionTypeOK, WaitersHaveRefresh, Waits, LoadFails,
      SetLoad, login, work, SignOuts
<1>3. SuspendDrains'
  BY DEF SessionInv, SessionTypeOK, SuspendDrains, Drained, Draining,
      LoadFails, SetLoad, login, work, SignOuts
<1>4. OutMeansOut'
  BY DEF SessionInv, SessionTypeOK, OutMeansOut, Drained, Draining, LoadFails,
      SetLoad, login, work, SignOuts
<1> QED BY <1>1, <1>2, <1>3, <1>4 DEF SessionInv

-----------------------------------------------------------------------------
(* Login, logout() and the other tabs. *)

LEMMA LoginKeepsInv ==
  ASSUME SessionInv, Login
  PROVE  SessionInv'
<1>1. SessionTypeOK'
  BY DEF SessionInv, SessionTypeOK, Login, SetLoad, NewToken, login, work,
      SignOuts
<1>2. WaitersHaveRefresh'
  BY DEF SessionInv, SessionTypeOK, WaitersHaveRefresh, Waits, Login, SetLoad,
      NewToken, login, work, SignOuts
<1>3. SuspendDrains'
  BY DEF SessionInv, SessionTypeOK, SuspendDrains, Drained, Draining, Login,
      SetLoad, NewToken, login, work, SignOuts
<1>4. OutMeansOut'
  BY DEF SessionInv, SessionTypeOK, OutMeansOut, Drained, Draining, Login,
      SetLoad, NewToken, login, work, SignOuts
<1> QED BY <1>1, <1>2, <1>3, <1>4 DEF SessionInv

LEMMA LogoutKeepsInv ==
  ASSUME SessionInv, NEW o \in Logouts, Logout(o)
  PROVE  SessionInv'
<1>1. SessionTypeOK'
  BY DEF SessionInv, SessionTypeOK, Logout, SetOut, Drain, login, work,
      SignOuts
<1>2. WaitersHaveRefresh'
  BY DEF SessionInv, SessionTypeOK, WaitersHaveRefresh, Waits, Logout, SetOut,
      Drain, login, work, SignOuts
<1>3. SuspendDrains'
  BY DEF SessionInv, SessionTypeOK, SuspendDrains, Drained, Draining, Logout,
      SetOut, Drain, login, work, SignOuts
<1>4. OutMeansOut'
  BY DEF SessionInv, SessionTypeOK, OutMeansOut, Drained, Draining, Logout,
      SetOut, Drain, login, work, SignOuts
<1> QED BY <1>1, <1>2, <1>3, <1>4 DEF SessionInv

LEMMA LogoutDoneKeepsInv ==
  ASSUME SessionInv, NEW o \in Logouts, LogoutDone(o)
  PROVE  SessionInv'
<1>1. SessionTypeOK'
  BY DEF SessionInv, SessionTypeOK, LogoutDone, Finished, SetOut, SignedOut,
      Become, login, work, SignOuts
<1>2. WaitersHaveRefresh'
  BY DEF SessionInv, SessionTypeOK, WaitersHaveRefresh, Waits, LogoutDone,
      Finished, SetOut, SignedOut, Become, login, work, SignOuts
<1>3. SuspendDrains'
  BY DEF SessionInv, SessionTypeOK, SuspendDrains, Drained, Draining,
      LogoutDone, Finished, SetOut, SignedOut, Become, login, work, SignOuts
<1>4. OutMeansOut'
  BY DEF SessionInv, SessionTypeOK, OutMeansOut, Drained, Draining,
      SuspendDrains, LogoutDone, Finished, SetOut, SignedOut, Become, login,
      work, SignOuts
<1> QED BY <1>1, <1>2, <1>3, <1>4 DEF SessionInv

LEMMA OtherTabExpiresKeepsInv ==
  ASSUME SessionInv, OtherTabExpires
  PROVE  SessionInv'
<1>1. SessionTypeOK'
  BY DEF SessionInv, SessionTypeOK, OtherTabExpires, login, work, SignOuts
<1>2. WaitersHaveRefresh'
  BY DEF SessionInv, SessionTypeOK, WaitersHaveRefresh, Waits,
      OtherTabExpires, login, work, SignOuts
<1>3. SuspendDrains'
  BY DEF SessionInv, SessionTypeOK, SuspendDrains, Drained, Draining,
      OtherTabExpires, login, work, SignOuts
<1>4. OutMeansOut'
  BY DEF SessionInv, SessionTypeOK, OutMeansOut, Drained, Draining,
      OtherTabExpires, login, work, SignOuts
<1> QED BY <1>1, <1>2, <1>3, <1>4 DEF SessionInv

LEMMA OtherTabBeginsKeepsInv ==
  ASSUME SessionInv, OtherTabBegins
  PROVE  SessionInv'
<1>1. SessionTypeOK'
  BY DEF SessionInv, SessionTypeOK, OtherTabBegins, login, work, SignOuts
<1>2. WaitersHaveRefresh'
  BY DEF SessionInv, SessionTypeOK, WaitersHaveRefresh, Waits, OtherTabBegins,
      login, work, SignOuts
<1>3. SuspendDrains'
  BY DEF SessionInv, SessionTypeOK, SuspendDrains, Drained, Draining,
      OtherTabBegins, login, work, SignOuts
<1>4. OutMeansOut'
  BY DEF SessionInv, SessionTypeOK, OutMeansOut, Drained, Draining,
      OtherTabBegins, login, work, SignOuts
<1> QED BY <1>1, <1>2, <1>3, <1>4 DEF SessionInv

-----------------------------------------------------------------------------
(* The effects and the reload. *)

LEMMA TimerFiresKeepsInv ==
  ASSUME SessionInv, TimerFires
  PROVE  SessionInv'
<1>1. SessionTypeOK'
  BY DEF SessionInv, SessionTypeOK, TimerFires, Join, login, work, SignOuts
<1>2. WaitersHaveRefresh'
  BY DEF SessionInv, SessionTypeOK, WaitersHaveRefresh, Waits, TimerFires,
      Join, login, work, SignOuts
<1>3. SuspendDrains'
  BY DEF SessionInv, SessionTypeOK, SuspendDrains, Drained, Draining,
      TimerFires, Join, login, work, SignOuts
<1>4. OutMeansOut'
  BY DEF SessionInv, SessionTypeOK, OutMeansOut, Drained, Draining,
      TimerFires, Join, login, work, SignOuts
<1> QED BY <1>1, <1>2, <1>3, <1>4 DEF SessionInv

LEMMA IdleTimeoutKeepsInv ==
  ASSUME SessionInv, NEW o \in Expiries, IdleTimeout(o)
  PROVE  SessionInv'
<1>1. SessionTypeOK'
  BY DEF SessionInv, SessionTypeOK, IdleTimeout, Expire, SignedOut, Become,
      SetOut, Drain, login, work, SignOuts
<1>2. WaitersHaveRefresh'
  BY DEF SessionInv, SessionTypeOK, WaitersHaveRefresh, Waits, IdleTimeout,
      Expire, SignedOut, Become, SetOut, Drain, login, work, SignOuts
<1>3. SuspendDrains'
  BY DEF SessionInv, SessionTypeOK, SuspendDrains, Drained, Draining,
      IdleTimeout, Expire, SignedOut, Become, SetOut, Drain, login, work,
      SignOuts
<1>4. OutMeansOut'
  BY DEF SessionInv, SessionTypeOK, OutMeansOut, Drained, Draining,
      IdleTimeout, Expire, SignedOut, Become, SetOut, Drain, login, work,
      SignOuts
<1> QED BY <1>1, <1>2, <1>3, <1>4 DEF SessionInv

LEMMA StorageEventKeepsInv ==
  ASSUME SessionInv, NEW o \in Expiries, StorageEvent(o)
  PROVE  SessionInv'
<1>1. SessionTypeOK'
  BY DEF SessionInv, SessionTypeOK, StorageEvent, Expire, SignedOut, Become,
      SetOut, Drain, login, work, SignOuts
<1>2. WaitersHaveRefresh'
  BY DEF SessionInv, SessionTypeOK, WaitersHaveRefresh, Waits, StorageEvent,
      Expire, SignedOut, Become, SetOut, Drain, login, work, SignOuts
<1>3. SuspendDrains'
  BY DEF SessionInv, SessionTypeOK, SuspendDrains, Drained, Draining,
      StorageEvent, Expire, SignedOut, Become, SetOut, Drain, login, work,
      SignOuts
<1>4. OutMeansOut'
  BY DEF SessionInv, SessionTypeOK, OutMeansOut, Drained, Draining,
      StorageEvent, Expire, SignedOut, Become, SetOut, Drain, login, work,
      SignOuts
<1> QED BY <1>1, <1>2, <1>3, <1>4 DEF SessionInv

LEMMA RunEffectsKeepsInv ==
  ASSUME SessionInv, NEW o \in Expiries, RunEffects(o)
  PROVE  SessionInv'
<1>1. SessionTypeOK'
  BY DEF SessionInv, SessionTypeOK, RunEffects, Expire, SignedOut, Become,
      SetOut, Drain, login, work, SignOuts
<1>2. WaitersHaveRefresh'
  BY DEF SessionInv, SessionTypeOK, WaitersHaveRefresh, Waits, RunEffects,
      Expire, SignedOut, Become, SetOut, Drain, login, work, SignOuts
<1>3. SuspendDrains'
  BY DEF SessionInv, SessionTypeOK, SuspendDrains, Drained, Draining,
      RunEffects, Expire, SignedOut, Become, SetOut, Drain, login, work,
      SignOuts
<1>4. OutMeansOut'
  BY DEF SessionInv, SessionTypeOK, OutMeansOut, Drained, Draining,
      RunEffects, Expire, SignedOut, Become, SetOut, Drain, login, work,
      SignOuts
<1> QED BY <1>1, <1>2, <1>3, <1>4 DEF SessionInv

LEMMA ExpiryDoneKeepsInv ==
  ASSUME SessionInv, NEW o \in Expiries, ExpiryDone(o)
  PROVE  SessionInv'
<1>1. SessionTypeOK'
  BY DEF SessionInv, SessionTypeOK, ExpiryDone, Become, SetOut, login, work,
      SignOuts
<1>2. WaitersHaveRefresh'
  BY DEF SessionInv, SessionTypeOK, WaitersHaveRefresh, Waits, ExpiryDone,
      Become, SetOut, login, work, SignOuts
<1>3. SuspendDrains'
  BY DEF SessionInv, SessionTypeOK, SuspendDrains, Drained, Draining,
      ExpiryDone, Become, SetOut, login, work, SignOuts
<1>4. OutMeansOut'
  BY DEF SessionInv, SessionTypeOK, OutMeansOut, Drained, Draining,
      SuspendDrains, ExpiryDone, Become, SetOut, login, work, SignOuts
<1> QED BY <1>1, <1>2, <1>3, <1>4 DEF SessionInv

LEMMA ReloadKeepsInv ==
  ASSUME SessionInv, Reload
  PROVE  SessionInv'
<1>1. SessionTypeOK'
  BY DEF SessionInv, SessionTypeOK, Reload, FirstLoads, login, work, SignOuts
<1>2. WaitersHaveRefresh'
  BY DEF SessionInv, SessionTypeOK, WaitersHaveRefresh, Waits, Reload,
      FirstLoads, login, work, SignOuts
<1>3. SuspendDrains'
  BY DEF SessionInv, SessionTypeOK, SuspendDrains, Drained, Draining, Reload,
      FirstLoads, login, work, SignOuts
<1>4. OutMeansOut'
  BY DEF SessionInv, SessionTypeOK, OutMeansOut, Drained, Draining, Reload,
      FirstLoads, login, work, SignOuts
<1> QED BY <1>1, <1>2, <1>3, <1>4 DEF SessionInv

-----------------------------------------------------------------------------
(* The theorems. *)

LEMMA RequestStepKeepsInv ==
  ASSUME SessionInv, NEW r \in Requests, RequestStep(r)
  PROVE  SessionInv'
BY RequestKeepsInv, AnsweredKeepsInv, UnauthorizedKeepsInv, EjectedKeepsInv
   DEF RequestStep

LEMMA LoadStepKeepsInv ==
  ASSUME SessionInv, NEW l \in Loads, LoadStep(l)
  PROVE  SessionInv'
BY StartLoadKeepsInv, StatusIdleKeepsInv, StatusKnownKeepsInv,
   StatusRestoresKeepsInv, StatusAgainKeepsInv, LoadFailsKeepsInv
   DEF LoadStep

LEMMA ExpiryStepKeepsInv ==
  ASSUME SessionInv, NEW o \in Expiries, ExpiryStep(o)
  PROVE  SessionInv'
BY IdleTimeoutKeepsInv, StorageEventKeepsInv, RunEffectsKeepsInv, ExpiryDoneKeepsInv
   DEF ExpiryStep

LEMMA StepKeepsInv == SessionInv /\ [SessionNext]_sessionVars => SessionInv'
<1> SUFFICES ASSUME SessionInv, [SessionNext]_sessionVars PROVE SessionInv'
  OBVIOUS
<1>1. CASE RefreshSucceeds \/ RefreshRefused \/ RefreshFails
  BY <1>1, RefreshSucceedsKeepsInv, RefreshRefusedKeepsInv, RefreshFailsKeepsInv
<1>2. CASE \E r \in Requests : RequestStep(r)
  BY <1>2, RequestStepKeepsInv
<1>3. CASE \E l \in Loads : LoadStep(l)
  BY <1>3, LoadStepKeepsInv
<1>4. CASE Login \/ TimerFires \/ OtherTabExpires \/ OtherTabBegins \/ Reload
  BY <1>4, LoginKeepsInv, TimerFiresKeepsInv, OtherTabExpiresKeepsInv,
     OtherTabBeginsKeepsInv, ReloadKeepsInv
<1>5. CASE \E o \in Logouts : Logout(o) \/ LogoutDone(o)
  BY <1>5, LogoutKeepsInv, LogoutDoneKeepsInv
<1>6. CASE \E o \in Expiries : ExpiryStep(o)
  BY <1>6, ExpiryStepKeepsInv
<1>7. CASE UNCHANGED sessionVars
  BY <1>7, StutteringKeepsInv
<1> QED BY <1>1, <1>2, <1>3, <1>4, <1>5, <1>6, <1>7 DEF SessionNext

\* The four invariants hold of every page at any time.
THEOREM SessionInvHolds == SessionSpec => []SessionInv
BY InitSatisfiesInv, StepKeepsInv, PTL DEF SessionSpec

\* Every variable of the session keeps its type.
THEOREM SessionTypeCorrect == SessionSpec => []SessionTypeOK
<1>1. SessionInv => SessionTypeOK
  BY DEF SessionInv
<1> QED BY <1>1, SessionInvHolds, PTL

\* However many requests, loads, sign-outs and the timer share one refresh,
\* none of them is left waiting for a refresh that is over
\* (refreshAccessToken, session-refresh.ts:143-158).
THEOREM WaitersAlwaysHaveRefresh == SessionSpec => []WaitersHaveRefresh
<1>1. SessionInv => WaitersHaveRefresh
  BY DEF SessionInv
<1> QED BY <1>1, SessionInvHolds, PTL

\* While the refresh is suspended, one is under way only as long as a sign-out
\* waits for it (suspendSessionRefresh, session-refresh.ts:160-173).
THEOREM SuspensionDrains == SessionSpec => []SuspendDrains
<1>1. SessionInv => SuspendDrains
  BY DEF SessionInv
<1> QED BY <1>1, SessionInvHolds, PTL

\* A page whose sign-outs are over, with the refresh suspended, holds no token
\* and awaits none, whatever answers come late (client-auth-provider.tsx:77-90,
\* session-refresh-provider.tsx:167-192).
THEOREM SignedOutStaysOut == SessionSpec => []OutMeansOut
<1>1. SessionInv => OutMeansOut
  BY DEF SessionInv
<1> QED BY <1>1, SessionInvHolds, PTL
=============================================================================
