----------------------------- MODULE TotpSuite -----------------------------
(***************************************************************************)
(* RunTOTPStore, src/storetest/totp.go, run against every implementation   *)
(* of totp.Store.  Every definition up to Suite is one subtest.            *)
(* SaveTOTPWritesOnlyTheCounter is left out: a secret is identified with   *)
(* its credential's id here, so no save could change it.                   *)
(***************************************************************************)
EXTENDS SqlTotp, StoreTest

Enroll(id) == [op |-> "EnrollPending", id |-> id]
Replace(id) == [op |-> "ReplacePending", id |-> id]
Confirm(id, c) == [op |-> "ConfirmEnrollment", id |-> id, counter |-> c]
Save(id, c) == [op |-> "SaveTOTP", id |-> id, counter |-> c]
Delete == [op |-> "DeleteTOTP"]
GetActive == [op |-> "GetActiveTOTP"]
GetPending == [op |-> "GetPendingTOTP"]

NotEnrolled == <<"notEnrolled">>
AlreadyEnrolled == <<"alreadyEnrolled">>
Replayed == <<"replayed">>

enrollAndConfirm(c) == << <<Enroll("a"), Ok>>, <<Confirm("a", c), Ok>> >>

-----------------------------------------------------------------------------

EnrollPendingFillsOnlyThePendingSlot ==
  Sequential(<< <<Enroll("a"), Ok>>, <<GetPending, <<"ok", "a">>>>,
                <<GetActive, NotEnrolled>> >>)

GetPendingTOTPWithNone == Sequential(<< <<GetPending, NotEnrolled>> >>)

GetActiveTOTPWithNone == Sequential(<< <<GetActive, NotEnrolled>> >>)

EnrollPendingSupersedesAnEarlierOne ==
  Sequential(<< <<Enroll("a"), Ok>>, <<Enroll("b"), Ok>>,
                <<GetPending, <<"ok", "b">>>> >>)

ConfirmEnrollmentPromotes ==
  Sequential(<< <<Enroll("a"), Ok>>, <<Confirm("a", 42), <<"ok", "a">>>>,
                <<GetActive, <<"ok", "a", 42>>>>, <<GetPending, NotEnrolled>> >>)

ConfirmEnrollmentWithAStalePendingID ==
  Sequential(<< <<Enroll("a"), Ok>>, <<Enroll("b"), Ok>>,
                <<Confirm("a", 1), NotEnrolled>>, <<GetActive, NotEnrolled>>,
                <<GetPending, <<"ok", "b">>>> >>)

ConfirmEnrollmentRepeatedAfterSuccess ==
  Sequential(<< <<Enroll("a"), Ok>>, <<Confirm("a", 7), Ok>>,
                <<Confirm("a", 8), NotEnrolled>>, <<GetActive, <<"ok", "a", 7>>>> >>)

EnrollPendingRefusesWhenActive ==
  Sequential(enrollAndConfirm(5) \o
    << <<Enroll("b"), AlreadyEnrolled>>, <<GetActive, <<"ok", "a">>>> >>)

ReplacePendingLeavesTheActiveUntouched ==
  Sequential(enrollAndConfirm(5) \o
    << <<Replace("b"), Ok>>, <<GetActive, <<"ok", "a">>>>,
       <<GetPending, <<"ok", "b">>>> >>)

ConfirmEnrollmentCarriesTheOldCounter ==
  Sequential(enrollAndConfirm(100) \o
    << <<Replace("b"), Ok>>, <<Confirm("b", 40), <<"ok", "b", 100>>>>,
       <<GetActive, <<"ok", "b", 100>>>> >>)

ConfirmEnrollmentTakesTheHigherCounter ==
  Sequential(enrollAndConfirm(10) \o
    << <<Replace("b"), Ok>>, <<Confirm("b", 500), <<"ok", "b", 500>>>> >>)

SaveTOTPPersistsAnAdvancedCounter ==
  Sequential(enrollAndConfirm(10) \o
    << <<Save("a", 11), Ok>>, <<GetActive, <<"ok", "a", 11>>>> >>)

SaveTOTPRejectsALoweredCounter ==
  Sequential(enrollAndConfirm(10) \o
    << <<Save("a", 9), Replayed>>, <<GetActive, <<"ok", "a", 10>>>> >>)

SaveTOTPRejectsAnUnchangedCounter ==
  Sequential(enrollAndConfirm(10) \o
    << <<Save("a", 10), Replayed>>, <<GetActive, <<"ok", "a", 10>>>> >>)

SaveTOTPAfterReplacementIsRefused ==
  Sequential(enrollAndConfirm(10) \o
    << <<Replace("b"), Ok>>, <<Confirm("b", 20), Ok>>,
       <<Save("a", 30), NotEnrolled>>, <<GetActive, <<"ok", "b", 20>>>> >>)

SaveTOTPAfterDeleteIsRefused ==
  Sequential(enrollAndConfirm(10) \o
    << <<Delete, Ok>>, <<Save("a", 11), NotEnrolled>>, <<GetActive, NotEnrolled>> >>)

DeleteTOTPRemovesBothSlots ==
  Sequential(enrollAndConfirm(3) \o
    << <<Replace("b"), Ok>>, <<Delete, Ok>>, <<GetActive, NotEnrolled>>,
       <<GetPending, NotEnrolled>> >>)

DeleteTOTPForAnUnenrolledUser == Sequential(<< <<Delete, Ok>> >>)

-----------------------------------------------------------------------------
(* The races.                                                              *)

ConcurrentConfirmEnrollment ==
  Race(<< <<Enroll("a"), Ok>> >>, [i \in racers |-> Confirm("a", 42)], <<>>,
       exactlyOneWinner(MaxRacers, NotEnrolled))

ConfirmEnrollmentAgainstEnrollPending ==
  Race(<< <<Enroll("a"), Ok>> >>, <<Confirm("a", 42), Enroll("b")>>,
       <<GetActive, GetPending>>,
       {<< <<"ok", "a">>, AlreadyEnrolled, <<"ok", "a">>, Unchecked >>,
        << NotEnrolled, Ok, NotEnrolled, <<"ok", "b">> >>})

DeleteTOTPAgainstConfirmEnrollment ==
  Race(enrollAndConfirm(1) \o << <<Replace("b"), Ok>> >>,
       <<Delete, Confirm("b", 2)>>, <<GetActive, GetPending>>,
       {<<Unchecked, Unchecked, NotEnrolled, NotEnrolled>>})

ConcurrentSaveTOTPNeverLowersTheCounter ==
  Race(enrollAndConfirm(0), [i \in racers |-> Save("a", i)], <<GetActive>>,
       {[i \in racers |-> Unchecked] \o << <<"ok", "a", MaxRacers>> >>})

ConcurrentSaveTOTPOfOneCounter ==
  Race(enrollAndConfirm(10), [i \in racers |-> Save("a", 11)], <<>>,
       exactlyOneWinner(MaxRacers, Replayed))

RunTOTPStore ==
  { EnrollPendingFillsOnlyThePendingSlot, GetPendingTOTPWithNone,
    GetActiveTOTPWithNone, EnrollPendingSupersedesAnEarlierOne,
    ConfirmEnrollmentPromotes, ConfirmEnrollmentWithAStalePendingID,
    ConfirmEnrollmentRepeatedAfterSuccess, EnrollPendingRefusesWhenActive,
    ReplacePendingLeavesTheActiveUntouched,
    ConfirmEnrollmentCarriesTheOldCounter,
    ConfirmEnrollmentTakesTheHigherCounter, SaveTOTPPersistsAnAdvancedCounter,
    SaveTOTPRejectsALoweredCounter, SaveTOTPRejectsAnUnchangedCounter,
    SaveTOTPAfterReplacementIsRefused, SaveTOTPAfterDeleteIsRefused,
    DeleteTOTPRemovesBothSlots, DeleteTOTPForAnUnenrolledUser,
    ConcurrentConfirmEnrollment, ConfirmEnrollmentAgainstEnrollPending,
    DeleteTOTPAgainstConfirmEnrollment,
    ConcurrentSaveTOTPNeverLowersTheCounter, ConcurrentSaveTOTPOfOneCounter }

=============================================================================
