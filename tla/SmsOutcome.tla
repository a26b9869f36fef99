------------------------------ MODULE SmsOutcome ------------------------------
(***************************************************************************)
(* What the server believes of an SMS it has sent: the providers' replies, *)
(* their classification (ACCEPTED, FAILED, TIMEOUT, UNKNOWN) and what the  *)
(* OTP service does with it. A reply is a record; "none" stands for a      *)
(* member that is absent.                                                  *)
(***************************************************************************)

CONSTANTS
    Production,       \* NODE_ENV is production
    SmsProvider,      \* SMS_PROVIDER: "mock", "twilio", "msg91" or another
    SmsConfigured     \* the provider's credentials are complete

\* resolveOperationalSmsProvider.
OperationalProvider ==
    IF SmsProvider = "mock" \/ (SmsProvider \in {"twilio", "msg91"} /\ SmsConfigured)
    THEN SmsProvider
    ELSE "noop"

\* MockSmsProvider, NoopSmsProvider.
PretendOutcome == IF Production THEN "FAILED" ELSE "ACCEPTED"

\* A rejection by Twilio or by the transport, as readTwilioErrorShape sees it.
TwilioErrors ==
    [status : {"none", "408", "4xx", "5xx"}, code : {"none", "api", "other"},
     name : {"none", "abort", "etimedout"}]

\* Mutated form: a timeout is a failure.
MapTwilioErrorToOutcome_TimeoutFails(e) ==
    CASE e.status \in {"408", "4xx"} -> "FAILED"
      [] e.status = "5xx" -> "UNKNOWN"
      [] e.status = "none" /\ e.code = "api" -> "FAILED"
      [] OTHER -> "UNKNOWN"

MapTwilioErrorToOutcome(e) ==
    CASE e.status = "408" -> "TIMEOUT"
      [] e.status = "4xx" -> "FAILED"
      [] e.status = "5xx" -> "UNKNOWN"
      [] e.status = "none" /\ e.code = "api" -> "FAILED"
      [] e.status = "none" /\ e.code # "api" /\ e.name # "none" -> "TIMEOUT"
      [] OTHER -> "UNKNOWN"

\* What MSG91 answers: the status of the flow call, 200 with a type.
Msg91Replies == [status : {"200", "408", "4xx", "5xx", "abort", "network"},
                 type : {"none", "success", "error", "other"}]

\* Msg91Client.sendFlow throws the status of a reply that is not ok, 408 for an
\* abort and 502 for any other error.
Msg91Status(reply) ==
    CASE reply.status = "abort" -> "408"
      [] reply.status = "network" -> "5xx"
      [] OTHER -> reply.status

\* Msg91SmsProvider.sendMessage.
Msg91Outcome(reply) ==
    CASE Msg91Status(reply) = "408" -> "TIMEOUT"
      [] Msg91Status(reply) = "5xx" -> "UNKNOWN"
      [] Msg91Status(reply) = "4xx" -> "FAILED"
      [] Msg91Status(reply) = "200" /\ reply.type = "success" -> "ACCEPTED"
      [] Msg91Status(reply) = "200" /\ reply.type = "error" -> "FAILED"
      [] OTHER -> "UNKNOWN"

\* A message that is sent has an outcome here, and the phone receives it or not.
Either(outcome) == {[outcome |-> outcome, received |-> r] : r \in BOOLEAN}
Never(outcome) == {[outcome |-> outcome, received |-> FALSE]}

\* TwilioSmsProvider.sendMessage. A refused message is not sent; after a timeout
\* or a server error it may have been. FAILED too for a number that is none.
TwilioSends ==
    LET Refused(e) == e.status = "4xx" \/ (e.status = "none" /\ e.code = "api")
    IN  Either("ACCEPTED") \cup Never("FAILED")
        \cup UNION {IF Refused(e) THEN Never(MapTwilioErrorToOutcome(e))
                    ELSE Either(MapTwilioErrorToOutcome(e)) : e \in TwilioErrors}

\* The same with MSG91.
Msg91Sends ==
    LET Refused(reply) == reply.status = "4xx" \/ (reply.status = "200" /\ reply.type = "error")
    IN  UNION {IF Refused(reply) THEN Never(Msg91Outcome(reply))
               ELSE Either(Msg91Outcome(reply)) : reply \in Msg91Replies}

\* SmsService.sendOtpSms, which throws with any outcome but ACCEPTED.
Sends ==
    CASE OperationalProvider = "twilio" -> TwilioSends
      [] OperationalProvider = "msg91" -> Msg91Sends
      [] OTHER -> Never(PretendOutcome)

\* readSmsOutcomeFromError: only ACCEPTED comes back as no error; the cause of
\* SMS_DELIVERY_FAILED carries the outcome, and an error without it is UNKNOWN.
ReadSmsOutcome(outcome) ==
    IF outcome \in {"ACCEPTED", "FAILED", "TIMEOUT"} THEN outcome ELSE "UNKNOWN"

ShouldInvalidateOtp(outcome) == ReadSmsOutcome(outcome) = "FAILED"
===============================================================================
