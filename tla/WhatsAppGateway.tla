--------------------------- MODULE WhatsAppGateway ---------------------------
(***************************************************************************)
(* What src/backend/src/whatsapp/whatsapp.service.ts decides about a send: *)
(* which configuration and which number let a request go out, and how the  *)
(* end of the exchange with Meta becomes a SendResult.  The exchange       *)
(* itself, which other work may interleave with, is in DirectSend.         *)
(***************************************************************************)
EXTENDS Integers

\* A phone number by what normalizeE164 looks at: how many digits it has, and
\* how many of them are leading zeros.
Number == {n \in [digits : 0..18, zeros : 0..3] : n.zeros <= n.digits}

\* An international prefix 00 is dropped; ten digits, or eleven with a trunk 0,
\* are national and get the country code of countryDigits digits.
NormalDigits(number, countryDigits) ==
  LET bare == IF number.zeros >= 2
              THEN [digits |-> number.digits - 2, zeros |-> number.zeros - 2]
              ELSE number
  IN  IF bare.digits = 10 \/ (bare.digits = 11 /\ bare.zeros >= 1)
      THEN 10 + countryDigits
      ELSE bare.digits

Deliverable(number, countryDigits) == NormalDigits(number, countryDigits) \in 11..15

\* WHATSAPP_MODE = live, and whether both credentials are set.
Config == [live : BOOLEAN, configured : BOOLEAN]

\* What Meta decides about a request it reads.
Verdict == {"accepted", "rate_limited", "server", "auth", "client"}

ErrorKind ==
  (Verdict \ {"accepted"}) \cup {"not_configured", "invalid_recipient", "timeout", "network"}

\* id: the result carries Meta's message id.
SendResult == [ok : BOOLEAN, id : BOOLEAN, kind : ErrorKind \cup {"none"}, retryable : BOOLEAN]

Accepted(id) == [ok |-> TRUE, id |-> id, kind |-> "none", retryable |-> FALSE]

\* Mutant: an exchange that was cut off is tried again.
FailedEager(kind) ==
  [ok |-> FALSE, id |-> FALSE, kind |-> kind,
   retryable |-> kind \in {"rate_limited", "server", "timeout", "network"}]

\* classifyHttpError, invalidNumberError, configurationError and the catch of
\* postMessages.
Failed(kind) ==
  [ok |-> FALSE, id |-> FALSE, kind |-> kind, retryable |-> kind \in {"rate_limited", "server"}]

\* sendText and sendTemplate before any request goes out: live mode without
\* credentials fails closed, any other mode is simulated.
GoesOut(config, number, countryDigits) ==
  config.live /\ config.configured /\ Deliverable(number, countryDigits)

WithoutRequest(config) ==
  CASE config.live /\ ~config.configured -> Failed("not_configured")
    [] ~config.live -> Accepted(TRUE)
    [] OTHER -> Failed("invalid_recipient")

\* The response has arrived.  Its status alone decides; a body that cannot be
\* read (an abort while it streams, no JSON) only costs the id.
FromResponse(verdict) ==
  IF verdict = "accepted" THEN {Accepted(TRUE), Accepted(FALSE)} ELSE {Failed(verdict)}

\* No response: the timer aborted the request, or the connection failed.
WithoutResponse == {Failed("timeout"), Failed("network")}
=============================================================================
