----------------------------- MODULE Conversion -----------------------------
(***************************************************************************)
(* The conversion flow of the portal (src/frontend): /convert asks for a   *)
(* quote whenever its inputs change, /convert/quote/:id confirms the       *)
(* current one, /convert/confirm/:id shows the transaction.  The slice     *)
(* holds one quote, one transaction and a cache of quotes; its calls       *)
(* overlap, are answered in any order, and a failed one leaves made-up     *)
(* data that is used like an answer.                                       *)
(*                                                                         *)
(* A quote is the number of the call that brought it, a transaction the    *)
(* number of its confirmation; 0 is neither.                               *)
(***************************************************************************)
EXTENDS Integers

CONSTANTS
  Inputs,        \* what the user may enter: two currencies and an amount
  FirstInput,    \* what the form starts with
  WithinLimits,  \* the inputs the KYC limits allow
  MaxQuotes, MaxConfirmations

ASSUME ConversionBounds ==
  /\ FirstInput \in Inputs /\ WithinLimits \subseteq Inputs
  /\ MaxQuotes \in Nat /\ MaxConfirmations \in Nat

VARIABLES
  screen,              \* which page is shown
  entered,             \* the inputs of /convert
  inputError,          \* its error, which disables Continue
  quoteId,             \* the quote of the URL /convert/quote/:id
  isValidating,        \* does that page still look for its quote?
  redirects,           \* is a navigation to /convert due in two seconds?
  kycStatus,           \* has the KYC status been answered?
  currentQuote, currentTransaction,
  quoteCache,          \* per input, 0 when there is none or it is too old
  expired,             \* quotes past their expiresAt
  loadingQuote, loadingConfirmation,
  asking,              \* the quote calls under way
  confirming,          \* the confirmations under way
  quotesAsked, confirmationsSent

form == <<screen, entered, inputError, quoteId, isValidating, redirects>>
kept == <<currentQuote, currentTransaction, quoteCache>>
underWay == <<loadingQuote, loadingConfirmation, asking, confirming>>
conversionVars == <<form, kycStatus, kept, expired, underWay, quotesAsked, confirmationsSent>>

Screens == {"convert", "quote", "confirm", "elsewhere"}
QuoteIds == 1 .. MaxQuotes
TransactionIds == 1 .. MaxConfirmations

ConversionInit ==
  /\ screen = "elsewhere" /\ entered = FirstInput /\ inputError = FALSE
  /\ quoteId = 0 /\ isValidating = FALSE /\ redirects = FALSE
  /\ kycStatus = FALSE
  /\ currentQuote = 0 /\ currentTransaction = 0 /\ quoteCache = [i \in Inputs |-> 0]
  /\ loadingQuote = FALSE /\ loadingConfirmation = FALSE
  /\ asking = {} /\ confirming = {}
  /\ expired = {} /\ quotesAsked = 0 /\ confirmationsSent = 0

\* The page is loaded again: an empty store, and nobody waits for an answer.
LoadPortal ==
  /\ screen' = "elsewhere" /\ entered' = FirstInput /\ inputError' = FALSE
  /\ quoteId' = 0 /\ isValidating' = FALSE /\ redirects' = FALSE
  /\ kycStatus' = FALSE
  /\ currentQuote' = 0 /\ currentTransaction' = 0 /\ quoteCache' = [i \in Inputs |-> 0]
  /\ loadingQuote' = FALSE /\ loadingConfirmation' = FALSE
  /\ asking' = {} /\ confirming' = {}
  /\ UNCHANGED <<expired, quotesAsked, confirmationsSent>>

(***************************************************************************)
(* /convert                                                                *)
(***************************************************************************)
\* getConversionQuote for the inputs i, up to its first await; quote is the one the
\* slice keeps until there is another.
AskQuote(i, quote) ==
  IF quoteCache[i] # 0
  THEN /\ currentQuote' = quoteCache[i] /\ loadingQuote' = FALSE
       /\ UNCHANGED <<asking, quotesAsked>>
  ELSE /\ quotesAsked < MaxQuotes
       /\ quotesAsked' = quotesAsked + 1
       /\ asking' = asking \union {[no |-> quotesAsked + 1, input |-> i]}
       /\ loadingQuote' = TRUE
       /\ currentQuote' = quote

\* The effect on the inputs: limits first, which need the KYC status, then a quote.
InputsChange(i, quote) ==
  /\ entered' = i
  /\ inputError' = ~(kycStatus /\ i \in WithinLimits)
  /\ IF kycStatus /\ i \in WithinLimits THEN AskQuote(i, quote)
     ELSE currentQuote' = quote /\ UNCHANGED <<loadingQuote, asking, quotesAsked>>

\* The form starts anew at every visit; who comes from the confirmation resets the
\* slice (resetConversion), but not its cache.
OpenConvert ==
  /\ screen # "convert"
  /\ screen' = "convert"
  /\ currentTransaction' = IF screen = "confirm" THEN 0 ELSE currentTransaction
  /\ InputsChange(FirstInput, IF screen = "confirm" THEN 0 ELSE currentQuote)
  /\ UNCHANGED <<quoteId, isValidating, redirects, kycStatus, quoteCache, expired, loadingConfirmation, confirming, confirmationsSent>>

Enter(i) ==
  /\ screen = "convert" /\ i # entered
  /\ InputsChange(i, currentQuote)
  /\ UNCHANGED <<screen, quoteId, isValidating, redirects, kycStatus, currentTransaction, quoteCache, expired, loadingConfirmation, confirming, confirmationsSent>>

\* fetchKYCStatus, whose failure leaves a made-up status.
KYCAnswered ==
  /\ ~kycStatus /\ screen # "elsewhere"
  /\ kycStatus' = TRUE
  /\ UNCHANGED <<form, kept, expired, underWay, quotesAsked, confirmationsSent>>

\* Real or made up, the answer becomes the current quote and goes to the cache,
\* whatever the inputs are by now; one flag stands for all the calls.
QuoteAnswered(c) ==
  /\ asking' = asking \ {c}
  /\ loadingQuote' = FALSE
  /\ currentQuote' = c.no
  /\ quoteCache' = [quoteCache EXCEPT ![c.input] = c.no]
  /\ UNCHANGED <<form, kycStatus, currentTransaction, expired, loadingConfirmation, confirming, quotesAsked, confirmationsSent>>

\* Five minutes after it was cached.
CacheLapses(i) ==
  /\ quoteCache[i] # 0
  /\ quoteCache' = [quoteCache EXCEPT ![i] = 0]
  /\ UNCHANGED <<form, kycStatus, currentQuote, currentTransaction, expired, underWay, quotesAsked, confirmationsSent>>

QuoteExpires(q) ==
  /\ q \notin expired /\ q <= quotesAsked
  /\ expired' = expired \union {q}
  /\ UNCHANGED <<form, kycStatus, kept, underWay, quotesAsked, confirmationsSent>>

\* RateCard tells the form every second that the quote it shows has expired.
CardExpires ==
  /\ screen = "convert" /\ currentQuote \in expired /\ ~inputError
  /\ inputError' = TRUE
  /\ UNCHANGED <<screen, entered, quoteId, isValidating, redirects, kycStatus, kept, expired, underWay, quotesAsked, confirmationsSent>>

(***************************************************************************)
(* /convert/quote/:quoteId                                                 *)
(***************************************************************************)
\* The page goes on to the confirmation as soon as there is a transaction.
OpenQuote(q) ==
  /\ screen' = IF currentTransaction = 0 THEN "quote" ELSE "confirm"
  /\ quoteId' = q /\ isValidating' = TRUE
  /\ UNCHANGED <<entered, inputError, redirects, kycStatus, kept, expired, underWay, quotesAsked, confirmationsSent>>

Continue ==
  /\ screen = "convert" /\ ~loadingQuote /\ ~inputError
  /\ currentQuote # 0 /\ currentQuote \notin expired
  /\ OpenQuote(currentQuote)

\* The browser's history, or a link kept from before.
GoBack(q) == screen \in {"elsewhere", "confirm"} /\ q <= quotesAsked /\ OpenQuote(q)

\* After 300 ms, at the mount and whenever the quote has changed: a page that has
\* been shown stays so, with its button, until the redirect.
Validate ==
  /\ screen = "quote" /\ ~loadingQuote
  /\ IF currentQuote = quoteId THEN isValidating' = FALSE /\ UNCHANGED redirects
     ELSE redirects' = TRUE /\ UNCHANGED isValidating
  /\ UNCHANGED <<screen, entered, inputError, quoteId, kycStatus, kept, expired, underWay, quotesAsked, confirmationsSent>>

\* Nobody cancels it, wherever the user has gone.
Redirect ==
  /\ redirects /\ redirects' = FALSE
  /\ \/ screen = "convert" /\ UNCHANGED <<screen, entered, inputError, kept, loadingQuote, asking, quotesAsked>>
     \/ /\ screen # "convert" /\ screen' = "convert"
        /\ currentTransaction' = IF screen = "confirm" THEN 0 ELSE currentTransaction
        /\ InputsChange(FirstInput, IF screen = "confirm" THEN 0 ELSE currentQuote)
        /\ UNCHANGED quoteCache
  /\ UNCHANGED <<quoteId, isValidating, kycStatus, expired, loadingConfirmation, confirming, confirmationsSent>>

\* Mutant: the pending reducer leaves the flag alone.
ConfirmPendingUnmarked(c) == confirming' = confirming \union {c} /\ UNCHANGED loadingConfirmation

ConfirmPending(c) == confirming' = confirming \union {c} /\ loadingConfirmation' = TRUE

\* Each confirmation has an idempotency key of its own.
Confirm ==
  /\ screen = "quote" /\ ~isValidating /\ ~loadingQuote /\ currentQuote # 0
  /\ ~loadingConfirmation
  /\ confirmationsSent < MaxConfirmations /\ confirmationsSent' = confirmationsSent + 1
  /\ ConfirmPending(confirmationsSent + 1)
  /\ UNCHANGED <<form, kycStatus, kept, expired, loadingQuote, asking, quotesAsked>>

\* Confirmed or, with made-up data, not.
ConfirmAnswered(c) ==
  /\ confirming' = confirming \ {c}
  /\ loadingConfirmation' = FALSE
  /\ currentTransaction' = c
  /\ screen' = IF screen = "quote" THEN "confirm" ELSE screen
  /\ UNCHANGED <<entered, inputError, quoteId, isValidating, redirects, kycStatus, currentQuote, quoteCache, expired, loadingQuote, asking, quotesAsked, confirmationsSent>>

(***************************************************************************)
(* Elsewhere                                                               *)
(***************************************************************************)
\* The history of conversions, or any other page; or the address of a confirmation.
Leave(to) ==
  /\ to \in {"elsewhere", "confirm"} /\ screen # to
  /\ screen' = to
  /\ UNCHANGED <<entered, inputError, quoteId, isValidating, redirects, kycStatus, kept, expired, underWay, quotesAsked, confirmationsSent>>

ConversionNext ==
  \/ LoadPortal \/ OpenConvert \/ KYCAnswered \/ CardExpires
  \/ Continue \/ Validate \/ Redirect \/ Confirm
  \/ \E i \in Inputs : Enter(i) \/ CacheLapses(i)
  \/ \E q \in QuoteIds : QuoteExpires(q) \/ GoBack(q)
  \/ \E c \in asking : QuoteAnswered(c)
  \/ \E c \in confirming : ConfirmAnswered(c)
  \/ \E to \in Screens : Leave(to)

ConversionSpec == ConversionInit /\ [][ConversionNext]_conversionVars

(***************************************************************************)
(* Properties                                                              *)
(***************************************************************************)
\* Every variable has its type.
ConversionTypeOK ==
  /\ screen \in Screens
  /\ entered \in Inputs
  /\ {inputError, isValidating, redirects, kycStatus, loadingQuote, loadingConfirmation} \subseteq BOOLEAN
  /\ {quoteId, currentQuote} \subseteq QuoteIds \union {0}
  /\ currentTransaction \in TransactionIds \union {0}
  /\ quoteCache \in [Inputs -> QuoteIds \union {0}]
  /\ expired \subseteq QuoteIds
  /\ asking \subseteq [no : QuoteIds, input : Inputs]
  /\ confirming \subseteq TransactionIds
  /\ quotesAsked \in 0 .. MaxQuotes /\ confirmationsSent \in 0 .. MaxConfirmations

\* However the user moves between the pages while calls are under way, the
\* transaction on display is never replaced by another: each confirmation that is
\* answered stays until it is reset or the portal is loaded again.
NeverReplaced ==
  [][currentTransaction # 0 => currentTransaction' \in {currentTransaction, 0}]_conversionVars
=============================================================================
