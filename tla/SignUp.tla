------------------------------- MODULE SignUp -------------------------------
(***************************************************************************)
(* The login page, app/login/page.tsx, and what the API keeps for those    *)
(* who register: captchas and e-mail codes, each good for one account      *)
(* (apps/api/auth.py:218-418).  The handlers of the API are synchronous on *)
(* the event loop, but for the sending of a mail, so each is one step.     *)
(* Captchas do not expire here, nor run out of attempts: the page makes    *)
(* one attempt with each.                                                  *)
(***************************************************************************)
EXTENDS Naturals, FiniteSets

CONSTANTS
    MaxCaptchas, \* bound: captchas made
    MaxCodes,    \* bound: e-mail codes made
    MaxGets,     \* bound: requests for a captcha under way
    Smtp,        \* whether the API can send mail, and then asks for a code
    None

VARIABLES
    \* the page
    mode, phase,
    captcha, captchaAnswer,     \* the captcha shown, and the one that was answered
    required,                   \* emailVerificationRequired
    signUpEmailCode,            \* the code typed, 0 when there is none
    emailCooldown,
    \* the network
    asking, brought,            \* how many requests for a captcha are unanswered, and the answers
    mail, post,
    lost,                       \* a registration the page has given up, not the server
    \* the API
    made, spent,                \* captchas are numbered as they are made; those consumed
    latest, delivered, used     \* the last code made, the last that came by mail, those consumed

form == <<captchaAnswer, signUpEmailCode>>
gets == <<asking, brought>>
server == <<made, spent, latest, delivered, used>>
signUpVars == <<mode, phase, captcha, form, required, emailCooldown, gets, mail, post, lost, server>>

Captchas == 1 .. MaxCaptchas
Wrong == 0    \* an answer to none of them
Codes == 0 .. MaxCodes
Form == [captcha : Captchas \cup {None}, answer : Captchas \cup {None, Wrong}, code : Codes]
Post == [path : {"login", "guest", "register"}, with : Form \cup {None}, outcome : {"asked", "ok", "refused"}]

-----------------------------------------------------------------------------
\* The answer typed so far goes, the captcha stays until another is there.
refreshCaptcha ==
    /\ captchaAnswer' = None
    /\ asking + Cardinality(brought) < MaxGets
    /\ asking' = asking + 1 /\ UNCHANGED brought

\* A click on the question asks another one.
AnotherCaptcha ==
    /\ mode = "register" /\ phase # "left"
    /\ refreshCaptcha
    /\ UNCHANGED <<mode, phase, captcha, signUpEmailCode, required, emailCooldown, mail, post, lost, server>>

issue_captcha ==
    /\ asking > 0 /\ made < MaxCaptchas
    /\ made' = made + 1
    /\ asking' = asking - 1 /\ brought' = brought \cup {made + 1}
    /\ UNCHANGED <<mode, phase, captcha, form, required, emailCooldown, mail, post, lost,
                   spent, latest, delivered, used>>

\* The answer to an older request replaces that to a newer one.
CaptchaArrives(c) ==
    /\ c \in brought
    /\ captcha' = c
    /\ required' = Smtp
    /\ brought' = brought \ {c}
    /\ UNCHANGED <<mode, phase, form, emailCooldown, asking, mail, post, lost, server>>

CaptchaFails ==
    /\ captcha' = None
    /\ \/ asking > 0 /\ asking' = asking - 1 /\ UNCHANGED brought
       \/ \E c \in brought : brought' = brought \ {c} /\ UNCHANGED asking
    /\ UNCHANGED <<mode, phase, form, required, emailCooldown, mail, post, lost, server>>

\* Whoever comes to the form gets a captcha.
switchMode(target) ==
    /\ phase # "left" /\ mode # target
    /\ mode' = target
    /\ IF target = "register" THEN refreshCaptcha ELSE UNCHANGED <<gets, captchaAnswer>>
    /\ UNCHANGED <<phase, captcha, signUpEmailCode, required, emailCooldown, mail, post, lost, server>>

-----------------------------------------------------------------------------
\* The fields of the form that matter here: the answer, to the question that
\* is shown or a wrong one, and the code that came by mail.
RegisterForm ==
    /\ mode = "register" /\ phase # "left"
    /\ \/ /\ captchaAnswer' \in {captcha, Wrong} \ {None}
          /\ UNCHANGED signUpEmailCode
       \/ /\ required /\ delivered # 0
          /\ signUpEmailCode' = delivered
          /\ UNCHANGED captchaAnswer
    /\ UNCHANGED <<mode, phase, captcha, required, emailCooldown, gets, mail, post, lost, server>>

sendEmailCode ==
    /\ mode = "register" /\ phase # "left" /\ required
    /\ mail = "none" /\ ~emailCooldown
    /\ mail' = "asked"
    /\ UNCHANGED <<mode, phase, captcha, form, required, emailCooldown, gets, post, lost, server>>

\* A code is kept before its mail is sent, and stays when that fails; the
\* limits on requests refuse without making one.
issue_email_code ==
    /\ mail = "asked"
    /\ \/ /\ latest < MaxCodes
          /\ latest' = latest + 1
          /\ \/ delivered' = latest + 1 /\ mail' = "ok"
             \/ mail' = "refused" /\ UNCHANGED delivered
       \/ mail' = "refused" /\ UNCHANGED <<latest, delivered>>
    /\ UNCHANGED <<mode, phase, captcha, form, required, emailCooldown, gets, post, lost,
                   made, spent, used>>

EmailCodeArrives ==
    /\ mail \in {"ok", "refused"}
    /\ mail' = "none"
    /\ emailCooldown' = (mail = "ok")
    /\ UNCHANGED <<mode, phase, captcha, form, required, gets, post, lost, server>>

EmailCodeFails ==
    /\ mail # "none"
    /\ mail' = "none"
    /\ UNCHANGED <<mode, phase, captcha, form, required, emailCooldown, gets, post, lost, server>>

CooldownEnds ==
    /\ emailCooldown
    /\ emailCooldown' = FALSE
    /\ UNCHANGED <<mode, phase, captcha, form, required, gets, mail, post, lost, server>>

-----------------------------------------------------------------------------
Sent(path) ==
    /\ phase = "idle"
    /\ phase' = "submitting"
    /\ post' = [path |-> path, outcome |-> "asked",
                with |-> IF path # "register" THEN None ELSE
                    [captcha |-> captcha, answer |-> captchaAnswer, code |-> signUpEmailCode]]
    /\ UNCHANGED <<mode, captcha, form, required, emailCooldown, gets, mail, lost, server>>

submitLogin == mode = "login" /\ Sent("login")
enterAsGuest == mode = "login" /\ Sent("guest")

\* The two buttons of the form.
LoginForm == submitLogin \/ enterAsGuest

\* Nothing is sent without an answer, nor without a code where one is asked
\* for.
submitRegister ==
    /\ mode = "register" /\ captchaAnswer # None
    /\ required => signUpEmailCode # 0
    /\ Sent("register")

\* verify_captcha and, where mail is sent, the check of the code: each is
\* consumed as it passes, whatever becomes of the registration.
CaptchaPasses(w) == w.captcha # None /\ w.captcha \notin spent /\ w.answer = w.captcha
CodePasses(w) == ~Smtp \/ (w.code # 0 /\ w.code = latest /\ w.code \notin used)

\* register: refused before the captcha is looked at (the limit on requests,
\* the honeypot, the time the form took), by it, by the code, or because the
\* name or the address is taken.
Registers(w, outcome) ==
    \/ outcome = "refused" /\ UNCHANGED server
    \/ /\ CaptchaPasses(w)
       /\ spent' = spent \cup {w.captcha}
       /\ outcome = "ok" => CodePasses(w)
       /\ used' = IF Smtp /\ CodePasses(w) THEN used \cup {w.code} ELSE used
       /\ UNCHANGED <<made, latest, delivered>>

Answer ==
    /\ post # None /\ post.outcome = "asked"
    /\ \E outcome \in {"ok", "refused"} :
         /\ post' = [post EXCEPT !.outcome = outcome]
         /\ IF post.path = "register" THEN Registers(post.with, outcome) ELSE UNCHANGED server
    /\ UNCHANGED <<mode, phase, captcha, form, required, emailCooldown, gets, mail, lost>>

\* A registration whose connection broke reaches the server all the same.
AnswerLate ==
    /\ lost # None
    /\ \E outcome \in {"ok", "refused"} : Registers(lost, outcome)
    /\ lost' = None
    /\ UNCHANGED <<mode, phase, captcha, form, required, emailCooldown, gets, mail, post>>

\* Mutated: the page keeps the captcha it has.
refused_KeepsCaptcha(path) == phase' = "idle" /\ UNCHANGED <<captchaAnswer, gets>>

\* After any failure of a registration there is another captcha.
refused(path) ==
    /\ phase' = "idle"
    /\ IF path = "register" THEN refreshCaptcha ELSE UNCHANGED <<captchaAnswer, gets>>

\* An answer that says yes leads away from the page.
PostArrives ==
    /\ post # None /\ post.outcome # "asked"
    /\ post' = None
    /\ IF post.outcome = "ok" THEN phase' = "left" /\ UNCHANGED <<captchaAnswer, gets>>
       ELSE refused(post.path)
    /\ UNCHANGED <<mode, captcha, signUpEmailCode, required, emailCooldown, mail, lost, server>>

PostFails ==
    /\ post # None
    /\ post' = None
    /\ refused(post.path)
    /\ lost' \in {lost} \cup (IF post.path = "register" /\ post.outcome = "asked" /\ lost = None
                              THEN {post.with} ELSE {})
    /\ UNCHANGED <<mode, captcha, signUpEmailCode, required, emailCooldown, mail, server>>

-----------------------------------------------------------------------------
SignUpInit ==
    /\ mode = "login" /\ phase = "idle"
    /\ captcha = None /\ captchaAnswer = None /\ required = FALSE
    /\ signUpEmailCode = 0 /\ emailCooldown = FALSE
    /\ asking = 0 /\ brought = {} /\ mail = "none" /\ post = None /\ lost = None
    /\ made = 0 /\ spent = {} /\ latest = 0 /\ delivered = 0 /\ used = {}

SignUpNext ==
    \/ AnotherCaptcha \/ RegisterForm
    \/ \E target \in {"login", "register"} : switchMode(target)
    \/ issue_captcha \/ CaptchaFails
    \/ \E c \in brought : CaptchaArrives(c)
    \/ sendEmailCode \/ issue_email_code \/ EmailCodeArrives \/ EmailCodeFails \/ CooldownEnds
    \/ LoginForm \/ submitRegister
    \/ Answer \/ AnswerLate \/ PostArrives \/ PostFails

SignUpTypeOK ==
    /\ mode \in {"login", "register"} /\ phase \in {"idle", "submitting", "left"}
    /\ captcha \in Captchas \cup {None} /\ captchaAnswer \in Captchas \cup {None, Wrong}
    /\ required \in BOOLEAN /\ signUpEmailCode \in Codes /\ emailCooldown \in BOOLEAN
    /\ asking \in Nat /\ brought \subseteq 1 .. made
    /\ mail \in {"none", "asked", "ok", "refused"}
    /\ post \in {None} \cup Post /\ lost \in {None} \cup Form
    /\ made \in 0 .. MaxCaptchas /\ spent \subseteq 1 .. made
    /\ latest \in Codes /\ delivered \in Codes /\ used \subseteq Codes

\* Once nothing is under way, the captcha on the page is one the API takes,
\* after refusals, answers that got lost and answers that came out of order
\* alike (login/page.tsx:234-235, "任何失败之后都得换一张").
CaptchaIsFresh ==
    phase = "idle" /\ captcha # None /\ asking = 0 /\ brought = {} => captcha \notin spent

=============================================================================
