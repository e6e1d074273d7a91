-------------------------------- MODULE Pages --------------------------------
(***************************************************************************)
(* The pages of the web application: for each, the handlers of its         *)
(* buttons and forms. A handler awaits its calls of the API in order (the  *)
(* calls of one Promise.all are a set) and disables its own button with a  *)
(* state variable of the page, its flag, that several handlers share.      *)
(*                                                                         *)
(* Calls: "write" (POST, PATCH, PUT, DELETE), "rows" (the list, or the     *)
(* record of a form, with the other reads that its page awaits together    *)
(* with it), "row" (one element), "usage" (the usage of the plan) and      *)
(* "other", whose answer no list or form shows (a QR code, the groups of a *)
(* session, a test of the link generator).                                 *)
(***************************************************************************)
EXTENDS Sequences

Handler(flag, calls) == [flag |-> flag, calls |-> calls]

Reloading_Forgets(flag) == Handler(flag, <<{"write"}>>)

(* A handler that writes and then reads the list again. *)
Reloading(flag) == Handler(flag, <<{"write"}, {"rows"}>>)

WhatsAppPage ==
  [load    |-> Handler("loading", <<{"rows", "usage"}>>),
   poll    |-> Handler("none", <<{"row"}, {"other"}>>),
   status  |-> Handler("actionId", <<{"row"}, {"other"}>>),
   qr      |-> Handler("actionId", <<{"other"}>>),
   sync    |-> Handler("actionId", <<{"other"}>>),
   connect |-> Handler("actionId", <<{"write"}, {"usage"}, {"other"}>>),
   remove  |-> Handler("actionId", <<{"write"}, {"usage"}>>)]

RoutesPage ==
  [load   |-> Handler("loading", <<{"rows"}, {"other"}>>),
   pause  |-> Reloading("savingId"),
   resume |-> Reloading("savingId"),
   invite |-> Reloading("savingId")]

(* "groups" is both "Sincronizar" and "Ver grupos". *)
GroupsLoad == Handler("loading", <<{"rows", "usage"}, {"other"}>>)

GroupsPage ==
  [load        |-> GroupsLoad,
   groups      |-> Handler("actionId", <<{"other"}>>),
   createRoute |-> Handler("actionId", <<{"write"}, {"rows", "usage"}>>)]

BillingPage ==
  [load     |-> Handler("loading", <<{"rows", "usage"}>>),
   checkout |-> Handler("checkoutPlan", <<{"write"}, {"rows"}, {"usage"}>>),
   cancel   |-> Handler("canceling", <<{"write"}>>)]

(* One "save" per marketplace; the link tester and its raw form. *)
CredentialsLoad == Handler("loading", <<{"rows"}>>)
CredentialsTest(flag) == Handler(flag, <<{"other"}>>)

CredentialsPage ==
  [load |-> CredentialsLoad,
   save |-> Reloading("saving"),
   test |-> CredentialsTest("testing"),
   raw  |-> CredentialsTest("testingRaw")]

ReferralsPage ==
  [load   |-> Handler("none", <<{"rows"}>>),
   paid   |-> Reloading("payingId"),
   reject |-> Reloading("rejectingId")]

UserPage ==
  [load      |-> Handler("loading", <<{"rows", "usage"}>>),
   save      |-> Handler("saving", <<{"write"}, {"rows", "usage"}>>),
   setActive |-> Handler("saving", <<{"write"}, {"rows", "usage"}>>)]

SettingsPage ==
  [load       |-> Handler("loading", <<{"rows"}>>),
   save       |-> Handler("saving", <<{"write"}>>),
   savePrices |-> Handler("savingPrices", <<{"write"}>>)]

GeneratorPage ==
  [load |-> Handler("loading", <<{"rows"}>>),
   save |-> Handler("saving", <<{"write"}>>),
   test |-> Handler("testing", <<{"other"}>>)]

Pages ==
  [whatsapp    |-> WhatsAppPage,
   routes      |-> RoutesPage,
   groups      |-> GroupsPage,
   billing     |-> BillingPage,
   credentials |-> CredentialsPage,
   referrals   |-> ReferralsPage,
   user        |-> UserPage,
   settings    |-> SettingsPage,
   generator   |-> GeneratorPage]

Page == DOMAIN Pages
Forms == {"credentials", "user", "settings", "generator"}

Flag(page, op) == Pages[page][op].flag
Calls(page, op) == Pages[page][op].calls

(* Handlers whose write answers with the element written, which is shown;  *)
(* the others show nothing of the answer.                                  *)
ShowsAnswer(page, op) ==
  <<page, op>> \in {<<"whatsapp", "connect">>, <<"whatsapp", "remove">>,
                    <<"billing", "cancel">>, <<"settings", "save">>,
                    <<"settings", "savePrices">>}

(* Handlers that show what they read only after their last answer. *)
ShowsAtEnd(page, op) ==
  <<page, op>> \in {<<"billing", "checkout">>, <<"routes", "load">>}
=============================================================================
