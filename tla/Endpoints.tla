----------------------------- MODULE Endpoints -----------------------------
(***************************************************************************)
(* What the routers and the role table say of each endpoint, as constants  *)
(* for Requests: the permissions of which it asks for one, how its handler *)
(* runs, what it does to the database, and with what it may be refused.    *)
(***************************************************************************)
EXTENDS TLC

(* A handler declared with async def runs on the event loop, one declared  *)
(* with def on a thread; a StreamingResponse reads on after the answer has *)
(* begun.  EVENT: writes rows and a history event of the user.             *)
E(needs, runs, effect, refusals) ==
  [needs |-> needs, runs |-> runs, effect |-> effect, refusals |-> refusals,
   provider |-> FALSE, audited |-> FALSE, reloads |-> "NO"]

(* get_current_provider_firm_code is among the handler's dependencies. *)
Provider(e) == [e EXCEPT !.provider = TRUE]
(* audit_and_require_permission *)
Audited(e) == [e EXCEPT !.audited = TRUE]
(* What it committed is read again for its answer. *)
Reloading(e) == [e EXCEPT !.reloads = "ANSWER"]
(* What it committed is read again for an email that may fail. *)
Notifying(e) == [e EXCEPT !.reloads = "NOTIFY"]

SubmissionEndpoints ==
     "create_application" :>
       Reloading(Provider(E({"application:create"}, "THREAD", "EVENT", {"FORBIDDEN"})))
  @@ "upload_coroners_letter" :>
       E({"application:create"}, "LOOP", "ROWS", {"UNPROCESSABLE"})
  @@ "create_claim" :>
       Reloading(Provider(E({"claim:create"}, "THREAD", "EVENT",
         {"FORBIDDEN", "NOT_FOUND", "UNPROCESSABLE"})))

ApplicationEndpoints ==
     "create_note" :> Reloading(E({"case-note:create"}, "THREAD", "EVENT", {"NOT_FOUND"}))
  @@ "read_all_applications" :> E({"application:read"}, "LOOP", "READ", {})
  @@ "list_public_bodies" :>
       E({"application:create", "application:manage"}, "THREAD", "READ", {})
  @@ "search_application" :> Provider(E({"application:search"}, "LOOP", "READ", {"FORBIDDEN"}))
  @@ "list_provider_offices" :> E({"provider-offices:read"}, "LOOP", "NONE", {})

CaseEndpoints ==
     "read_application" :> Audited(E({"application:read"}, "LOOP", "READ", {"NOT_FOUND"}))
  @@ "read_certificate" :>
       Audited(E({"certificate:read"}, "THREAD", "READ", {"NOT_FOUND", "UNPROCESSABLE"}))
  @@ "list_application_claims" :> E({"claim:read"}, "THREAD", "READ", {"NOT_FOUND"})
  @@ "read_claim" :> E({"claim:read"}, "THREAD", "READ", {"NOT_FOUND"})
  @@ "retrieve_coroners_letter" :>
       E({"application:read"}, "STREAM", "READ",
         {"BAD_REQUEST", "NOT_FOUND", "UNSUPPORTED_MEDIA_TYPE"})

DecisionEndpoints ==
     "get_application_history" :> E({"history:read"}, "THREAD", "READ", {"NOT_FOUND"})
  @@ "pay_in_full_claim" :>
       E({"claim:manage"}, "THREAD", "EVENT", {"NOT_FOUND", "CONFLICT", "UNPROCESSABLE"})
  @@ "reject_claim" :>
       Notifying(E({"claim:manage"}, "THREAD", "EVENT", {"NOT_FOUND", "CONFLICT"}))
  @@ "grant_decision" :> E({"application:manage"}, "THREAD", "EVENT", {"NOT_FOUND"})
  @@ "update_application_public_bodies" :>
       E({"application:manage"}, "THREAD", "EVENT", {"NOT_FOUND", "UNPROCESSABLE"})
  @@ "refuse_decision" :> E({"application:manage"}, "THREAD", "EVENT", {"NOT_FOUND"})

DeleteLetterEndpoint ==
  "delete_coroners_letter" :> E({"application:create"}, "THREAD", "ROWS", {"NOT_FOUND"})

EvidenceEndpoints ==
     "upload_claim_evidence" :> E({"claim:create"}, "LOOP", "ROWS", {"UNPROCESSABLE"})
  @@ "retrieve_claim_evidence" :>
       E({"claim:create", "claim:read"}, "STREAM", "READ",
         {"NOT_FOUND", "UNSUPPORTED_MEDIA_TYPE"})

ClaimEndpoints ==
     "retrieve_application_for_claim" :> E({"claim:read"}, "THREAD", "READ", {"NOT_FOUND"})
  @@ "delete_claim_evidence" :> E({"claim:create"}, "THREAD", "ROWS", {"NOT_FOUND"})

BacklogEndpoints ==
     "get_application_backlog_report" :>
       Audited(E({"reports-application-workflow:read"}, "STREAM", "READ", {}))
  @@ "get_claim_backlog_report" :>
       Audited(E({"reports-claim-workflow:read"}, "STREAM", "READ", {}))

ReportEndpoints ==
     "get_payment_extract_report" :>
       Audited(E({"reports-payment:read"}, "STREAM", "READ", {"UNPROCESSABLE"}))
  @@ "get_audit_trail_report" :>
       Audited(E({"reports-audit-trail:read"}, "THREAD", "READ", {"UNPROCESSABLE"}))
  @@ "get_decisions_report" :>
       Audited(E({"reports-application-workflow:read", "reports-claim-workflow:read"},
                 "THREAD", "READ", {"UNPROCESSABLE"}))
  @@ "get_ogd_costs_report" :>
       Audited(E({"reports-costs:read"}, "THREAD", "READ", {"UNPROCESSABLE"}))
  @@ "get_cost_limit_forecast_report" :>
       Audited(E({"reports-costs:read"}, "THREAD", "READ", {}))

EndpointTable ==
  SubmissionEndpoints @@ ApplicationEndpoints @@ CaseEndpoints @@ DecisionEndpoints
    @@ DeleteLetterEndpoint @@ EvidenceEndpoints @@ ClaimEndpoints
    @@ BacklogEndpoints @@ ReportEndpoints

(* ROLE_PERMISSIONS_MAP *)
CasePermissions ==
  {"application:read", "certificate:read", "case-note:create", "history:read"}
WorkflowReports == {"reports-application-workflow:read", "reports-claim-workflow:read"}

RolePermissionsMap ==
  [PROVIDER_APPLICATION_USER |-> {"application:create", "provider-offices:read"},
   PROVIDER_CLAIMS_USER |->
     {"application:search", "claim:create", "claim:delete", "claim:read", "provider-offices:read"},
   APPLICATIONS_CASEWORKER |-> CasePermissions \cup {"application:manage"},
   CLAIMS_CASEWORKER |-> CasePermissions \cup {"claim:read", "claim:manage"},
   CUSTOMER_SERVICE_AGENT |-> CasePermissions \cup {"claim:read"},
   ASSURANCE |-> CasePermissions \cup WorkflowReports
                   \cup {"claim:read", "reports-audit-trail:read", "reports-payment:read"},
   APPLICATION_WORKFLOW_REPORTING |-> {"reports-application-workflow:read"},
   CLAIM_WORKFLOW_REPORTING |-> {"reports-claim-workflow:read"},
   POLICY |-> {"reports-costs:read"},
   FINANCE |-> WorkflowReports \cup {"reports-costs:read", "reports-payment:read"}]
=============================================================================
