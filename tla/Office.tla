------------------------------- MODULE Office -------------------------------
(*****************************************************************************)
(* The parts of the backend that share no row with each other or with the    *)
(* bid: the team and its approvals (Approval.tla, which extends Team.tla),   *)
(* projects and costs, the tenders a tenant keeps and the pool of all, the   *)
(* gateway to outside tools, the company's qualifications and the compliance *)
(* checks; the router of the AI service; and the session of the browser.     *)
(* Whatever order their steps come in, none is enabled, disabled or changed  *)
(* by a step of another part, so a behaviour follows one of them, the one at *)
(* desk.                                                                     *)
(*****************************************************************************)
EXTENDS Approval, Projects, Tenders, TenderPool, ToolGateway, Qualification, Compliance, ModelRouter,
        BrowserSession

VARIABLE desk

officeVars == <<desk, approvalVars, projectVars, tendersVars, poolVars, toolVars, qualVars, complianceVars,
                routerVars, browserVars>>

OfficeInit ==
    /\ desk \in {"team", "approval", "projects", "tenders", "pool", "tools", "qualification", "compliance",
               "router", "browser"}
    /\ ApprovalInit /\ ProjectInit /\ TendersInit /\ PoolInit /\ ToolInit /\ QualInit /\ ComplianceInit /\ RouterInit
    /\ BrowserInit

TeamDesk ==
    /\ desk = "team" /\ TeamNext
    /\ UNCHANGED <<desk, chains, instance, status, ready, edits, submits,
                   projectVars, tendersVars, poolVars, toolVars, qualVars, complianceVars, routerVars, browserVars>>

ApprovalDesk ==
    /\ desk = "approval" /\ ApprovalNext
    /\ UNCHANGED <<desk, projectVars, tendersVars, poolVars, toolVars, qualVars, complianceVars, routerVars, browserVars>>

ProjectDesk ==
    /\ desk = "projects" /\ ProjectNext
    /\ UNCHANGED <<desk, approvalVars, tendersVars, poolVars, toolVars, qualVars, complianceVars, routerVars, browserVars>>

TendersDesk ==
    /\ desk = "tenders" /\ TendersNext
    /\ UNCHANGED <<desk, approvalVars, projectVars, poolVars, toolVars, qualVars, complianceVars, routerVars, browserVars>>

PoolDesk ==
    /\ desk = "pool" /\ PoolNext
    /\ UNCHANGED <<desk, approvalVars, projectVars, tendersVars, toolVars, qualVars, complianceVars, routerVars, browserVars>>

ToolDesk ==
    /\ desk = "tools" /\ ToolNext
    /\ UNCHANGED <<desk, approvalVars, projectVars, tendersVars, poolVars, qualVars, complianceVars, routerVars, browserVars>>

QualDesk ==
    /\ desk = "qualification" /\ QualNext
    /\ UNCHANGED <<desk, approvalVars, projectVars, tendersVars, poolVars, toolVars, complianceVars, routerVars, browserVars>>

ComplianceDesk ==
    /\ desk = "compliance" /\ ComplianceNext
    /\ UNCHANGED <<desk, approvalVars, projectVars, tendersVars, poolVars, toolVars, qualVars, routerVars, browserVars>>

RouterDesk ==
    /\ desk = "router" /\ RouterNext
    /\ UNCHANGED <<desk, approvalVars, projectVars, tendersVars, poolVars, toolVars, qualVars, complianceVars, browserVars>>

BrowserDesk ==
    /\ desk = "browser" /\ BrowserNext
    /\ UNCHANGED <<desk, approvalVars, projectVars, tendersVars, poolVars, toolVars, qualVars, complianceVars, routerVars>>

OfficeNext ==
    \/ TeamDesk \/ ApprovalDesk \/ ProjectDesk \/ TendersDesk
    \/ PoolDesk \/ ToolDesk \/ QualDesk \/ ComplianceDesk \/ RouterDesk \/ BrowserDesk

OfficeSpec == OfficeInit /\ [][OfficeNext]_officeVars
=============================================================================
