-------------------------------- MODULE Roles --------------------------------
(***************************************************************************)
(* Who may do what: the roles each console route asks for                  *)
(* (console/console.controller.ts, invitations/invitations.controller.ts,  *)
(* registration/registration.controller.ts), the guard that checks them    *)
(* and the jurisdiction a query is confined to (common/rbac.ts).           *)
(***************************************************************************)
EXTENDS FiniteSets

Role == {"inspector", "desk_supervisor", "authorising_officer",
         "state_admin", "national_admin", "auditor"}

\* Sets of roles that recur.
Anyone == Role
Desk == {"desk_supervisor", "authorising_officer"}
Planners == Desk \cup {"state_admin"}
Admins == {"state_admin", "national_admin"}
Overseers == Admins \cup {"auditor"}

-----------------------------------------------------------------------------
FacilityRoutes ==
  [listFacilities |-> Anyone, registerFacility |-> Planners,
   importFacilities |-> Planners, updateFacility |-> Planners]

InstrumentRoutes ==
  [readVersion |-> Anyone, createDraft |-> {"state_admin"},
   replaceStructure |-> {"state_admin"}, publish |-> {"state_admin"}]

InspectionRoutes ==
  [readInspection |-> Anyone, decide |-> Desk, authorise |-> {"authorising_officer"}]

FindingRoutes ==
  [submitClosure |-> Anyone,
   verify |-> Desk \cup {"inspector"}, reject |-> Desk \cup {"inspector"}]

PlanningRoutes ==
  [readAssignments |-> Anyone, createAssignment |-> Planners,
   createAssignments |-> Planners, cancel |-> Planners,
   inspectors |-> Planners \cup {"national_admin"},
   suggestions |-> Planners \cup {"national_admin"},
   executive |-> Overseers \cup {"authorising_officer"},
   dashboard |-> Overseers \cup Desk]

CertificateRoutes ==
  [readCertificate |-> Anyone, revoke |-> {"authorising_officer", "state_admin"}]

UserRoutes ==
  [listUsers |-> Overseers, createUser |-> Admins, grantRole |-> Admins,
   revokeRole |-> Admins, suspendUser |-> Admins]

DeviceRoutes ==
  [listDevices |-> Overseers, enroll |-> Admins, requestEnrolment |-> Anyone,
   deviceStatus |-> Anyone, approveDevice |-> Admins, revokeDevice |-> Admins]

\* The assignments a caller is shown: a planner may ask for anybody's.
MaySeeAll(roles) == roles \cap Planners # {}

-----------------------------------------------------------------------------
\* RolesGuard: any one of the route's roles is enough.
Permits(allowed, roles) == roles \cap allowed # {}

\* jurisdictionFilter(), and the SQL that applies it.
Unscoped(roles) == roles \cap {"national_admin", "auditor"} # {}
InScope(roles, home, jurisdiction) == Unscoped(roles) \/ home = jurisdiction
=============================================================================
