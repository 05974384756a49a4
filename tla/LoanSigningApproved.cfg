SPECIFICATION Spec
CONSTANT Requests = {r1}
INVARIANT ApprovedHasAllDocuments
