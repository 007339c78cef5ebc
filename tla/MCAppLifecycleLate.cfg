SPECIFICATION Spec
CONSTANTS
    scheduler = scheduler
    rabbit = rabbit
    kafka = kafka
    redis = redis
    pools = pools
    grpc = grpc
    request = request
    job = job
    loop = loop
    Web = Web
    None = None
    Component = {scheduler, rabbit, kafka, redis, pools, grpc}
    Worker = {request, job, loop}
    KindOf <- MCKindOf
    SourceOf <- MCSourceOf
    Faults = {"start", "listen", "late", "slow", "kill"}
INVARIANTS RegisteredIsStarted
