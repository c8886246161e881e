SPECIFICATION QueueSpec
CONSTANTS
    Producer = {p1, p2}
    Consumer = {c1, c2}
    Capacity = 2
    MaxPuts = 2
PROPERTIES PutWaitsForRoom
CHECK_DEADLOCK FALSE
